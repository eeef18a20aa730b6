-------------------------- MODULE CredentialServer --------------------------
(***************************************************************************)
(* Lifetimes in the credential process (crates/symbiotic-credential-       *)
(* process: lib.rs, server.rs, jobs.rs; crates/symbiotic-ai-runtime:       *)
(* maintained.rs): who owns a state directory and a socket path, how many  *)
(* connections are served, which job runner serves a scope, and how the    *)
(* reference-counted owner, the runtime's maintenance thread and the       *)
(* runner go away.  An instance is one CredentialProcess::open; instances  *)
(* may share a state directory or only the socket path.  What a request    *)
(* does to permits and jobs is in CredentialProcess and JobStore: here it  *)
(* enqueues the one job of its scope or asks for completions.              *)
(***************************************************************************)
EXTENDS Integers, FiniteSets

CONSTANTS
    Instances,        \* CredentialProcess::open calls, numbered as they come
    StateDirs,        \* state directories the instances are configured with
    Layouts,          \* subset of [Instances -> StateDirs]
    Conns,            \* connections clients make
    Requests,         \* [Conns -> SUBSET {"enqueue", "completions"}]
    MaxConnections,   \* [Instances -> Nat]: ProcessConfig.max_connections
    Nobody,           \* no holder of a lock
    MaxTroubles       \* bound: crashes, failed sweeps, dropped servers, ...

ASSUME ServerAssumption ==
    /\ Instances \subseteq Nat \ {0} /\ Layouts \subseteq [Instances -> StateDirs]
    /\ MaxConnections \in [Instances -> Nat \ {0}] /\ MaxTroubles \in Nat
    /\ Requests \in [Conns -> SUBSET {"enqueue", "completions"}]
    /\ Nobody \notin Instances \cup Conns

VARIABLES
    dir,        \* [Instances]: configured state directory
    inst,       \* [Instances]: the instance's references and threads
    conn,       \* [Conns]: the connection and the request on it
    socket,     \* the socket path: Absent, Stale or the binding instance
    bindlock,   \* holder of <socket_path>.bind.lock
    lock,       \* [StateDirs]: holder of credential-process.lock
    job,        \* [StateDirs]: the job of the scope: none, pending or done
    acked,      \* [StateDirs]: history: who last answered an enqueue of it
    troubles    \* what the environment may still do

vars == <<dir, inst, conn, socket, bindlock, lock, job, acked, troubles>>

\* phase: of the main handle; slots: free permits of the semaphore; inner,
\* task, worker: the shared Inner, the runner's task, the maintenance thread;
\* holders: references to Maintenance; joiner: who is joining its thread;
\* refs: holders of the process lock; runner: the entry of job_runners, which
\* gate locks; stop: the runner was told to stop; starts: runners started.
Off ==
    [phase |-> "off", slots |-> 0, inner |-> "none",
     task |-> "none", worker |-> "none", holders |-> {}, joiner |-> "none",
     refs |-> {}, runner |-> "absent", gate |-> Nobody, stop |-> FALSE,
     starts |-> 0]
Absent == 0
Stale == -1
Unmade == [at |-> "off", to |-> Nobody, op |-> "none"]
Closed == [at |-> "closed", to |-> Nobody, op |-> "none"]

ServerInit ==
    /\ dir \in Layouts
    /\ inst = [i \in Instances |-> Off]
    /\ conn = [c \in Conns |-> Unmade]
    /\ socket \in {Absent, Stale}
    /\ bindlock = Nobody /\ lock = [d \in StateDirs |-> Nobody]
    /\ job = [d \in StateDirs |-> "none"]
    /\ acked = [d \in StateDirs |-> Absent]
    /\ troubles = MaxTroubles

Trouble == troubles > 0 /\ troubles' = troubles - 1

------------------------------------------------------------------------------
(* Opening and binding.                                                    *)

\* CredentialProcess::open: the state lock, then the runtime with its sweep.
Open(i) ==
    /\ inst[i].phase = "off" /\ lock[dir[i]] = Nobody
    /\ \A j \in Instances : j < i => inst[j].phase # "off"
    /\ lock' = [lock EXCEPT ![dir[i]] = i]
    /\ inst' = [inst EXCEPT ![i].phase = "open", ![i].inner = "alive",
                            ![i].worker = "waiting", ![i].holders = {"inner"},
                            ![i].refs = {"inner"}, ![i].slots = MaxConnections[i]]
    /\ UNCHANGED <<dir, conn, socket, bindlock, job, acked, troubles>>

\* Mutant: binders do not wait for each other.
BindFreeAlways == TRUE

BindFree == bindlock = Nobody

LockBind(i) ==
    /\ inst[i].phase = "open" /\ BindFree
    /\ bindlock' = i
    /\ inst' = [inst EXCEPT ![i].phase = "probing"]
    /\ UNCHANGED <<dir, conn, socket, lock, job, acked, troubles>>

Listening(i) == inst[i].phase \in {"acquiring", "accepting"}
Unbound(i, phase) ==
    inst' = [inst EXCEPT ![i].phase = phase]
    /\ UNCHANGED <<dir, conn, lock, job, acked, troubles>>

\* Only a refused connection proves that nobody listens at the path.
Probe(i) ==
    /\ inst[i].phase = "probing"
    /\ IF socket \in Instances /\ Listening(socket)
         THEN Unbound(i, "left") /\ bindlock' = Nobody
         ELSE /\ Unbound(i, IF socket = Absent THEN "binding" ELSE "removing")
              /\ UNCHANGED bindlock
    /\ UNCHANGED socket

RemoveSocket(i) ==
    /\ inst[i].phase = "removing"
    /\ socket' = Absent
    /\ Unbound(i, "binding") /\ UNCHANGED bindlock

\* bind() fails on an existing path; either way the bind lock is released.
Bind(i) ==
    /\ inst[i].phase = "binding"
    /\ socket' = IF socket = Absent THEN i ELSE socket
    /\ Unbound(i, IF socket = Absent THEN "acquiring" ELSE "left")
    /\ bindlock' = Nobody

------------------------------------------------------------------------------
(* serve(): one slot per connection, taken before accept.                  *)

ClientConnects(c, op) ==
    /\ conn[c].at = "off"
    /\ socket \in Instances /\ Listening(socket)
    /\ conn' = [conn EXCEPT ![c] = [at |-> "queued", to |-> socket, op |-> op]]
    /\ UNCHANGED <<dir, inst, socket, bindlock, lock, job, acked, troubles>>

Acquire(i) ==
    /\ inst[i].phase = "acquiring" /\ inst[i].slots > 0
    /\ inst' = [inst EXCEPT ![i].phase = "accepting", ![i].slots = @ - 1]
    /\ UNCHANGED <<dir, conn, socket, bindlock, lock, job, acked, troubles>>

\* Mutant: a refused peer keeps its slot.
SlotsAfterRefusalKept(i) == inst[i].slots

SlotsAfterRefusal(i) == inst[i].slots + 1

\* A peer that is gone or belongs to another user is refused unread, and its
\* slot is returned; others get a task that owns the slot and a handle.
Accept(c) ==
    LET i == conn[c].to IN
    /\ conn[c].at = "queued" /\ inst[i].phase = "accepting"
    /\ \/ /\ conn' = [conn EXCEPT ![c].at = "reading"]
          /\ inst' = [inst EXCEPT ![i].phase = "acquiring"]
       \/ /\ conn' = [conn EXCEPT ![c] = Closed]
          /\ inst' = [inst EXCEPT ![i].phase = "acquiring",
                                  ![i].slots = SlotsAfterRefusal(i)]
    /\ UNCHANGED <<dir, socket, bindlock, lock, job, acked, troubles>>

Steps(c, at) == conn' = [conn EXCEPT ![c].at = at]

\* The response is written (or not, within the timeout): the task ends, and
\* with it its slot and its handle.
WriteResponse(c) ==
    LET i == conn[c].to IN
    /\ conn[c].at \in {"answering", "failed"}
    /\ conn' = [conn EXCEPT ![c] = Closed]
    /\ inst' = [inst EXCEPT ![i].slots = @ + 1]
    /\ acked' = IF conn[c].at = "answering" /\ conn[c].op = "enqueue"
                THEN [acked EXCEPT ![dir[i]] = i] ELSE acked
    /\ UNCHANGED <<dir, socket, bindlock, lock, job, troubles>>

------------------------------------------------------------------------------
(* jobs_operation: the request of a connection.                            *)

\* Mutant: runners are started without the lock of job_runners.
GateFreeAlways(i) == TRUE

GateFree(i) == inst[i].gate = Nobody

\* The runner's task is over: the entry becomes a refusal that stays.
Over(i) == inst[i].runner = "refused" \/ (inst[i].runner = "running" /\ inst[i].task = "ended")
RefusedIfOver(i) == IF Over(i) THEN "refused" ELSE inst[i].runner

\* The frame is read (or the peer is silent until the timeout, or the MAC or
\* the scope is refused), then check_job_runners refuses before the command
\* touches anything.
ReadRequest(c) ==
    LET i == conn[c].to IN
    /\ conn[c].at = "reading"
    /\ \/ Steps(c, "failed") /\ UNCHANGED inst
       \/ /\ GateFree(i)
          /\ inst' = [inst EXCEPT ![i].runner = RefusedIfOver(i)]
          /\ Steps(c, IF Over(i) THEN "failed" ELSE "running")
    /\ UNCHANGED <<dir, socket, bindlock, lock, job, acked, troubles>>

\* Mutant: only an inserted job gets a runner, not one that was joined.
AfterEnqueueInserted(d) == IF job[d] = "none" THEN "status" ELSE "answering"

\* Inserted and joined jobs are looked up before the answer.
AfterEnqueue(d) == "status"

\* A page of completions is empty while the job has no result, and an empty
\* page starts runners.
AfterPage(d) == IF job[d] = "done" THEN "answering" ELSE "starting"

\* run_jobs_command: enqueue inserts or joins.
RunCommand(c) ==
    LET d == dir[conn[c].to] IN
    /\ conn[c].at = "running"
    /\ IF conn[c].op = "enqueue"
         THEN /\ job' = [job EXCEPT ![d] = IF @ = "none" THEN "pending" ELSE @]
              /\ Steps(c, AfterEnqueue(d))
         ELSE Steps(c, AfterPage(d)) /\ UNCHANGED job
    /\ UNCHANGED <<dir, inst, socket, bindlock, lock, acked, troubles>>

\* Only a job that still waits or runs needs a runner.
ReadStatus(c) ==
    /\ conn[c].at = "status"
    /\ Steps(c, IF job[dir[conn[c].to]] = "pending" THEN "starting" ELSE "answering")
    /\ UNCHANGED <<dir, inst, socket, bindlock, lock, job, acked, troubles>>

\* start_jobs: check again, and stop when nothing waits or a runner exists.
LockRunners(c) ==
    LET i == conn[c].to
        start == inst[i].runner = "absent" /\ job[dir[i]] = "pending"
    IN /\ conn[c].at = "starting" /\ GateFree(i)
       /\ inst' = [inst EXCEPT ![i].runner = RefusedIfOver(i),
                               ![i].gate = IF start THEN c ELSE @]
       /\ Steps(c, IF Over(i) THEN "failed" ELSE IF start THEN "attaching" ELSE "answering")
       /\ UNCHANGED <<dir, socket, bindlock, lock, job, acked, troubles>>

\* Mutant: the runner does not hold the process lock.
RunnerRefsNone == {}

\* The admission of the runner's ModelJobs holds the process lock.
RunnerRefs == {"runner"}

\* The runner is started and entered while the lock of job_runners is held.
StartRunner(c) ==
    LET i == conn[c].to IN
    /\ conn[c].at = "attaching"
    /\ \/ /\ inst' = [inst EXCEPT ![i].runner = "running", ![i].task = "running",
                                  ![i].holders = @ \cup {"runner"},
                                  ![i].refs = @ \cup RunnerRefs,
                                  ![i].gate = Nobody, ![i].starts = @ + 1]
          /\ Steps(c, "answering") /\ UNCHANGED troubles
       \/ /\ Trouble
          /\ inst' = [inst EXCEPT ![i].gate = Nobody]
          /\ Steps(c, "failed")
    /\ UNCHANGED <<dir, socket, bindlock, lock, job, acked>>

------------------------------------------------------------------------------
(* The runner of the scope.                                                *)

Unreleased(i) ==
    \/ inst[i].phase \notin {"off", "left", "crashed"}
    \/ inst[i].task = "using"
    \/ \E c \in Conns : conn[c].to = i /\ conn[c].at # "queued"

\* A transaction of the runner needs the Inner: the weak reference is upgraded
\* for its duration, or the runner fails.
UseInner(i) ==
    /\ inst[i].task = "running" /\ ~ inst[i].stop
    /\ job[dir[i]] = "pending"
    /\ inst' = [inst EXCEPT ![i].task =
          IF inst[i].inner = "alive" /\ Unreleased(i) THEN "using" ELSE "failing"]
    /\ UNCHANGED <<dir, conn, socket, bindlock, lock, job, acked, troubles>>

RunJob(i) ==
    /\ inst[i].task = "using"
    /\ job' = [job EXCEPT ![dir[i]] = "done"]
    /\ inst' = [inst EXCEPT ![i].task = "running"]
    /\ UNCHANGED <<dir, conn, socket, bindlock, lock, acked, troubles>>

\* A worker, its maintenance or its storage fails.
RunnerFails(i) ==
    /\ inst[i].task \in {"running", "using"} /\ Trouble
    /\ inst' = [inst EXCEPT ![i].task = "failing"]
    /\ UNCHANGED <<dir, conn, socket, bindlock, lock, job, acked>>

------------------------------------------------------------------------------
(* Going away.  Whoever releases the last reference to Maintenance tells   *)
(* its thread to stop and joins it, unless it is that thread.              *)

Joiner(i, who) == IF inst[i].holders = {who} THEN who ELSE inst[i].joiner

\* The last handle is gone: Inner drops its runtime ...
ReleaseInner(i) ==
    /\ inst[i].inner = "alive" /\ ~ Unreleased(i)
    /\ inst' = [inst EXCEPT ![i].inner = "released", ![i].holders = @ \ {"inner"},
                            ![i].joiner = Joiner(i, "inner")]
    /\ UNCHANGED <<dir, conn, socket, bindlock, lock, job, acked, troubles>>

\* ... then the runners, which are told to stop, and its process lock.
LockAfter(i, who) ==
    IF inst[i].refs = {who} THEN [lock EXCEPT ![dir[i]] = Nobody] ELSE lock
DropInner(i) ==
    /\ inst[i].inner = "released"
    /\ inst[i].joiner # "inner" \/ inst[i].worker = "exited"
    /\ inst' = [inst EXCEPT ![i].inner = "dropped", ![i].stop = TRUE,
                            ![i].refs = @ \ {"inner"}]
    /\ lock' = LockAfter(i, "inner")
    /\ UNCHANGED <<dir, conn, socket, bindlock, job, acked, troubles>>

\* A stopped or failed runner drops its runtime, then its process lock.
ReleaseRunner(i) ==
    /\ inst[i].task = "failing" \/ (inst[i].task = "running" /\ inst[i].stop)
    /\ inst' = [inst EXCEPT ![i].task = "released", ![i].holders = @ \ {"runner"},
                            ![i].joiner = Joiner(i, "runner")]
    /\ UNCHANGED <<dir, conn, socket, bindlock, lock, job, acked, troubles>>
EndRunner(i) ==
    /\ inst[i].task = "released"
    /\ inst[i].joiner # "runner" \/ inst[i].worker = "exited"
    /\ inst' = [inst EXCEPT ![i].task = "ended", ![i].refs = @ \ {"runner"}]
    /\ lock' = LockAfter(i, "runner")
    /\ UNCHANGED <<dir, conn, socket, bindlock, job, acked, troubles>>

\* The maintenance thread wakes: it upgrades its weak reference to sweep, or
\* ends because the owner is gone.
WakeWorker(i) ==
    /\ inst[i].worker = "waiting"
    /\ inst' = [inst EXCEPT ![i].worker = IF inst[i].holders = {} THEN "exited" ELSE "sweeping",
                            ![i].holders = IF @ = {} THEN {} ELSE @ \cup {"worker"}]
    /\ UNCHANGED <<dir, conn, socket, bindlock, lock, job, acked, troubles>>

\* Mutant: the thread joins itself when it held the last reference.
AfterSweepJoins(i) == IF inst[i].holders = {"worker"} THEN "joining" ELSE "waiting"

\* Dropping the last reference on its own thread never joins.
AfterSweep(i) == "waiting"

EndSweep(i) ==
    /\ inst[i].worker = "sweeping"
    /\ inst' = [inst EXCEPT ![i].worker = AfterSweep(i), ![i].holders = @ \ {"worker"}]
    /\ UNCHANGED <<dir, conn, socket, bindlock, lock, job, acked, troubles>>

\* serve() ends (its cleanup or accept failed) or the embedding application
\* drops it: the listener and the handle go, the tasks stay.
LeaveServe(i) ==
    /\ inst[i].phase \in {"open", "acquiring", "accepting"} /\ Trouble
    /\ inst' = [inst EXCEPT ![i].phase = "left"]
    /\ conn' = [c \in Conns |-> IF conn[c].to = i /\ conn[c].at = "queued"
                                THEN Closed ELSE conn[c]]
    /\ UNCHANGED <<dir, socket, bindlock, lock, job, acked>>

\* The process dies: the kernel drops its locks, its socket file stays.
Crash(i) ==
    /\ inst[i].phase \notin {"off", "crashed"} /\ Trouble
    /\ inst' = [inst EXCEPT ![i] = [Off EXCEPT !.phase = "crashed"]]
    /\ conn' = [c \in Conns |-> IF conn[c].to = i THEN Closed ELSE conn[c]]
    /\ bindlock' = IF bindlock = i THEN Nobody ELSE bindlock
    /\ lock' = IF lock[dir[i]] = i THEN [lock EXCEPT ![dir[i]] = Nobody] ELSE lock
    /\ UNCHANGED <<dir, socket, job, acked>>

------------------------------------------------------------------------------
InstanceStep(i) ==
    \/ LockBind(i) \/ Probe(i) \/ RemoveSocket(i) \/ Bind(i) \/ Acquire(i)
    \/ ReleaseInner(i) \/ DropInner(i)
RunnerStep(i) == UseInner(i) \/ RunJob(i) \/ ReleaseRunner(i) \/ EndRunner(i)
WorkerStep(i) == WakeWorker(i) \/ EndSweep(i)
TaskStep(c) ==
    \/ Accept(c) \/ ReadRequest(c) \/ RunCommand(c)
    \/ ReadStatus(c) \/ LockRunners(c) \/ StartRunner(c) \/ WriteResponse(c)

ServerNext ==
    \/ \E i \in Instances :
          \/ Open(i) \/ InstanceStep(i) \/ RunnerStep(i) \/ WorkerStep(i)
          \/ RunnerFails(i) \/ LeaveServe(i) \/ Crash(i)
    \/ \E c \in Conns :
          \/ TaskStep(c)
          \/ \E op \in Requests[c] : ClientConnects(c, op)

ServerSpec == ServerInit /\ [][ServerNext]_vars

\* Threads and tasks that can go on do: a wait for a frame or a response is
\* bounded by io_timeout_seconds, and the backlog, the semaphore and the lock of
\* job_runners serve in order (WF is enough for finitely many connections).
\* Clients, troubles and Open owe nothing.
FairServerSpec ==
    /\ ServerSpec
    /\ \A i \in Instances :
          /\ WF_vars(InstanceStep(i)) /\ WF_vars(RunnerStep(i))
          /\ WF_vars(WorkerStep(i))
    /\ \A c \in Conns : WF_vars(TaskStep(c))

------------------------------------------------------------------------------
(* Properties.                                                             *)

\* What one process owns no other uses.  Two instances never use one state
\* directory: the lock outlives the handle until the last task of the instance
\* and its runner are gone.  No later binder, with the same or another state
\* directory, takes the socket of a live listener for stale.  And an instance
\* starts at most one runner for a scope, whatever requests race.
Active(i) == inst[i].inner \in {"alive", "released"} \/ inst[i].task \in {"running", "using", "failing"}
OneOwner ==
    /\ \A i, j \in Instances :
         (i # j /\ dir[i] = dir[j] /\ Active(i)) => ~ Active(j)
    /\ \A i \in Instances : Listening(i) => socket = i
    /\ \A i \in Instances : inst[i].starts <= 1

\* A client that connects is answered or refused: slots come back from every
\* path, so a full server is full only while its tasks run.
ClientsServed ==
    \A c \in Conns : (conn[c].at # "off") ~> (conn[c].at = "closed")

\* An enqueue that was answered runs, also when it joined a job an earlier
\* instance left behind: the job is done, or the instance that answered lost
\* its runner, left or crashed.
AnsweredRuns ==
    \A i \in Instances :
        (acked[dir[i]] = i /\ job[dir[i]] = "pending")
            ~> (\/ job[dir[i]] = "done" \/ inst[i].task = "ended"
                \/ inst[i].phase \in {"left", "crashed"})

\* When a server leaves, everything it shares goes with it: the runner, the
\* maintenance thread (whoever held the last reference) and the state lock.
TeardownEnds ==
    \A i \in Instances : (inst[i].phase = "left")
        ~> (/\ inst[i].inner \in {"none", "dropped"}
            /\ inst[i].task \in {"none", "ended"}
            /\ inst[i].worker \in {"none", "exited"}
            /\ lock[dir[i]] # i)
==============================================================================
