------------------------------ MODULE Supervise ------------------------------
(***************************************************************************)
(* Child supervision (crates/symbiotic-supervise): every Supervisor runs   *)
(* one lifecycle thread; all of them fork through one process-lifetime     *)
(* spawner thread, which holds the registry of parent-pipe write ends      *)
(* locked from the pipe to the exec.  The parent process may die at any    *)
(* step, and the application opens and closes descriptors of its own.      *)
(* Abstracted: Started and Exited events (nothing depends on them), poll,  *)
(* grace and backoff periods (a timeout may fire at any moment), signals   *)
(* and exit codes (a child that got SIGTERM may exit or ignore it).        *)
(***************************************************************************)
EXTENDS Integers, Sequences, FiniteSets

CONSTANTS
    Supervisors,      \* the supervisors one parent process starts
    MaxRestarts,      \* [Supervisors -> Nat]: Policy.max_restarts
    CrashWindow,      \* Policy.crash_window_ms, in clock ticks
    DiagnosticQueue,  \* DIAGNOSTIC_QUEUE
    Platforms,        \* subset of {"linux", "other"}
    Fds,              \* descriptor numbers the parent can use
    MaxTime,          \* bound: clock ticks
    MaxFailures       \* bound: operating-system calls that fail

ASSUME SuperviseAssumption ==
    /\ MaxRestarts \in [Supervisors -> Nat]
    /\ CrashWindow \in Nat \ {0} /\ DiagnosticQueue \in Nat
    /\ Platforms \subseteq {"linux", "other"} /\ Fds \subseteq Nat
    /\ MaxTime \in Nat /\ MaxFailures \in Nat

VARIABLES
    parent, platform,   \* up or dead; the operating system, once that matters
    now, failures,      \* the clock; failures left to the environment
    sup,                \* [Supervisors]: the handle and the lifecycle thread
    procs,              \* [Supervisors]: states of its children, in order
    queue,              \* spawn requests, oldest first
    spawner,            \* what spawn_here holds while the registry is locked
    registry, fds,      \* WRITERS; the parent's descriptor table
    diagnostics         \* messages waiting for the stderr writer thread

files == <<registry, fds>>
spawning == <<queue, spawner>>
world == <<platform, parent, now>>
superviseVars == <<world, failures, sup, procs, spawning, files, diagnostics>>

NoFd == -1
Idle == [phase |-> "idle", fd |-> NoFd, snapshot |-> {}, table |-> <<>>]
Executed == {"running", "watching", "cleaning", "telling"}
Living == {"forked", "armed"} \cup Executed
ChildrenOf(s) == {s} \X DOMAIN procs[s]
Children == UNION {ChildrenOf(s) : s \in Supervisors}

\* A supervisor's handle (handle, report: where the failure event is) and its
\* thread (pc; asked: a stop was sent; crashes: exits in the window; outcome:
\* what lifecycle() returns; writer: descriptor in the ManagedChild), with the
\* history of the exits that led to a restart.
Unstarted ==
    [handle |-> "none", report |-> "none", pc |-> "off", asked |-> FALSE,
     crashes |-> <<>>, outcome |-> "none", writer |-> NoFd, restarted |-> <<>>]

SuperviseInit ==
    /\ parent = "up" /\ platform = "unknown"
    /\ now = 0 /\ failures = MaxFailures
    /\ sup = [s \in Supervisors |-> Unstarted]
    /\ procs = [s \in Supervisors |-> <<>>]
    /\ queue = <<>> /\ spawner = Idle
    /\ registry = {} /\ fds = [f \in Fds |-> "free"]
    /\ diagnostics = 0

------------------------------------------------------------------------------
(* The caller's handle.                                                    *)

Start(s) ==
    /\ sup[s].handle = "none"
    /\ sup' = [sup EXCEPT ![s].handle = "live", ![s].pc = "check"]
    /\ UNCHANGED <<world, failures, procs, spawning, files, diagnostics>>

\* next_event hands over a failure that is still in the channel.
next_event(s) ==
    /\ sup[s].handle = "live" /\ sup[s].report = "unread"
    /\ sup' = [sup EXCEPT ![s].report = "read"]
    /\ UNCHANGED <<world, failures, procs, spawning, files, diagnostics>>

\* stop() or drop: send the stop message, then join the thread.
Leave(s, how) ==
    /\ sup[s].handle = "live"
    /\ sup' = [sup EXCEPT ![s].handle = how, ![s].asked = TRUE]
    /\ UNCHANGED <<world, failures, procs, spawning, files, diagnostics>>

\* What finish() leaves of the failure event: stop() returns it, drop can only
\* queue a diagnostic for the writer thread, which a full queue discards.
Drained(s) ==
    IF sup[s].report # "unread" THEN sup[s].report
    ELSE IF sup[s].handle = "drop" /\ diagnostics >= DiagnosticQueue THEN "discarded"
    ELSE sup[s].handle

\* Mutant: drop waits for room in the diagnostics queue (send, not try_send).
RoomFirst(s) == Drained(s) # "discarded"

\* Queueing a diagnostic never waits.
Room(s) == TRUE

\* finish() joins the ended thread and takes what is left in the channel.
finish(s) ==
    /\ sup[s].handle \in {"stop", "drop"} /\ sup[s].pc = "ended" /\ Room(s)
    /\ sup' = [sup EXCEPT ![s].handle = "returned", ![s].report = Drained(s)]
    /\ diagnostics' = IF Drained(s) = "drop" THEN diagnostics + 1 ELSE diagnostics
    /\ UNCHANGED <<world, failures, procs, spawning, files>>

\* The writer thread's blocking write to stderr ends.
write_diagnostic ==
    /\ diagnostics > 0 /\ diagnostics' = diagnostics - 1
    /\ UNCHANGED <<world, failures, sup, procs, spawning, files>>

------------------------------------------------------------------------------
(* The lifecycle thread.                                                   *)

ChildState(s) == procs[s][Len(procs[s])]
Becomes(s, state) == procs' = [procs EXCEPT ![s][Len(procs[s])] = state]
Goes(s, to) == sup' = [sup EXCEPT ![s].pc = to]
GoesWith(s, to, result) == sup' = [sup EXCEPT ![s].pc = to, ![s].outcome = result]

\* Top of the loop: stop without a child, or hand a command to the spawner.
CheckStop(s) ==
    /\ sup[s].pc = "check"
    /\ IF sup[s].asked
         THEN GoesWith(s, "ended", "ok") /\ UNCHANGED queue
         ELSE Goes(s, "spawning") /\ queue' = Append(queue, s)
    /\ UNCHANGED <<world, failures, procs, spawner, files, diagnostics>>

\* stopping(poll_ms): a stop message wins, otherwise the wait times out.
Poll(s) ==
    /\ sup[s].pc = "poll"
    /\ Goes(s, IF sup[s].asked THEN "stopping" ELSE "waited")
    /\ UNCHANGED <<world, failures, procs, spawning, files, diagnostics>>

\* try_wait(): reaps an exited child, or finds it running.
TryWait(s) ==
    /\ sup[s].pc = "waited"
    /\ IF ChildState(s) = "zombie"
         THEN Becomes(s, "reaped") /\ Goes(s, "exited")
         ELSE Goes(s, "poll") /\ UNCHANGED procs
    /\ UNCHANGED <<world, failures, spawning, files, diagnostics>>

\* Crashes older than the window leave the front of the queue.
Pruned(times) ==
    LET Old(t) == now - t >= CrashWindow
        popped == CHOOSE n \in 0..Len(times) :
                     /\ \A k \in 1..n : Old(times[k])
                     /\ n < Len(times) => ~ Old(times[n + 1])
    IN  SubSeq(times, popped + 1, Len(times))

\* Mutant: the limit counts restarts beyond the allowance.
AtLimitLate(s, times) == Len(times) > MaxRestarts[s]

AtLimit(s, times) == Len(times) >= MaxRestarts[s]

\* After an exit: give up at the limit, or remember it and back off.
Exited(s) ==
    /\ sup[s].pc = "exited"
    /\ LET kept == Pruned(sup[s].crashes)
       IN IF AtLimit(s, kept)
            THEN sup' = [sup EXCEPT ![s].pc = "dropping", ![s].outcome = "limit",
                                    ![s].crashes = <<>>]
            ELSE sup' = [sup EXCEPT ![s].pc = "backoff",
                                    ![s].crashes = Append(kept, now),
                                    ![s].restarted = Append(@, now)]
    /\ UNCHANGED <<world, failures, procs, spawning, files, diagnostics>>

\* stopping(backoff_ms); either way this turn's ManagedChild goes out of scope.
Backoff(s) ==
    /\ sup[s].pc = "backoff"
    /\ GoesWith(s, "dropping", IF sup[s].asked THEN "ok" ELSE "none")
    /\ UNCHANGED <<world, failures, procs, spawning, files, diagnostics>>

\* ManagedChild::stop: reap at once, or SIGTERM and wait the grace period.
StopChild(s) ==
    /\ sup[s].pc = "stopping"
    /\ IF ChildState(s) = "zombie"
         THEN Becomes(s, "reaped") /\ GoesWith(s, "dropping", "ok")
         ELSE Goes(s, "grace") /\ UNCHANGED procs
    /\ UNCHANGED <<world, failures, spawning, files, diagnostics>>

\* The child exits within the grace period, or is killed after it; both reap.
Grace(s) ==
    /\ sup[s].pc = "grace"
    /\ Becomes(s, "reaped") /\ GoesWith(s, "dropping", "ok")
    /\ UNCHANGED <<world, failures, spawning, files, diagnostics>>

\* A wait or a signal fails: lifecycle returns the error and drops the child.
OsCallFails(s) ==
    /\ sup[s].pc \in {"waited", "stopping", "grace"}
    /\ failures > 0 /\ failures' = failures - 1
    /\ GoesWith(s, "emergency", "io")
    /\ UNCHANGED <<world, procs, spawning, files, diagnostics>>

\* Mutant: a child whose wait failed is left to itself.
DropChildLeft(s) ==
    /\ sup[s].pc = "emergency"
    /\ Goes(s, "dropping")
    /\ UNCHANGED <<world, failures, procs, spawning, files, diagnostics>>

\* Drop for ManagedChild kills and reaps a child nobody reaped.
DropChild(s) ==
    /\ sup[s].pc = "emergency"
    /\ Becomes(s, "reaped") /\ Goes(s, "dropping")
    /\ UNCHANGED <<world, failures, spawning, files, diagnostics>>

\* Mutant: the write end is closed without the registry lock.
RegistryIgnored == TRUE

RegistryFree == spawner.phase = "idle"

\* Where the thread goes once its ManagedChild is gone.
AfterDrop(s) ==
    CASE sup[s].outcome = "none" -> "check"
      [] sup[s].outcome = "ok" -> "ended"
      [] OTHER -> "failed"

\* Drop for Writer closes the write end under the registry lock.
DropWriter(s) ==
    /\ sup[s].pc = "dropping" /\ RegistryFree
    /\ sup' = [sup EXCEPT ![s].writer = NoFd, ![s].pc = AfterDrop(s)]
    /\ registry' = registry \ {sup[s].writer}
    /\ fds' = [fds EXCEPT ![sup[s].writer] = "free"]
    /\ UNCHANGED <<world, failures, procs, spawning, diagnostics>>

\* The thread sends lifecycle's error as its last event.
SendFailure(s) ==
    /\ sup[s].pc = "failed"
    /\ sup' = [sup EXCEPT ![s].pc = "ended", ![s].report = "unread"]
    /\ UNCHANGED <<world, failures, procs, spawning, files, diagnostics>>

------------------------------------------------------------------------------
(* The spawner thread.                                                     *)

\* A new descriptor gets the lowest free number.
Lowest(f) == fds[f] = "free" /\ \A g \in Fds : fds[g] = "free" => f <= g

\* spawn_here locks the registry, opens the pipe and snapshots the write ends.
OpenPipe(f) ==
    /\ queue # <<>> /\ spawner.phase = "idle" /\ Lowest(f)
    /\ fds' = [fds EXCEPT ![f] = "writer"]
    /\ spawner' = [phase |-> "piped", fd |-> f,
                   snapshot |-> registry \cup {f}, table |-> <<>>]
    /\ UNCHANGED <<world, failures, sup, procs, registry, queue, diagnostics>>

\* The forked child has a copy of the descriptor table.
Fork ==
    /\ spawner.phase = "piped"
    /\ procs' = [procs EXCEPT ![Head(queue)] = Append(@, "forked")]
    /\ spawner' = [spawner EXCEPT !.phase = "forked", !.table = fds]
    /\ UNCHANGED <<world, failures, sup, files, queue, diagnostics>>

\* exec is confirmed: register the write end and deliver the ManagedChild.
Spawned ==
    LET s == Head(queue) IN
    /\ spawner.phase = "forked" /\ ChildState(s) \notin {"forked", "armed"}
    /\ registry' = registry \cup {spawner.fd}
    /\ sup' = [sup EXCEPT ![s].writer = spawner.fd, ![s].pc = "poll"]
    /\ spawner' = Idle /\ queue' = Tail(queue)
    /\ UNCHANGED <<world, failures, procs, fds, diagnostics>>

\* spawn_here returns an error: the lock is released with both ends closed, and
\* lifecycle returns it without a child.
SpawnRefused(s) ==
    /\ spawner' = Idle /\ queue' = Tail(queue)
    /\ GoesWith(s, "failed", "io")
    /\ UNCHANGED <<world, registry, diagnostics>>

\* No descriptor is left for the pipe.
PipeFails ==
    /\ queue # <<>> /\ spawner.phase = "idle"
    /\ \A f \in Fds : fds[f] # "free"
    /\ SpawnRefused(Head(queue))
    /\ UNCHANGED <<procs, fds, failures>>

\* pre_exec or exec fails; Command::spawn reaps the child.
ExecFails ==
    LET s == Head(queue) IN
    /\ spawner.phase = "forked" /\ ChildState(s) \in {"forked", "armed"}
    /\ failures > 0 /\ failures' = failures - 1
    /\ Becomes(s, "reaped")
    /\ fds' = [fds EXCEPT ![spawner.fd] = "free"]
    /\ SpawnRefused(s)

------------------------------------------------------------------------------
(* Children.                                                               *)

In(c, states) == procs[c[1]][c[2]] \in states
Moves(c, state) ==
    /\ procs' = [procs EXCEPT ![c[1]][c[2]] = state]
    /\ UNCHANGED <<world, failures, sup, spawning, files, diagnostics>>

\* pre_exec: close the snapshot, keep the reader, ask for the death signal.
PreExec(c) == In(c, {"forked"}) /\ Moves(c, "armed")

\* Mutant: nobody compares getppid() with the parent.
ParentGoneUnseen == FALSE

\* arm_parent_death's check of getppid().
ParentGone == platform = "linux" /\ parent = "dead"
Exec(c) == In(c, {"armed"}) /\ Moves(c, IF ParentGone THEN "zombie" ELSE "running")

\* The entrypoint calls watch_parent.
watch_parent(c) == In(c, {"running"}) /\ Moves(c, "watching")

\* Somebody holds the write ends of the parent's pipes: the parent, or a child
\* that was forked and has not closed its copies.
Held == parent = "up" \/ \E d \in Children : In(d, {"forked"})

\* The watcher reads the end of its pipe and runs the cleanup once ...
PipeEnds(c) == In(c, {"watching"}) /\ ~ Held /\ Moves(c, "cleaning")

\* ... which ends the process, after a bounded wait for a diagnostic if it failed.
Cleanup(c) ==
    \/ In(c, {"cleaning", "telling"}) /\ Moves(c, "zombie")
    \/ In(c, {"cleaning"}) /\ Moves(c, "telling")

\* A child exits by itself, by SIGTERM, or by any other signal.
ChildExits(c) == In(c, {"running", "watching"}) /\ Moves(c, "zombie")

------------------------------------------------------------------------------
(* The environment.                                                        *)

\* The application opens or closes a descriptor of its own.
AppFile(f) ==
    /\ Lowest(f) \/ fds[f] = "app"
    /\ fds' = [fds EXCEPT ![f] = IF @ = "free" THEN "app" ELSE "free"]
    /\ UNCHANGED <<world, failures, sup, procs, registry, spawning, diagnostics>>

Tick ==
    /\ now < MaxTime /\ now' = now + 1
    /\ UNCHANGED <<platform, parent, failures, sup, procs, spawning, files, diagnostics>>

\* On Linux a child that asked for it gets SIGKILL when its parent dies.
AfterDeath(os, state) ==
    IF os = "linux" /\ state \in (Living \ {"forked"}) THEN "zombie" ELSE state

\* The parent dies and takes its threads, memory and descriptors along; only
\* from here on does the operating system make a difference.
ParentDies(os) ==
    /\ parent' = "dead" /\ platform' = os
    /\ procs' = [s \in Supervisors |->
                    [i \in DOMAIN procs[s] |-> AfterDeath(os, procs[s][i])]]
    /\ sup' = [s \in Supervisors |-> Unstarted]
    /\ queue' = <<>> /\ spawner' = Idle /\ diagnostics' = 0
    /\ registry' = {} /\ fds' = [f \in Fds |-> "free"]
    /\ failures' = 0 /\ now' = 0

ThreadStep(s) ==
    \/ CheckStop(s) \/ Poll(s) \/ TryWait(s) \/ Exited(s) \/ Backoff(s)
    \/ StopChild(s) \/ Grace(s) \/ DropChild(s) \/ DropWriter(s) \/ SendFailure(s)
SpawnerStep == (\E f \in Fds : OpenPipe(f)) \/ PipeFails \/ Fork \/ Spawned
ChildStep(c) == PreExec(c) \/ Exec(c) \/ PipeEnds(c) \/ Cleanup(c)

ParentStep ==
    \/ \E s \in Supervisors :
          \/ Start(s) \/ next_event(s) \/ Leave(s, "stop") \/ Leave(s, "drop")
          \/ finish(s) \/ ThreadStep(s) \/ OsCallFails(s)
    \/ SpawnerStep \/ ExecFails \/ write_diagnostic
    \/ Tick \/ (\E os \in Platforms : ParentDies(os)) \/ (\E f \in Fds : AppFile(f))

SuperviseNext ==
    \/ parent = "up" /\ ParentStep
    \/ \E c \in Children : ChildStep(c) \/ watch_parent(c) \/ ChildExits(c)

SuperviseSpec == SuperviseInit /\ [][SuperviseNext]_superviseVars

\* The threads of a living parent and the kernel's work in a forked child go
\* on.  Nothing is assumed of the stderr writer, of exits, or of an entrypoint
\* on Linux; elsewhere a child is assumed to call watch_parent.
FairSupervise ==
    /\ SuperviseSpec
    /\ \A s \in Supervisors :
          /\ WF_superviseVars(parent = "up" /\ ThreadStep(s))
          /\ WF_superviseVars(parent = "up" /\ finish(s))
          /\ WF_superviseVars(\E c \in ChildrenOf(s) : ChildStep(c))
          /\ WF_superviseVars(platform = "other" /\ \E c \in ChildrenOf(s) : watch_parent(c))
    /\ WF_superviseVars(parent = "up" /\ SpawnerStep)

------------------------------------------------------------------------------
(* Properties.                                                             *)

Unreaped(s) == {i \in DOMAIN procs[s] : procs[s][i] # "reaped"}

\* A supervisor never has two children that are not reaped; once its thread is
\* over (a stop, a limit, a failed wait, a failed spawn) it has none; and no
\* stretch of crash_window_ms contains more restarted exits than max_restarts,
\* over the whole life of the supervisor.
OneChild ==
    \A s \in Supervisors :
        /\ parent = "up" =>
             /\ Cardinality(Unreaped(s)) <= 1
             /\ sup[s].pc \in {"off", "check", "failed", "ended"} => Unreaped(s) = {}
        /\ \A i, j \in DOMAIN sup[s].restarted :
             (i <= j /\ sup[s].restarted[j] - sup[s].restarted[i] < CrashWindow)
                => j - i + 1 <= MaxRestarts[s]

\* The write end of a child's pipe stays open until that child is reaped, so
\* no child of a living parent takes it for dead; and what a forked child
\* closes before exec are the write ends of parent pipes, all of them and
\* nothing else: never a descriptor the application opened under a number
\* recycled from a supervisor that stopped meanwhile.
PipesKept ==
    /\ parent = "up" => \A s \in Supervisors :
        LET held == IF sup[s].pc = "spawning" THEN spawner.fd ELSE sup[s].writer
        IN  Unreaped(s) # {} => (held \in Fds /\ fds[held] = "writer")
    /\ spawner.phase = "forked" =>
        spawner.snapshot = {f \in Fds : spawner.table[f] = "writer"}

\* What becomes of a lifecycle failure by the time stop() or drop returns, also
\* when it raced the stop request: the caller had it from next_event, or has it
\* from stop(), or drop made its best-effort diagnostic of it, which only a full
\* queue discards.  None is left in the channel, and a clean end reports none.
FailureReported ==
    \A s \in Supervisors : sup[s].handle = "returned" =>
        IF sup[s].outcome = "ok" THEN sup[s].report = "none"
        ELSE sup[s].report \in {"read", "stop", "drop", "discarded"}

\* stop() and drop return, whatever the child, the other supervisors and the
\* stderr writer do; and a lifecycle failure has then been handed over: to the
\* caller, or by drop to its best-effort diagnostic.
StopReturns ==
    /\ \A s \in Supervisors :
         (sup[s].handle \in {"stop", "drop"})
            ~> (sup[s].handle = "returned" \/ parent = "dead")
    /\ []FailureReported

\* When the parent dies no child outlives it: on Linux by the death signal or
\* the check after arming it, elsewhere through the end of its pipe.
OrphansEnd ==
    (parent = "dead") ~> (\A c \in Children : ~ In(c, Living))
==============================================================================
