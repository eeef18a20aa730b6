---------------------------- MODULE ProcessProofs ----------------------------
(***************************************************************************)
(* Processes that own something, for any number of them: the instances of  *)
(* the credential process and what they lock, and the supervisors of child *)
(* processes and the descriptors they hold.                                *)
(*                                                                         *)
(* First the credential server.  What one credential process owns no other *)
(* uses, for any number of instances, state directories and connections.   *)
(* The invariant follows the references: the state lock stays while the    *)
(* Inner or the runner refers to it, a connection under way keeps the      *)
(* Inner alive, the bind lock covers probe, removal and bind, and the lock *)
(* of job_runners covers the start of a runner.                            *)
(*                                                                         *)
(* Then supervision: children, pipes, failures and restarts (below).       *)
(***************************************************************************)
EXTENDS CredentialServer, Supervise, SequenceTheorems, FiniteSetTheorems,
        WellFoundedInduction, TLAPS

BindPhases == {"probing", "removing", "binding"}
\* The records of an instance and of a connection.
InstanceState ==
    [phase : {"off", "open", "acquiring", "accepting", "left", "crashed"} \cup BindPhases,
     slots : Nat, inner : {"none", "alive", "released", "dropped"},
     task : {"none", "running", "using", "failing", "released", "ended"},
     worker : {"none", "waiting", "sweeping", "exited"},
     holders : SUBSET {"inner", "runner", "worker"}, joiner : {"none", "inner", "runner"},
     refs : SUBSET {"inner", "runner"}, runner : {"absent", "running", "refused"},
     gate : Conns \cup {Nobody}, stop : BOOLEAN, starts : Nat]
Request == {"reading", "running", "status", "starting", "attaching", "answering", "failed"}
Connection ==
    [at : {"off", "queued", "closed"} \cup Request, to : Instances \cup {Nobody},
     op : {"none", "enqueue", "completions"}]

ServerTypeOK ==
    /\ dir \in [Instances -> StateDirs] /\ inst \in [Instances -> InstanceState]
    /\ conn \in [Conns -> Connection] /\ socket \in Instances \cup {Absent, Stale}
    /\ bindlock \in Instances \cup {Nobody} /\ lock \in [StateDirs -> Instances \cup {Nobody}]
    /\ job \in [StateDirs -> {"none", "pending", "done"}]
    /\ acked \in [StateDirs -> Instances \cup {Absent}] /\ troubles \in Nat

\* One instance: who refers to the process lock, and that it then holds it;
\* how often it started a runner.
Owned(i) ==
    /\ inst[i].phase = "off" => inst[i] = Off
    /\ inst[i].phase \notin {"off", "left", "crashed"} => inst[i].inner = "alive"
    /\ inst[i].inner \in {"alive", "released"} => "inner" \in inst[i].refs
    /\ inst[i].task \in {"running", "using", "failing", "released"} => "runner" \in inst[i].refs
    /\ inst[i].refs # {} => lock[dir[i]] = i
    /\ inst[i].starts <= 1
    /\ inst[i].runner = "absent" => inst[i].starts = 0

\* The socket: whoever probes or binds holds the bind lock, nobody listens
\* while a socket is removed, and who listens owns the path.
BindInv ==
    /\ \A i \in Instances : inst[i].phase \in BindPhases => bindlock = i
    /\ \A i, j \in Instances : inst[i].phase = "removing" => ~Listening(j)
    /\ \A i \in Instances : Listening(i) => socket = i

\* One connection: a request under way keeps its instance's Inner alive, and
\* one that starts a runner holds the lock of job_runners and found none.
Connected(c) ==
    /\ conn[c].at \notin {"off", "closed"} => conn[c].to \in Instances
    /\ conn[c].at \in Request => inst[conn[c].to].inner = "alive"
    /\ conn[c].at = "attaching" => /\ inst[conn[c].to].gate = c
                                   /\ inst[conn[c].to].runner = "absent"

\* The inductive invariant.
ServerInv ==
    /\ ServerTypeOK /\ BindInv
    /\ \A i \in Instances : Owned(i)
    /\ \A c \in Conns : Connected(c)

------------------------------------------------------------------------------
(* What a step leaves alone.                                               *)

\* The step turns instance i into n and frees no lock that another holds.
Turns(i, n) ==
    /\ n \in InstanceState /\ inst'[i] = n
    /\ inst' \in [Instances -> InstanceState]
    /\ \A j \in Instances : j # i => inst'[j] = inst[j]

\* How the code writes a new state of one instance.
LEMMA TurnsBy ==
    ASSUME ServerTypeOK, NEW i \in Instances, NEW n \in InstanceState, inst' = [inst EXCEPT ![i] = n]
    PROVE  Turns(i, n)
BY DEF ServerTypeOK, Turns

\* The other instances keep what they own.
LEMMA OthersOwned ==
    ASSUME ServerInv, NEW i \in Instances, NEW n, Turns(i, n), dir' = dir,
           \A d \in StateDirs : lock[d] # i => lock'[d] = lock[d] \/ lock[d] = Nobody
    PROVE  \A j \in Instances : j # i => Owned(j)'
<1>1. SUFFICES ASSUME NEW j \in Instances, j # i PROVE Owned(j)'
  OBVIOUS
<1>2. inst'[j] = inst[j] /\ Owned(j) /\ dir[j] \in StateDirs /\ j # Nobody
  BY <1>1, ServerAssumption DEF Turns, ServerInv, ServerTypeOK
<1>3. inst[j].refs # {} => lock'[dir[j]] = j
  BY <1>1, <1>2 DEF Owned
<1> QED BY <1>2, <1>3 DEF Owned

\* The step neither binds nor listens anew.
LEMMA BindKept ==
    ASSUME ServerInv, socket' = socket,
           \A j \in Instances :
              /\ inst'[j].phase \in {"acquiring", "accepting"} => inst[j].phase \in {"acquiring", "accepting"}
              /\ inst'[j].phase \in BindPhases => /\ inst[j].phase = inst'[j].phase
                                                  /\ bindlock = j => bindlock' = j
    PROVE  BindInv'
BY DEF ServerInv, BindInv, Listening, BindPhases

\* A connection that the step leaves alone, while its instance keeps the
\* Inner, or that it closes.
LEMMA ConnKept ==
    ASSUME ServerInv, NEW c \in Conns,
           \/ conn'[c].at \in {"off", "closed"}
           \/ /\ conn'[c] = conn[c]
              /\ conn[c].at \in Request =>
                    /\ inst'[conn[c].to].inner = inst[conn[c].to].inner
                    /\ conn[c].at = "attaching" => /\ inst'[conn[c].to].gate = inst[conn[c].to].gate
                                                   /\ inst'[conn[c].to].runner = inst[conn[c].to].runner
    PROVE  Connected(c)'
BY DEF ServerInv, Connected, Request

\* The same for all connections when one instance moves on.
LEMMA ConnsKept ==
    ASSUME ServerInv, NEW i \in Instances, NEW n, Turns(i, n), conn' = conn,
           \/ n.inner = inst[i].inner
           \/ \A c \in Conns : conn[c].to = i => conn[c].at \notin Request,
           n.gate = inst[i].gate, n.runner = inst[i].runner
    PROVE  \A c \in Conns : Connected(c)'
<1>1. SUFFICES ASSUME NEW c \in Conns PROVE Connected(c)'
  OBVIOUS
<1>2. conn[c].at \in Request => conn[c].to \in Instances
  BY DEF ServerInv, Connected, Request
<1>3. conn'[c] = conn[c]
  OBVIOUS
<1>4. conn[c].at \in Request =>
        /\ inst'[conn[c].to].inner = inst[conn[c].to].inner
        /\ inst'[conn[c].to].gate = inst[conn[c].to].gate
        /\ inst'[conn[c].to].runner = inst[conn[c].to].runner
  BY <1>2 DEF Turns
<1> QED BY <1>3, <1>4, ConnKept

\* Together: one instance moves on without binding anything.
LEMMA InstanceMoves ==
    ASSUME ServerInv, NEW i \in Instances, NEW n, Turns(i, n),
           UNCHANGED <<dir, conn, socket, bindlock>>,
           lock' \in [StateDirs -> Instances \cup {Nobody}],
           job' \in [StateDirs -> {"none", "pending", "done"}], acked' = acked, troubles' \in Nat,
           \A d \in StateDirs : lock[d] # i => lock'[d] = lock[d] \/ lock[d] = Nobody,
           \/ n.phase = inst[i].phase
           \/ n.phase \notin BindPhases /\ (n.phase \in {"acquiring", "accepting"} =>
                                               inst[i].phase \in {"acquiring", "accepting"}),
           \/ n.inner = inst[i].inner
           \/ \A c \in Conns : conn[c].to = i => conn[c].at \notin Request,
           n.gate = inst[i].gate, n.runner = inst[i].runner, Owned(i)'
    PROVE  ServerInv'
<1>1. \A j \in Instances : Owned(j)'
  BY OthersOwned
<1>2. \A c \in Conns : Connected(c)'
  BY ConnsKept
<1>3. BindInv'
  <2>1. \A j \in Instances :
           /\ inst'[j].phase \in {"acquiring", "accepting"} => inst[j].phase \in {"acquiring", "accepting"}
           /\ inst'[j].phase \in BindPhases => inst[j].phase = inst'[j].phase
    BY DEF Turns
  <2> QED BY <2>1, BindKept
<1>4. ServerTypeOK'
  BY DEF ServerInv, ServerTypeOK, Turns
<1> QED BY <1>1, <1>2, <1>3, <1>4 DEF ServerInv

------------------------------------------------------------------------------
(* Steps of one instance.                                                  *)

\* The facts every such step starts from.
LEMMA InstanceFacts ==
    ASSUME ServerInv, NEW i \in Instances
    PROVE  /\ ServerTypeOK /\ Owned(i) /\ inst[i] \in InstanceState
           /\ dir[i] \in StateDirs /\ i # Nobody /\ i \in Nat /\ i # 0
           /\ lock[dir[i]] \in Instances \cup {Nobody}
BY ServerAssumption DEF ServerInv, ServerTypeOK

\* Opening takes the state lock that nobody holds.
LEMMA OpenInv == ASSUME ServerInv, NEW i \in Instances, Open(i) PROVE ServerInv'
<1> DEFINE n == [inst[i] EXCEPT !.phase = "open", !.inner = "alive", !.worker = "waiting",
                                !.holders = {"inner"}, !.refs = {"inner"}, !.slots = MaxConnections[i]]
<1>1. ServerTypeOK /\ Owned(i) /\ inst[i] \in InstanceState /\ dir[i] \in StateDirs /\ MaxConnections[i] \in Nat
  BY InstanceFacts, ServerAssumption
<1>2. /\ inst' = [inst EXCEPT ![i] = n] /\ lock' = [lock EXCEPT ![dir[i]] = i]
      /\ inst[i] = Off /\ lock[dir[i]] = Nobody
      /\ UNCHANGED <<dir, conn, socket, bindlock, job, acked, troubles>>
  BY <1>1 DEF Open, Owned, ServerTypeOK
<1>3. n \in InstanceState
  BY <1>1 DEF InstanceState
<1>4. /\ n.phase = "open" /\ n.inner = "alive" /\ n.refs = {"inner"} /\ n.gate = inst[i].gate
      /\ n.runner = inst[i].runner /\ n.task = "none" /\ n.starts = 0 /\ n.runner = "absent"
  BY <1>1, <1>2 DEF InstanceState, Off
<1> HIDE DEF n
<1>5. Turns(i, n)
  BY <1>1, <1>2, <1>3, TurnsBy
<1>6. /\ lock' \in [StateDirs -> Instances \cup {Nobody}] /\ lock'[dir[i]] = i
      /\ \A d \in StateDirs : lock'[d] = lock[d] \/ lock[d] = Nobody
  BY <1>1, <1>2 DEF ServerTypeOK
<1>7. Owned(i)'
  BY <1>2, <1>4, <1>5, <1>6 DEF Owned, Turns
<1>8. \A c \in Conns : conn[c].to = i => conn[c].at \notin Request
  BY <1>2 DEF ServerInv, Connected, Off
<1>9. n.phase \notin BindPhases /\ n.phase \notin {"acquiring", "accepting"}
  BY <1>4 DEF BindPhases
<1>10. /\ UNCHANGED <<dir, conn, socket, bindlock>> /\ acked' = acked /\ troubles' \in Nat
       /\ job' \in [StateDirs -> {"none", "pending", "done"}]
  BY <1>1, <1>2 DEF ServerTypeOK
<1> QED BY <1>4, <1>5, <1>6, <1>7, <1>8, <1>9, <1>10, InstanceMoves

\* Acquiring a slot.
LEMMA AcquireInv == ASSUME ServerInv, NEW i \in Instances, Acquire(i) PROVE ServerInv'
<1> DEFINE n == [inst[i] EXCEPT !.phase = "accepting", !.slots = @ - 1]
<1>1. ServerTypeOK /\ Owned(i) /\ inst[i] \in InstanceState /\ inst[i].phase = "acquiring" /\ inst[i].slots > 0
  BY InstanceFacts DEF Acquire
<1>2. inst' = [inst EXCEPT ![i] = n] /\ UNCHANGED <<dir, conn, socket, bindlock, lock, job, acked, troubles>>
  BY <1>1 DEF Acquire, ServerTypeOK
<1>3. n \in InstanceState
  <2>1. inst[i].slots - 1 \in Nat
    BY <1>1 DEF InstanceState
  <2>2. [inst[i] EXCEPT !.phase = "accepting", !.slots = inst[i].slots - 1] \in InstanceState
    BY <1>1, <2>1 DEF InstanceState
  <2> QED BY <2>2
<1>4. /\ n.phase = "accepting" /\ n.inner = inst[i].inner /\ n.refs = inst[i].refs /\ n.gate = inst[i].gate
      /\ n.runner = inst[i].runner /\ n.task = inst[i].task /\ n.starts = inst[i].starts
  BY <1>1 DEF InstanceState
<1> HIDE DEF n
<1>5. Turns(i, n)
  BY <1>1, <1>2, <1>3, TurnsBy
<1>6. Owned(i)'
  BY <1>1, <1>2, <1>4, <1>5 DEF Owned, Turns
<1>7. n.phase \notin BindPhases
  BY <1>4 DEF BindPhases
<1> QED BY <1>1, <1>2, <1>4, <1>5, <1>6, <1>7, InstanceMoves DEF ServerTypeOK

\* Steps of the runner's task and of the maintenance thread that change
\* neither the entry of job_runners nor what refers to the state lock.
LEMMA QuietInv ==
    ASSUME ServerInv, NEW i \in Instances, NEW n \in InstanceState, inst' = [inst EXCEPT ![i] = n],
           UNCHANGED <<dir, conn, socket, bindlock, lock, acked>>,
           job' \in [StateDirs -> {"none", "pending", "done"}], troubles' \in Nat,
           inst[i] # Off,
           n.phase = inst[i].phase, n.inner = inst[i].inner, n.refs = inst[i].refs, n.gate = inst[i].gate,
           n.runner = inst[i].runner, n.starts = inst[i].starts,
           n.task \in {"running", "using", "failing", "released"} =>
              inst[i].task \in {"running", "using", "failing", "released"}
    PROVE  ServerInv'
<1>1. ServerTypeOK /\ Owned(i)
  BY InstanceFacts
<1>2. Turns(i, n)
  BY <1>1, TurnsBy
<1>3. Owned(i)'
  BY <1>1, <1>2 DEF Owned, Turns
<1> QED BY <1>1, <1>2, <1>3, InstanceMoves DEF ServerTypeOK

\* The runner works, fails and lets its runtime go; the worker sweeps.
LEMMA TasksInv ==
    ASSUME ServerInv, NEW i \in Instances,
           \/ UseInner(i) \/ RunJob(i) \/ RunnerFails(i) \/ ReleaseRunner(i)
           \/ WakeWorker(i) \/ EndSweep(i)
    PROVE  ServerInv'
<1>1. ServerTypeOK /\ inst[i] \in InstanceState /\ dir[i] \in StateDirs
  BY InstanceFacts
<1>2. CASE UseInner(i) \/ RunJob(i) \/ RunnerFails(i)
  <2>1. PICK to \in {"running", "using", "failing"} : inst' = [inst EXCEPT ![i].task = to]
    BY <1>2 DEF UseInner, RunJob, RunnerFails
  <2>2. inst[i].task \in {"running", "using"} /\ inst[i] # Off
    BY <1>2 DEF UseInner, RunJob, RunnerFails, Off
  <2> DEFINE n == [inst[i] EXCEPT !.task = to]
  <2>3. n \in InstanceState
    BY <1>1, <2>1 DEF InstanceState
  <2>4. /\ n.phase = inst[i].phase /\ n.inner = inst[i].inner /\ n.refs = inst[i].refs /\ n.gate = inst[i].gate
        /\ n.runner = inst[i].runner /\ n.starts = inst[i].starts
    BY <1>1 DEF InstanceState
  <2>5. inst' = [inst EXCEPT ![i] = n]
    BY <1>1, <2>1 DEF ServerTypeOK
  <2>6. /\ UNCHANGED <<dir, conn, socket, bindlock, lock, acked>>
        /\ job' \in [StateDirs -> {"none", "pending", "done"}] /\ troubles' \in Nat
    BY <1>1, <1>2 DEF UseInner, RunJob, RunnerFails, Trouble, ServerTypeOK
  <2> HIDE DEF n
  <2> QED BY <2>2, <2>3, <2>4, <2>5, <2>6, QuietInv
<1>3. CASE ReleaseRunner(i)
  <2> DEFINE n == [inst[i] EXCEPT !.task = "released", !.holders = @ \ {"runner"}, !.joiner = Joiner(i, "runner")]
  <2>0. inst[i].task \in {"failing", "running"} /\ inst[i] # Off
    BY <1>3 DEF ReleaseRunner, Off
  <2>1. inst' = [inst EXCEPT ![i] = n]
    BY <1>1, <1>3 DEF ReleaseRunner, ServerTypeOK
  <2>2. n \in InstanceState
    <3>1. Joiner(i, "runner") \in {"none", "inner", "runner"}
      BY <1>1 DEF Joiner, InstanceState
    <3> QED BY <1>1, <3>1 DEF InstanceState
  <2>3. /\ n.phase = inst[i].phase /\ n.inner = inst[i].inner /\ n.refs = inst[i].refs /\ n.gate = inst[i].gate
        /\ n.runner = inst[i].runner /\ n.starts = inst[i].starts
    BY <1>1 DEF InstanceState
  <2> HIDE DEF n
  <2> QED BY <1>1, <1>3, <2>0, <2>1, <2>2, <2>3, QuietInv DEF ReleaseRunner, ServerTypeOK
<1>4. CASE WakeWorker(i) \/ EndSweep(i)
  <2>1. PICK to \in {"waiting", "sweeping", "exited"}, h \in SUBSET {"inner", "runner", "worker"} :
           inst' = [inst EXCEPT ![i].worker = to, ![i].holders = h]
    <3>1. inst[i].holders \subseteq {"inner", "runner", "worker"}
      BY <1>1 DEF InstanceState
    <3>2. CASE WakeWorker(i)
      <4> DEFINE to == IF inst[i].holders = {} THEN "exited" ELSE "sweeping"
                 h == IF inst[i].holders = {} THEN {} ELSE inst[i].holders \cup {"worker"}
      <4>1. inst' = [inst EXCEPT ![i].worker = to, ![i].holders = h]
        BY <1>1, <3>2 DEF WakeWorker, ServerTypeOK, InstanceState
      <4>2. to \in {"waiting", "sweeping", "exited"} /\ h \in SUBSET {"inner", "runner", "worker"}
        BY <3>1
      <4> QED BY <4>1, <4>2
    <3>3. CASE EndSweep(i)
      <4>1. inst' = [inst EXCEPT ![i].worker = "waiting", ![i].holders = inst[i].holders \ {"worker"}]
        BY <1>1, <3>3 DEF EndSweep, AfterSweep, ServerTypeOK, InstanceState
      <4> QED BY <3>1, <4>1
    <3> QED BY <1>4, <3>2, <3>3
  <2> DEFINE n == [inst[i] EXCEPT !.worker = to, !.holders = h]
  <2>0. inst[i] # Off
    BY <1>4 DEF WakeWorker, EndSweep, Off
  <2>2. inst' = [inst EXCEPT ![i] = n]
    BY <1>1, <2>1 DEF ServerTypeOK
  <2>3. n \in InstanceState
    BY <1>1, <2>1 DEF InstanceState
  <2>4. /\ n.phase = inst[i].phase /\ n.inner = inst[i].inner /\ n.refs = inst[i].refs /\ n.gate = inst[i].gate
        /\ n.runner = inst[i].runner /\ n.starts = inst[i].starts /\ n.task = inst[i].task
    BY <1>1 DEF InstanceState
  <2>5. UNCHANGED <<dir, conn, socket, bindlock, lock, acked, job, troubles>>
    BY <1>4 DEF WakeWorker, EndSweep
  <2> HIDE DEF n
  <2> QED BY <1>1, <2>0, <2>2, <2>3, <2>4, <2>5, QuietInv DEF ServerTypeOK
<1> QED BY <1>2, <1>3, <1>4

\* The last reference to the process lock frees it, and only its own.
LEMMA LockFreed ==
    ASSUME ServerInv, NEW i \in Instances, NEW who \in {"inner", "runner"}, who \in inst[i].refs,
           lock' = LockAfter(i, who)
    PROVE  /\ lock' \in [StateDirs -> Instances \cup {Nobody}]
           /\ \A d \in StateDirs : lock[d] # i => lock'[d] = lock[d]
           /\ inst[i].refs \ {who} # {} => lock'[dir[i]] = i
<1>1. ServerTypeOK /\ Owned(i) /\ dir[i] \in StateDirs /\ inst[i].refs \subseteq {"inner", "runner"}
  BY InstanceFacts DEF InstanceState
<1>2. lock[dir[i]] = i
  BY <1>1 DEF Owned
<1>3. CASE inst[i].refs = {who}
  BY <1>1, <1>2, <1>3 DEF LockAfter, ServerTypeOK
<1>4. CASE inst[i].refs # {who}
  BY <1>1, <1>2, <1>4 DEF LockAfter, ServerTypeOK
<1> QED BY <1>3, <1>4

\* The Inner is released by the last of its users, and dropped.
LEMMA InnerGoes ==
    ASSUME ServerInv, NEW i \in Instances, ReleaseInner(i) \/ DropInner(i) PROVE ServerInv'
<1>1. ServerTypeOK /\ Owned(i) /\ inst[i] \in InstanceState /\ dir[i] \in StateDirs
  BY InstanceFacts
<1>2. CASE ReleaseInner(i)
  <2> DEFINE n == [inst[i] EXCEPT !.inner = "released", !.holders = @ \ {"inner"}, !.joiner = Joiner(i, "inner")]
  <2>1. inst' = [inst EXCEPT ![i] = n]
    BY <1>1, <1>2 DEF ReleaseInner, ServerTypeOK
  <2>2. /\ inst[i].inner = "alive" /\ ~Unreleased(i)
        /\ UNCHANGED <<dir, conn, socket, bindlock, lock, job, acked, troubles>>
    BY <1>2 DEF ReleaseInner
  <2>3. n \in InstanceState
    <3>1. Joiner(i, "inner") \in {"none", "inner", "runner"}
      BY <1>1 DEF Joiner, InstanceState
    <3> QED BY <1>1, <3>1 DEF InstanceState
  <2>4. /\ n.phase = inst[i].phase /\ n.inner = "released" /\ n.refs = inst[i].refs /\ n.gate = inst[i].gate
        /\ n.runner = inst[i].runner /\ n.task = inst[i].task /\ n.starts = inst[i].starts
    BY <1>1 DEF InstanceState
  <2> HIDE DEF n
  <2>5. Turns(i, n)
    BY <1>1, <2>1, <2>3, TurnsBy
  <2>6. /\ inst[i].phase \in {"left", "crashed"}
        /\ \A c \in Conns : conn[c].to = i => conn[c].at \notin Request
    BY <1>1, <2>2 DEF Unreleased, Request, Owned, Off
  <2>7. Owned(i)'
    BY <1>1, <2>2, <2>4, <2>5, <2>6 DEF Owned, Turns
  <2> QED BY <1>1, <2>2, <2>4, <2>5, <2>6, <2>7, InstanceMoves DEF ServerTypeOK
<1>3. CASE DropInner(i)
  <2> DEFINE n == [inst[i] EXCEPT !.inner = "dropped", !.stop = TRUE, !.refs = @ \ {"inner"}]
  <2>1. inst' = [inst EXCEPT ![i] = n]
    BY <1>1, <1>3 DEF DropInner, ServerTypeOK
  <2>2. /\ inst[i].inner = "released" /\ lock' = LockAfter(i, "inner")
        /\ UNCHANGED <<dir, conn, socket, bindlock, job, acked, troubles>>
    BY <1>3 DEF DropInner
  <2>3. n \in InstanceState
    BY <1>1 DEF InstanceState
  <2>4. /\ n.phase = inst[i].phase /\ n.inner = "dropped" /\ n.refs = inst[i].refs \ {"inner"}
        /\ n.gate = inst[i].gate /\ n.runner = inst[i].runner /\ n.task = inst[i].task
        /\ n.starts = inst[i].starts
    BY <1>1 DEF InstanceState
  <2> HIDE DEF n
  <2>5. Turns(i, n)
    BY <1>1, <2>1, <2>3, TurnsBy
  <2>6. /\ lock' \in [StateDirs -> Instances \cup {Nobody}]
        /\ \A d \in StateDirs : lock[d] # i => lock'[d] = lock[d]
        /\ inst[i].refs \ {"inner"} # {} => lock'[dir[i]] = i
    BY <1>1, <2>2, LockFreed DEF Owned
  <2>7. /\ inst[i].phase \in {"left", "crashed"}
        /\ \A c \in Conns : conn[c].to = i => conn[c].at \notin Request
    BY <1>1, <2>2 DEF ServerInv, Connected, Owned, Off
  <2>8. Owned(i)'
    BY <1>1, <2>2, <2>4, <2>5, <2>6, <2>7 DEF Owned, Turns
  <2> QED BY <1>1, <2>2, <2>4, <2>5, <2>6, <2>7, <2>8, InstanceMoves DEF ServerTypeOK
<1> QED BY <1>2, <1>3

\* The runner's task ends with its reference to the process lock.
LEMMA EndRunnerInv == ASSUME ServerInv, NEW i \in Instances, EndRunner(i) PROVE ServerInv'
<1>1. ServerTypeOK /\ Owned(i) /\ inst[i] \in InstanceState /\ dir[i] \in StateDirs
  BY InstanceFacts
<1> DEFINE n == [inst[i] EXCEPT !.task = "ended", !.refs = @ \ {"runner"}]
<1>2. inst' = [inst EXCEPT ![i] = n]
  BY <1>1 DEF EndRunner, ServerTypeOK
<1>3. /\ inst[i].task = "released" /\ lock' = LockAfter(i, "runner")
      /\ UNCHANGED <<dir, conn, socket, bindlock, job, acked, troubles>>
  BY DEF EndRunner
<1>4. n \in InstanceState
  BY <1>1 DEF InstanceState
<1>5. /\ n.phase = inst[i].phase /\ n.inner = inst[i].inner /\ n.refs = inst[i].refs \ {"runner"}
      /\ n.gate = inst[i].gate /\ n.runner = inst[i].runner /\ n.task = "ended"
      /\ n.starts = inst[i].starts
  BY <1>1 DEF InstanceState
<1> HIDE DEF n
<1>6. Turns(i, n)
  BY <1>1, <1>2, <1>4, TurnsBy
<1>7. /\ lock' \in [StateDirs -> Instances \cup {Nobody}]
      /\ \A d \in StateDirs : lock[d] # i => lock'[d] = lock[d]
      /\ inst[i].refs \ {"runner"} # {} => lock'[dir[i]] = i
  BY <1>1, <1>3, LockFreed DEF Owned
<1>8. inst[i].phase # "off"
  BY <1>1, <1>3 DEF Owned, Off
<1>9. Owned(i)'
  BY <1>1, <1>3, <1>5, <1>6, <1>7, <1>8 DEF Owned, Turns
<1> QED BY <1>1, <1>3, <1>5, <1>6, <1>7, <1>9, InstanceMoves DEF ServerTypeOK

------------------------------------------------------------------------------
(* Binding: only the phase of the binder changes, the lock and the socket. *)

\* What such a step keeps whatever it does to lock and socket.
LEMMA PhaseMoves ==
    ASSUME ServerInv, NEW i \in Instances, NEW to \in {"acquiring", "left"} \cup BindPhases,
           inst' = [inst EXCEPT ![i].phase = to], inst[i].phase \in {"open"} \cup BindPhases,
           UNCHANGED <<dir, conn, lock, job, acked, troubles>>,
           socket' \in Instances \cup {Absent, Stale}, bindlock' \in Instances \cup {Nobody}
    PROVE  /\ ServerTypeOK' /\ \A j \in Instances : Owned(j)'
           /\ \A c \in Conns : Connected(c)'
           /\ inst'[i].phase = to /\ \A j \in Instances : j # i => inst'[j] = inst[j]
<1>1. ServerTypeOK /\ Owned(i) /\ inst[i] \in InstanceState
  BY InstanceFacts
<1> DEFINE n == [inst[i] EXCEPT !.phase = to]
<1>2. inst' = [inst EXCEPT ![i] = n]
  BY <1>1 DEF ServerTypeOK
<1>3. n \in InstanceState
  BY <1>1 DEF InstanceState
<1>4. /\ n.phase = to /\ n.inner = inst[i].inner /\ n.refs = inst[i].refs /\ n.gate = inst[i].gate
      /\ n.runner = inst[i].runner /\ n.task = inst[i].task /\ n.starts = inst[i].starts
  BY <1>1 DEF InstanceState
<1> HIDE DEF n
<1>5. Turns(i, n)
  BY <1>1, <1>2, <1>3, TurnsBy
<1>6. inst[i].inner = "alive" /\ to # "off"
  BY <1>1 DEF Owned, BindPhases
<1>7. Owned(i)'
  BY <1>1, <1>4, <1>5, <1>6 DEF Owned, Turns
<1>8. \A j \in Instances : Owned(j)'
  BY <1>5, <1>7, OthersOwned
<1>9. \A c \in Conns : Connected(c)'
  BY <1>4, <1>5, ConnsKept
<1>10. ServerTypeOK'
  BY <1>1, <1>5 DEF ServerTypeOK, Turns
<1> QED BY <1>4, <1>5, <1>8, <1>9, <1>10 DEF Turns

\* Lock, probe, remove and bind: a live listener keeps its path.
LEMMA BindingInv ==
    ASSUME ServerInv, NEW i \in Instances, LockBind(i) \/ Probe(i) \/ RemoveSocket(i) \/ Bind(i)
    PROVE  ServerInv'
<1>1. /\ ServerTypeOK /\ BindInv /\ i # Nobody /\ i \in Nat /\ i # 0
      /\ socket \in Instances \cup {Absent, Stale} /\ bindlock \in Instances \cup {Nobody}
  BY InstanceFacts DEF ServerInv, ServerTypeOK
<1>2. PICK to \in {"acquiring", "left"} \cup BindPhases : inst' = [inst EXCEPT ![i].phase = to]
  BY DEF LockBind, Probe, RemoveSocket, Bind, Unbound, BindPhases
<1>3. /\ inst[i].phase \in {"open"} \cup BindPhases /\ UNCHANGED <<dir, conn, lock, job, acked, troubles>>
      /\ socket' \in Instances \cup {Absent, Stale} /\ bindlock' \in Instances \cup {Nobody}
  BY <1>1 DEF LockBind, Probe, RemoveSocket, Bind, Unbound, BindPhases
<1>4. /\ ServerTypeOK' /\ \A j \in Instances : Owned(j)'
      /\ \A c \in Conns : Connected(c)'
      /\ inst'[i].phase = to /\ \A j \in Instances : j # i => inst'[j] = inst[j]
  BY <1>2, <1>3, PhaseMoves
<1>5. inst[i].phase \in BindPhases => \A j \in Instances : j # i => inst[j].phase \notin BindPhases
  BY <1>1 DEF BindInv
<1>6. CASE LockBind(i)
  <2>1. inst[i].phase = "open" /\ bindlock = Nobody /\ bindlock' = i /\ socket' = socket
        /\ inst' = [inst EXCEPT ![i].phase = "probing"]
    BY <1>6 DEF LockBind, BindFree
  <2>2. inst'[i].phase = "probing"
    BY <1>1, <2>1 DEF ServerTypeOK, InstanceState
  <2>3. \A j \in Instances : inst[j].phase \notin BindPhases
    BY <1>1, <2>1, ServerAssumption DEF BindInv
  <2>4. BindInv'
    BY <1>1, <1>4, <2>1, <2>2, <2>3 DEF BindInv, Listening, BindPhases
  <2> QED BY <1>4, <2>4 DEF ServerInv
<1>7. CASE Probe(i)
  <2>1. inst[i].phase = "probing" /\ socket' = socket
    BY <1>7 DEF Probe
  <2>2. CASE socket \in Instances /\ Listening(socket)
    <3>1. inst' = [inst EXCEPT ![i].phase = "left"] /\ bindlock' = Nobody
      BY <1>7, <2>2 DEF Probe, Unbound
    <3>2. inst'[i].phase = "left"
      BY <1>1, <3>1 DEF ServerTypeOK, InstanceState
    <3>3. BindInv'
      BY <1>1, <1>4, <1>5, <2>1, <3>1, <3>2 DEF BindInv, Listening, BindPhases
    <3> QED BY <1>4, <3>3 DEF ServerInv
  <2>3. CASE ~(socket \in Instances /\ Listening(socket))
    <3>1. inst' = [inst EXCEPT ![i].phase = IF socket = Absent THEN "binding" ELSE "removing"] /\ bindlock' = bindlock
      BY <1>7, <2>3 DEF Probe, Unbound
    <3>2. inst'[i].phase \in {"binding", "removing"}
      BY <1>1, <3>1 DEF ServerTypeOK, InstanceState
    <3>3. \A j \in Instances : ~Listening(j)
      BY <1>1, <2>3 DEF BindInv
    <3>4. BindInv'
      BY <1>1, <1>4, <1>5, <2>1, <3>1, <3>2, <3>3 DEF BindInv, Listening, BindPhases
    <3> QED BY <1>4, <3>4 DEF ServerInv
  <2> QED BY <2>2, <2>3
<1>8. CASE RemoveSocket(i)
  <2>1. inst[i].phase = "removing" /\ bindlock' = bindlock /\ inst' = [inst EXCEPT ![i].phase = "binding"]
    BY <1>8 DEF RemoveSocket, Unbound
  <2>2. inst'[i].phase = "binding"
    BY <1>1, <2>1 DEF ServerTypeOK, InstanceState
  <2>3. \A j \in Instances : ~Listening(j)
    BY <1>1, <2>1 DEF BindInv
  <2>4. BindInv'
    BY <1>1, <1>4, <1>5, <2>1, <2>2, <2>3 DEF BindInv, Listening, BindPhases
  <2> QED BY <1>4, <2>4 DEF ServerInv
<1>9. CASE Bind(i)
  <2>1. inst[i].phase = "binding" /\ bindlock' = Nobody
    BY <1>9 DEF Bind
  <2>2. CASE socket = Absent
    <3>1. inst' = [inst EXCEPT ![i].phase = "acquiring"] /\ socket' = i
      BY <1>9, <2>2 DEF Bind, Unbound
    <3>2. inst'[i].phase = "acquiring"
      BY <1>1, <3>1 DEF ServerTypeOK, InstanceState
    <3>3. \A j \in Instances : ~Listening(j)
      BY <1>1, <2>2, ServerAssumption DEF BindInv, Absent
    <3>4. BindInv'
      BY <1>1, <1>4, <1>5, <2>1, <3>1, <3>2, <3>3 DEF BindInv, Listening, BindPhases
    <3> QED BY <1>4, <3>4 DEF ServerInv
  <2>3. CASE socket # Absent
    <3>1. inst' = [inst EXCEPT ![i].phase = "left"] /\ socket' = socket
      BY <1>9, <2>3 DEF Bind, Unbound
    <3>2. inst'[i].phase = "left"
      BY <1>1, <3>1 DEF ServerTypeOK, InstanceState
    <3>3. BindInv'
      BY <1>1, <1>4, <1>5, <2>1, <3>1, <3>2 DEF BindInv, Listening, BindPhases
    <3> QED BY <1>4, <3>3 DEF ServerInv
  <2> QED BY <2>2, <2>3
<1> QED BY <1>6, <1>7, <1>8, <1>9

------------------------------------------------------------------------------
(* Connections.                                                            *)

\* A connection moves on and its instance with it.  The entry of job_runners
\* changes only while no other connection has it locked.
LEMMA RequestMoves ==
    ASSUME ServerInv, NEW c \in Conns, NEW i \in Instances, NEW n, Turns(i, n),
           NEW m \in Connection, conn' = [conn EXCEPT ![c] = m],
           UNCHANGED <<dir, socket, bindlock, lock>>,
           job' \in [StateDirs -> {"none", "pending", "done"}],
           acked' \in [StateDirs -> Instances \cup {Absent}], troubles' \in Nat,
           n.inner = inst[i].inner,
           \/ n.phase = inst[i].phase
           \/ {n.phase, inst[i].phase} \subseteq {"acquiring", "accepting"},
           \/ n.gate = inst[i].gate /\ n.runner = inst[i].runner
           \/ inst[i].gate \in {Nobody, c},
           Owned(i)', Connected(c)'
    PROVE  ServerInv'
<1>1. \A j \in Instances : Owned(j)'
  BY OthersOwned
<1>2. ASSUME NEW d \in Conns, d # c PROVE Connected(d)'
  <2>1. conn'[d] = conn[d] /\ d # Nobody
    BY <1>2, ServerAssumption DEF ServerInv, ServerTypeOK
  <2>2. conn[d].at \in Request => conn[d].to \in Instances
    BY DEF ServerInv, Connected, Request
  <2>3. conn[d].at = "attaching" => inst[conn[d].to].gate = d
    BY DEF ServerInv, Connected
  <2>4. conn[d].at \in Request => inst'[conn[d].to].inner = inst[conn[d].to].inner
    BY <2>2 DEF Turns
  <2>5. conn[d].at = "attaching" => /\ inst'[conn[d].to].gate = inst[conn[d].to].gate
                                    /\ inst'[conn[d].to].runner = inst[conn[d].to].runner
    BY <1>2, <2>1, <2>2, <2>3 DEF Turns, Request
  <2> QED BY <2>1, <2>4, <2>5, ConnKept
<1>3. BindInv'
  <2>1. \A j \in Instances :
           /\ inst'[j].phase \in {"acquiring", "accepting"} => inst[j].phase \in {"acquiring", "accepting"}
           /\ inst'[j].phase \in BindPhases => inst[j].phase = inst'[j].phase
    BY DEF Turns, BindPhases
  <2> QED BY <2>1, BindKept
<1>4. ServerTypeOK'
  <2>1. conn' \in [Conns -> Connection]
    BY DEF ServerInv, ServerTypeOK
  <2> QED BY <2>1 DEF ServerInv, ServerTypeOK, Turns
<1> QED BY <1>1, <1>2, <1>3, <1>4 DEF ServerInv

\* What a request under way knows of its instance.
LEMMA RequestFacts ==
    ASSUME ServerInv, NEW c \in Conns, conn[c].at \in Request \cup {"queued"}
    PROVE  /\ ServerTypeOK /\ Connected(c) /\ conn[c] \in Connection /\ conn[c].to \in Instances
           /\ inst[conn[c].to] \in InstanceState /\ Owned(conn[c].to) /\ dir[conn[c].to] \in StateDirs
           /\ conn[c].at \in Request => inst[conn[c].to].inner = "alive" /\ inst[conn[c].to].phase # "off"
<1>1. ServerTypeOK /\ Connected(c) /\ conn[c] \in Connection /\ conn[c].to \in Instances
  BY DEF ServerInv, ServerTypeOK, Connected, Request
<1>2. inst[conn[c].to] \in InstanceState /\ Owned(conn[c].to) /\ dir[conn[c].to] \in StateDirs
  BY <1>1, InstanceFacts
<1>3. conn[c].at \in Request => inst[conn[c].to].inner = "alive"
  BY <1>1 DEF Connected
<1>4. Off.inner = "none"
  BY DEF Off
<1> QED BY <1>1, <1>2, <1>3, <1>4 DEF Owned

\* The request goes on to another step and leaves the instance alone.
LEMMA StepsInv ==
    ASSUME ServerInv, NEW c \in Conns, conn[c].at \in Request, NEW to \in Request \ {"attaching"},
           Steps(c, to), UNCHANGED <<dir, inst, socket, bindlock, lock, acked, troubles>>,
           job' \in [StateDirs -> {"none", "pending", "done"}]
    PROVE  ServerInv'
<1>1. /\ ServerTypeOK /\ Connected(c) /\ conn[c] \in Connection /\ conn[c].to \in Instances
      /\ inst[conn[c].to] \in InstanceState /\ Owned(conn[c].to)
      /\ inst[conn[c].to].inner = "alive"
  BY RequestFacts
<1>2. PICK i \in Instances : i = conn[c].to
  BY <1>1
<1> DEFINE m == [conn[c] EXCEPT !.at = to]
<1>3. conn' = [conn EXCEPT ![c] = m]
  BY <1>1 DEF Steps, ServerTypeOK
<1>4. m \in Connection /\ m.at = to /\ m.to = i
  BY <1>1, <1>2 DEF Connection
<1> HIDE DEF m
<1>5. Turns(i, inst[i]) /\ Owned(i)'
  BY <1>1, <1>2 DEF Turns, ServerTypeOK, Owned
<1>6. conn'[c] = m
  BY <1>1, <1>3 DEF ServerTypeOK
<1>7. Connected(c)'
  BY <1>1, <1>2, <1>4, <1>6 DEF Connected
<1> QED BY <1>1, <1>3, <1>4, <1>5, <1>7, RequestMoves DEF ServerTypeOK

\* A client connects to who listens.
LEMMA ConnectsInv ==
    ASSUME ServerInv, NEW c \in Conns, NEW op \in Requests[c], ClientConnects(c, op) PROVE ServerInv'
<1> DEFINE m == [at |-> "queued", to |-> socket, op |-> op]
<1>1. /\ conn' = [conn EXCEPT ![c] = m] /\ socket \in Instances
      /\ UNCHANGED <<dir, inst, socket, bindlock, lock, job, acked, troubles>>
  BY DEF ClientConnects
<1>2. ServerTypeOK
  BY DEF ServerInv
<1>3. m \in Connection
  BY <1>1, ServerAssumption DEF Connection
<1>4. m.at = "queued" /\ m.to \in Instances
  BY <1>1
<1> HIDE DEF m
<1>5. conn' \in [Conns -> Connection] /\ conn'[c] = m /\ \A d \in Conns : d # c => conn'[d] = conn[d]
  BY <1>1, <1>2, <1>3 DEF ServerTypeOK
<1>6. Connected(c)'
  BY <1>4, <1>5 DEF Connected, Request
<1>7. \A d \in Conns : Connected(d)'
  BY <1>1, <1>5, <1>6, ConnKept
<1>8. \A i \in Instances : Owned(i)'
  BY <1>1 DEF ServerInv, Owned
<1>9. BindInv'
  BY <1>1, BindKept
<1>10. ServerTypeOK'
  BY <1>1, <1>2, <1>5 DEF ServerTypeOK
<1> QED BY <1>7, <1>8, <1>9, <1>10 DEF ServerInv

\* Accepting gives the connection a task, or refuses the peer.
LEMMA AcceptInv == ASSUME ServerInv, NEW c \in Conns, Accept(c) PROVE ServerInv'
<1>1. conn[c].at = "queued"
  BY DEF Accept
<1>2. /\ ServerTypeOK /\ Connected(c) /\ conn[c] \in Connection /\ conn[c].to \in Instances
  BY <1>1, RequestFacts
<1>3. PICK i \in Instances : i = conn[c].to
  BY <1>2
<1>4. /\ inst[i] \in InstanceState /\ Owned(i) /\ inst[i].phase = "accepting" /\ inst[i].slots \in Nat
      /\ UNCHANGED <<dir, socket, bindlock, lock, job, acked, troubles>>
  BY <1>1, <1>3, InstanceFacts DEF Accept, InstanceState
<1>5. inst[i].inner = "alive"
  BY <1>4 DEF Owned
<1>6. CASE conn' = [conn EXCEPT ![c].at = "reading"] /\ inst' = [inst EXCEPT ![i].phase = "acquiring"]
  <2> DEFINE n == [inst[i] EXCEPT !.phase = "acquiring"]
             m == [conn[c] EXCEPT !.at = "reading"]
  <2>1. inst' = [inst EXCEPT ![i] = n] /\ conn' = [conn EXCEPT ![c] = m]
    BY <1>2, <1>6 DEF ServerTypeOK
  <2>2. /\ n \in InstanceState /\ n.phase = "acquiring" /\ n.inner = "alive" /\ n.refs = inst[i].refs
        /\ n.gate = inst[i].gate /\ n.runner = inst[i].runner /\ n.task = inst[i].task /\ n.starts = inst[i].starts
    BY <1>4, <1>5 DEF InstanceState
  <2>3. m \in Connection /\ m.at = "reading" /\ m.to = i
    BY <1>2, <1>3 DEF Connection, Request
  <2> HIDE DEF n, m
  <2>4. Turns(i, n) /\ conn'[c] = m
    BY <1>2, <2>1, <2>2, TurnsBy DEF ServerTypeOK
  <2>5. Owned(i)' /\ Connected(c)'
    BY <1>4, <2>2, <2>3, <2>4 DEF Owned, Turns, Connected
  <2> QED BY <1>2, <1>4, <1>5, <2>1, <2>2, <2>3, <2>4, <2>5, RequestMoves DEF ServerTypeOK
<1>7. CASE /\ conn' = [conn EXCEPT ![c] = Closed]
           /\ inst' = [inst EXCEPT ![i].phase = "acquiring", ![i].slots = inst[i].slots + 1]
  <2> DEFINE n == [inst[i] EXCEPT !.phase = "acquiring", !.slots = inst[i].slots + 1]
  <2>1. inst' = [inst EXCEPT ![i] = n]
    BY <1>2, <1>7 DEF ServerTypeOK
  <2>2. /\ n \in InstanceState /\ n.phase = "acquiring" /\ n.inner = "alive" /\ n.refs = inst[i].refs
        /\ n.gate = inst[i].gate /\ n.runner = inst[i].runner /\ n.task = inst[i].task /\ n.starts = inst[i].starts
    <3>1. inst[i].slots + 1 \in Nat
      BY <1>4
    <3> QED BY <1>4, <1>5, <3>1 DEF InstanceState
  <2>3. Closed \in Connection /\ Closed.at = "closed"
    BY DEF Closed, Connection
  <2> HIDE DEF n
  <2>4. Turns(i, n) /\ conn'[c] = Closed
    BY <1>2, <1>7, <2>1, <2>2, TurnsBy DEF ServerTypeOK
  <2>5. Owned(i)' /\ Connected(c)'
    BY <1>4, <2>2, <2>3, <2>4 DEF Owned, Turns, Connected, Request
  <2> QED BY <1>2, <1>4, <1>5, <1>7, <2>2, <2>3, <2>4, <2>5, RequestMoves DEF ServerTypeOK
<1>8. \/ conn' = [conn EXCEPT ![c].at = "reading"] /\ inst' = [inst EXCEPT ![i].phase = "acquiring"]
      \/ /\ conn' = [conn EXCEPT ![c] = Closed]
         /\ inst' = [inst EXCEPT ![i].phase = "acquiring", ![i].slots = inst[i].slots + 1]
  BY <1>3 DEF Accept, SlotsAfterRefusal
<1> QED BY <1>6, <1>7, <1>8

\* The response ends the task and returns its slot.
LEMMA RespondsInv == ASSUME ServerInv, NEW c \in Conns, WriteResponse(c) PROVE ServerInv'
<1>1. conn[c].at \in Request
  BY DEF WriteResponse, Request
<1>2. /\ ServerTypeOK /\ Connected(c) /\ conn[c].to \in Instances
      /\ inst[conn[c].to].inner = "alive" /\ inst[conn[c].to].phase # "off"
  BY <1>1, RequestFacts
<1>3. PICK i \in Instances : i = conn[c].to
  BY <1>2
<1>4. /\ inst[i] \in InstanceState /\ Owned(i) /\ inst[i].slots + 1 \in Nat /\ dir[i] \in StateDirs
  BY <1>3, InstanceFacts DEF InstanceState
<1> DEFINE n == [inst[i] EXCEPT !.slots = inst[i].slots + 1]
<1>5. inst' = [inst EXCEPT ![i] = n] /\ conn' = [conn EXCEPT ![c] = Closed]
      /\ UNCHANGED <<dir, socket, bindlock, lock, job, troubles>>
  BY <1>2, <1>3 DEF WriteResponse, ServerTypeOK
<1>6. n \in InstanceState
  BY <1>4 DEF InstanceState
<1>7. /\ n.phase = inst[i].phase /\ n.inner = inst[i].inner /\ n.refs = inst[i].refs
      /\ n.gate = inst[i].gate /\ n.runner = inst[i].runner /\ n.task = inst[i].task /\ n.starts = inst[i].starts
  BY <1>4 DEF InstanceState
<1> HIDE DEF n
<1>8. Closed \in Connection /\ Closed.at = "closed"
  BY DEF Closed, Connection
<1>9. Turns(i, n) /\ conn'[c] = Closed
  BY <1>2, <1>5, <1>6, TurnsBy DEF ServerTypeOK
<1>10. Owned(i)' /\ Connected(c)'
  BY <1>2, <1>3, <1>4, <1>5, <1>7, <1>8, <1>9 DEF Owned, Turns, Connected, Request
<1>11. acked' \in [StateDirs -> Instances \cup {Absent}]
  BY <1>2, <1>3, <1>4 DEF WriteResponse, ServerTypeOK
<1> QED BY <1>2, <1>5, <1>7, <1>8, <1>9, <1>10, <1>11, RequestMoves DEF ServerTypeOK

\* The command runs and the status of its job is read.
LEMMA CommandInv ==
    ASSUME ServerInv, NEW c \in Conns, RunCommand(c) \/ ReadStatus(c) PROVE ServerInv'
<1>1. conn[c].at \in Request
  BY DEF RunCommand, ReadStatus, Request
<1>2. ServerTypeOK /\ conn[c].to \in Instances /\ dir[conn[c].to] \in StateDirs
  BY <1>1, RequestFacts
<1>3. PICK to \in {"status", "answering", "starting"} : Steps(c, to)
  BY DEF RunCommand, ReadStatus, AfterEnqueue, AfterPage
<1>4. /\ UNCHANGED <<dir, inst, socket, bindlock, lock, acked, troubles>>
      /\ job' \in [StateDirs -> {"none", "pending", "done"}]
  BY <1>2 DEF RunCommand, ReadStatus, ServerTypeOK
<1>5. to \in Request \ {"attaching"}
  BY DEF Request
<1> QED BY <1>1, <1>3, <1>4, <1>5, StepsInv

\* A runner whose task is over becomes a refusal, under the lock.
LEMMA RefusedRunner ==
    ASSUME NEW i \in Instances, inst[i] \in InstanceState
    PROVE  /\ RefusedIfOver(i) \in {"absent", "running", "refused"}
           /\ RefusedIfOver(i) = "absent" <=> inst[i].runner = "absent"
           /\ inst[i].runner = "absent" => ~Over(i)
<1>1. inst[i].runner \in {"absent", "running", "refused"}
  BY DEF InstanceState
<1> QED BY <1>1 DEF RefusedIfOver, Over

\* check_job_runners, before the command touches anything.
LEMMA ReadInv == ASSUME ServerInv, NEW c \in Conns, ReadRequest(c) PROVE ServerInv'
<1>1. conn[c].at = "reading" /\ conn[c].at \in Request /\ UNCHANGED <<dir, socket, bindlock, lock, job, acked, troubles>>
  BY DEF ReadRequest, Request
<1>2. /\ ServerTypeOK /\ Connected(c) /\ conn[c] \in Connection /\ conn[c].to \in Instances
      /\ inst[conn[c].to].inner = "alive" /\ inst[conn[c].to].phase # "off"
  BY <1>1, RequestFacts
<1>3. PICK i \in Instances : i = conn[c].to
  BY <1>2
<1>4. inst[i] \in InstanceState /\ Owned(i)
  BY InstanceFacts
<1>5. CASE Steps(c, "failed") /\ UNCHANGED inst
  <2>1. "failed" \in Request \ {"attaching"}
    BY DEF Request
  <2> QED BY <1>1, <1>2, <1>5, <2>1, StepsInv DEF ServerTypeOK
<1>6. CASE ~(Steps(c, "failed") /\ UNCHANGED inst)
  <2> DEFINE n == [inst[i] EXCEPT !.runner = RefusedIfOver(i)]
             to == IF Over(i) THEN "failed" ELSE "running"
             m == [conn[c] EXCEPT !.at = to]
  <2>1. GateFree(i) /\ inst' = [inst EXCEPT ![i].runner = RefusedIfOver(i)] /\ Steps(c, to)
    BY <1>3, <1>6 DEF ReadRequest
  <2>2. inst' = [inst EXCEPT ![i] = n] /\ conn' = [conn EXCEPT ![c] = m]
    BY <1>2, <2>1 DEF ServerTypeOK, Steps
  <2>3. /\ n \in InstanceState /\ n.runner = RefusedIfOver(i)
        /\ n.phase = inst[i].phase /\ n.inner = inst[i].inner /\ n.refs = inst[i].refs
        /\ n.gate = inst[i].gate /\ n.task = inst[i].task /\ n.starts = inst[i].starts
    BY <1>4, RefusedRunner DEF InstanceState
  <2>4. m \in Connection /\ m.at \in Request \ {"attaching"} /\ m.to = i
    <3>1. to \in {"failed", "running"}
      OBVIOUS
    <3> HIDE DEF to
    <3> QED BY <1>2, <1>3, <3>1 DEF Connection, Request
  <2> HIDE DEF n, m
  <2>5. Turns(i, n) /\ conn'[c] = m
    BY <1>2, <2>2, <2>3, TurnsBy DEF ServerTypeOK
  <2>6. Owned(i)'
    BY <1>1, <1>2, <1>3, <1>4, <2>3, <2>5, RefusedRunner DEF Owned, Turns
  <2>7. Connected(c)'
    BY <1>2, <1>3, <2>3, <2>4, <2>5 DEF Connected, Turns
  <2> QED BY <1>1, <1>2, <2>1, <2>2, <2>3, <2>4, <2>5, <2>6, <2>7, RequestMoves DEF ServerTypeOK, GateFree
<1> QED BY <1>5, <1>6

\* start_jobs locks job_runners for a connection that found no runner.
LEMMA LockInv == ASSUME ServerInv, NEW c \in Conns, LockRunners(c) PROVE ServerInv'
<1>1. conn[c].at = "starting" /\ conn[c].at \in Request /\ UNCHANGED <<dir, socket, bindlock, lock, job, acked, troubles>>
  BY DEF LockRunners, Request
<1>2. /\ ServerTypeOK /\ Connected(c) /\ conn[c] \in Connection /\ conn[c].to \in Instances
      /\ inst[conn[c].to].inner = "alive" /\ inst[conn[c].to].phase # "off"
  BY <1>1, RequestFacts
<1>3. PICK i \in Instances : i = conn[c].to
  BY <1>2
<1>4. inst[i] \in InstanceState /\ Owned(i)
  BY InstanceFacts
<1> DEFINE start == inst[i].runner = "absent" /\ job[dir[i]] = "pending"
           g == IF start THEN c ELSE inst[i].gate
           n == [inst[i] EXCEPT !.runner = RefusedIfOver(i), !.gate = g]
           to == IF Over(i) THEN "failed" ELSE IF start THEN "attaching" ELSE "answering"
           m == [conn[c] EXCEPT !.at = to]
<1>5. GateFree(i) /\ inst' = [inst EXCEPT ![i].runner = RefusedIfOver(i), ![i].gate = g] /\ Steps(c, to)
  BY <1>3 DEF LockRunners
<1>6. inst' = [inst EXCEPT ![i] = n] /\ conn' = [conn EXCEPT ![c] = m]
  BY <1>2, <1>5 DEF ServerTypeOK, Steps
<1>7. to \in {"failed", "attaching", "answering"} /\ (to = "attaching" => start)
  <2>1. CASE Over(i)
    BY <1>4, <2>1, RefusedRunner
  <2>2. CASE ~Over(i) /\ start
    BY <2>2
  <2>3. CASE ~Over(i) /\ ~start
    BY <2>3
  <2> QED BY <2>1, <2>2, <2>3
<1>8. m \in Connection /\ m.at = to /\ m.to = i
  <2> HIDE DEF to
  <2> QED BY <1>2, <1>3, <1>7 DEF Connection, Request
<1>9. /\ n \in InstanceState /\ n.runner = RefusedIfOver(i) /\ n.gate = g
      /\ n.phase = inst[i].phase /\ n.inner = inst[i].inner /\ n.refs = inst[i].refs
      /\ n.task = inst[i].task /\ n.starts = inst[i].starts
  <2>1. g \in Conns \cup {Nobody}
    BY <1>4 DEF InstanceState
  <2> HIDE DEF g
  <2> QED BY <1>4, <2>1, RefusedRunner DEF InstanceState
<1> HIDE DEF n, m, to
<1>10. Turns(i, n) /\ conn'[c] = m
  BY <1>2, <1>6, <1>9, TurnsBy DEF ServerTypeOK
<1>11. Owned(i)'
  BY <1>1, <1>2, <1>3, <1>4, <1>9, <1>10, RefusedRunner DEF Owned, Turns
<1>12. Connected(c)'
  BY <1>2, <1>3, <1>4, <1>7, <1>8, <1>9, <1>10, RefusedRunner DEF Connected, Turns
<1> QED BY <1>1, <1>2, <1>5, <1>6, <1>8, <1>9, <1>10, <1>11, <1>12, RequestMoves DEF ServerTypeOK, GateFree

\* The runner is started, or fails to start, while the lock is held.
LEMMA StartInv == ASSUME ServerInv, NEW c \in Conns, StartRunner(c) PROVE ServerInv'
<1>1. conn[c].at = "attaching" /\ conn[c].at \in Request /\ UNCHANGED <<dir, socket, bindlock, lock, job, acked>>
  BY DEF StartRunner, Request
<1>2. /\ ServerTypeOK /\ Connected(c) /\ conn[c] \in Connection /\ conn[c].to \in Instances
      /\ inst[conn[c].to].inner = "alive" /\ inst[conn[c].to].phase # "off"
  BY <1>1, RequestFacts
<1>3. PICK i \in Instances : i = conn[c].to
  BY <1>2
<1>4. /\ inst[i] \in InstanceState /\ Owned(i) /\ inst[i].gate = c /\ inst[i].runner = "absent"
      /\ inst[i].starts = 0 /\ "inner" \in inst[i].refs /\ lock[dir[i]] = i
  BY <1>1, <1>2, <1>3, InstanceFacts DEF Connected, Owned
<1>5. CASE inst' = [inst EXCEPT ![i].gate = Nobody] /\ Steps(c, "failed") /\ Trouble
  <2> DEFINE n == [inst[i] EXCEPT !.gate = Nobody]
             m == [conn[c] EXCEPT !.at = "failed"]
  <2>1. inst' = [inst EXCEPT ![i] = n] /\ conn' = [conn EXCEPT ![c] = m] /\ troubles' \in Nat
    BY <1>2, <1>5 DEF ServerTypeOK, Steps, Trouble
  <2>2. /\ n \in InstanceState /\ n.runner = "absent" /\ n.starts = 0
        /\ n.phase = inst[i].phase /\ n.inner = inst[i].inner /\ n.refs = inst[i].refs /\ n.task = inst[i].task
    BY <1>4 DEF InstanceState
  <2>3. m \in Connection /\ m.at = "failed" /\ m.to = i
    BY <1>2, <1>3 DEF Connection, Request
  <2> HIDE DEF n, m
  <2>4. Turns(i, n) /\ conn'[c] = m
    BY <1>2, <2>1, <2>2, TurnsBy DEF ServerTypeOK
  <2>5. Owned(i)' /\ Connected(c)'
    BY <1>1, <1>2, <1>3, <1>4, <2>2, <2>3, <2>4 DEF Owned, Turns, Connected
  <2> QED BY <1>1, <1>2, <1>4, <2>1, <2>2, <2>3, <2>4, <2>5, RequestMoves DEF ServerTypeOK
<1>6. CASE /\ inst' = [inst EXCEPT ![i].runner = "running", ![i].task = "running",
                                   ![i].holders = @ \cup {"runner"}, ![i].refs = @ \cup RunnerRefs,
                                   ![i].gate = Nobody, ![i].starts = @ + 1]
           /\ Steps(c, "answering") /\ troubles' = troubles
  <2> DEFINE n == [inst[i] EXCEPT !.runner = "running", !.task = "running",
                                  !.holders = inst[i].holders \cup {"runner"},
                                  !.refs = inst[i].refs \cup {"runner"}, !.gate = Nobody, !.starts = 1]
             m == [conn[c] EXCEPT !.at = "answering"]
  <2>1. inst' = [inst EXCEPT ![i] = n]
    BY <1>2, <1>4, <1>6 DEF ServerTypeOK, RunnerRefs, InstanceState
  <2>2. conn' = [conn EXCEPT ![c] = m] /\ troubles' \in Nat
    BY <1>2, <1>6 DEF ServerTypeOK, Steps
  <2>3. /\ n \in InstanceState /\ n.runner = "running" /\ n.starts = 1
        /\ n.phase = inst[i].phase /\ n.inner = inst[i].inner /\ n.refs = inst[i].refs \cup {"runner"}
    BY <1>4 DEF InstanceState
  <2>4. m \in Connection /\ m.at = "answering" /\ m.to = i
    BY <1>2, <1>3 DEF Connection, Request
  <2> HIDE DEF n, m
  <2>5. Turns(i, n) /\ conn'[c] = m
    BY <1>2, <2>1, <2>2, <2>3, TurnsBy DEF ServerTypeOK
  <2>6. Owned(i)' /\ Connected(c)'
    BY <1>1, <1>2, <1>3, <1>4, <2>3, <2>4, <2>5 DEF Owned, Turns, Connected
  <2> QED BY <1>1, <1>2, <1>4, <2>2, <2>3, <2>4, <2>5, <2>6, RequestMoves DEF ServerTypeOK
<1>7. \/ inst' = [inst EXCEPT ![i].gate = Nobody] /\ Steps(c, "failed") /\ Trouble
      \/ /\ inst' = [inst EXCEPT ![i].runner = "running", ![i].task = "running",
                                 ![i].holders = @ \cup {"runner"}, ![i].refs = @ \cup RunnerRefs,
                                 ![i].gate = Nobody, ![i].starts = @ + 1]
         /\ Steps(c, "answering") /\ troubles' = troubles
  BY <1>3 DEF StartRunner
<1> QED BY <1>5, <1>6, <1>7

------------------------------------------------------------------------------
(* The server leaves, the process crashes.                                 *)

\* The listener and its backlog go, the tasks stay.
LEMMA LeaveInv == ASSUME ServerInv, NEW i \in Instances, LeaveServe(i) PROVE ServerInv'
<1>1. ServerTypeOK /\ Owned(i) /\ inst[i] \in InstanceState
  BY InstanceFacts
<1> DEFINE n == [inst[i] EXCEPT !.phase = "left"]
<1>2. /\ inst' = [inst EXCEPT ![i] = n] /\ troubles' \in Nat /\ inst[i].phase \in {"open", "acquiring", "accepting"}
      /\ UNCHANGED <<dir, socket, bindlock, lock, job, acked>>
  BY <1>1 DEF LeaveServe, Trouble, ServerTypeOK
<1>3. /\ n \in InstanceState /\ n.phase = "left" /\ n.inner = inst[i].inner /\ n.refs = inst[i].refs
      /\ n.gate = inst[i].gate /\ n.runner = inst[i].runner /\ n.task = inst[i].task /\ n.starts = inst[i].starts
  BY <1>1 DEF InstanceState
<1> HIDE DEF n
<1>4. Turns(i, n)
  BY <1>1, <1>2, <1>3, TurnsBy
<1>5. \A j \in Instances : Owned(j)'
  <2>1. Owned(i)'
    BY <1>1, <1>2, <1>3, <1>4 DEF Owned, Turns
  <2> QED BY <1>2, <1>4, <2>1, OthersOwned
<1>6. Closed \in Connection /\ Closed.at = "closed"
  BY DEF Closed, Connection
<1>7. /\ conn' \in [Conns -> Connection]
      /\ \A c \in Conns : conn'[c] = Closed \/ conn'[c] = conn[c]
  BY <1>1, <1>6 DEF LeaveServe, ServerTypeOK
<1>8. ASSUME NEW c \in Conns PROVE Connected(c)'
  <2>1. conn[c].at \in Request => conn[c].to \in Instances
    BY DEF ServerInv, Connected, Request
  <2>2. conn[c].at \in Request =>
          /\ inst'[conn[c].to].inner = inst[conn[c].to].inner
          /\ inst'[conn[c].to].gate = inst[conn[c].to].gate
          /\ inst'[conn[c].to].runner = inst[conn[c].to].runner
    BY <1>3, <1>4, <2>1 DEF Turns
  <2> QED BY <1>6, <1>7, <2>2, ConnKept
<1>9. BindInv'
  <2>1. \A j \in Instances :
           /\ inst'[j].phase \in {"acquiring", "accepting"} => inst[j].phase \in {"acquiring", "accepting"}
           /\ inst'[j].phase \in BindPhases => inst[j].phase = inst'[j].phase
    BY <1>3, <1>4 DEF Turns, BindPhases
  <2> QED BY <1>2, <2>1, BindKept
<1>10. ServerTypeOK'
  BY <1>1, <1>2, <1>4, <1>7 DEF ServerTypeOK, Turns
<1> QED BY <1>5, <1>8, <1>9, <1>10 DEF ServerInv

\* The kernel frees the locks of a process that dies, and closes its ends.
LEMMA CrashInv == ASSUME ServerInv, NEW i \in Instances, Crash(i) PROVE ServerInv'
<1>1. ServerTypeOK /\ Owned(i) /\ inst[i] \in InstanceState /\ dir[i] \in StateDirs /\ BindInv
  BY InstanceFacts DEF ServerInv
<1> DEFINE n == [Off EXCEPT !.phase = "crashed"]
<1>2. /\ inst' = [inst EXCEPT ![i] = n] /\ troubles' \in Nat
      /\ bindlock' = (IF bindlock = i THEN Nobody ELSE bindlock)
      /\ UNCHANGED <<dir, socket, job, acked>>
  BY <1>1 DEF Crash, Trouble, ServerTypeOK
<1>3. /\ lock' \in [StateDirs -> Instances \cup {Nobody}]
      /\ \A d \in StateDirs : lock[d] # i => lock'[d] = lock[d]
  BY <1>1 DEF Crash, ServerTypeOK
<1>4. /\ n \in InstanceState /\ n.phase = "crashed" /\ n.inner = "none" /\ n.refs = {}
      /\ n.task = "none" /\ n.starts = 0
  BY DEF Off, InstanceState
<1> HIDE DEF n
<1>5. Turns(i, n)
  BY <1>1, <1>2, <1>4, TurnsBy
<1>6. \A j \in Instances : Owned(j)'
  <2>1. Owned(i)'
    BY <1>4, <1>5 DEF Owned, Turns
  <2> QED BY <1>2, <1>3, <1>5, <2>1, OthersOwned
<1>7. Closed \in Connection /\ Closed.at = "closed"
  BY DEF Closed, Connection
<1>8. /\ conn' \in [Conns -> Connection]
      /\ \A c \in Conns : conn'[c] = Closed \/ (conn'[c] = conn[c] /\ conn[c].to # i)
  BY <1>1, <1>7 DEF Crash, ServerTypeOK
<1>9. ASSUME NEW c \in Conns PROVE Connected(c)'
  <2>1. conn[c].at \in Request => conn[c].to \in Instances
    BY DEF ServerInv, Connected, Request
  <2>2. conn[c].at \in Request /\ conn[c].to # i => inst'[conn[c].to] = inst[conn[c].to]
    BY <1>5, <2>1 DEF Turns
  <2> QED BY <1>7, <1>8, <2>2, ConnKept
<1>10. BindInv'
  <2>1. \A j \in Instances :
           /\ inst'[j].phase \in {"acquiring", "accepting"} => inst[j].phase \in {"acquiring", "accepting"}
           /\ inst'[j].phase \in BindPhases => /\ inst[j].phase = inst'[j].phase
                                               /\ bindlock = j => bindlock' = j
    BY <1>2, <1>4, <1>5 DEF Turns, BindPhases
  <2> QED BY <1>2, <2>1, BindKept
<1>11. ServerTypeOK'
  BY <1>1, <1>2, <1>3, <1>5, <1>8 DEF ServerTypeOK, Turns
<1> QED BY <1>6, <1>9, <1>10, <1>11 DEF ServerInv

------------------------------------------------------------------------------
(* The theorems.                                                           *)

\* Nothing is open, bound or connected at first.
LEMMA InitServerInv == ASSUME ServerInit PROVE ServerInv
<1>1. Off \in InstanceState /\ Unmade \in Connection
  BY DEF Off, InstanceState, Unmade, Connection
<1>2. ServerTypeOK
  BY <1>1, ServerAssumption DEF ServerInit, ServerTypeOK
<1>3. \A i \in Instances : inst[i] = Off
  BY DEF ServerInit
<1>4. BindInv
  BY <1>3 DEF BindInv, Listening, BindPhases, Off
<1>5. \A i \in Instances : Owned(i)
  <2>1. Off.phase = "off" /\ Off.inner = "none" /\ Off.task = "none" /\ Off.refs = {} /\ Off.starts = 0
    BY DEF Off
  <2> QED BY <1>3, <2>1 DEF Owned
<1>6. \A c \in Conns : Connected(c)
  BY DEF ServerInit, Connected, Request, Unmade
<1> QED BY <1>2, <1>4, <1>5, <1>6 DEF ServerInv

\* Every step of an instance, a connection, a runner or a crash keeps it.
LEMMA NextServerInv == ASSUME ServerInv, [ServerNext]_vars PROVE ServerInv'
<1>1. CASE UNCHANGED vars
  BY <1>1 DEF vars, ServerInv, ServerTypeOK, BindInv, Listening, Owned, Connected
<1>2. ASSUME NEW i \in Instances,
             \/ Open(i) \/ InstanceStep(i) \/ RunnerStep(i) \/ WorkerStep(i)
             \/ RunnerFails(i) \/ LeaveServe(i) \/ Crash(i)
      PROVE  ServerInv'
  BY <1>2, OpenInv, BindingInv, AcquireInv, InnerGoes, TasksInv, EndRunnerInv, LeaveInv, CrashInv
     DEF InstanceStep, RunnerStep, WorkerStep
<1>3. ASSUME NEW c \in Conns, TaskStep(c) \/ \E op \in Requests[c] : ClientConnects(c, op)
      PROVE  ServerInv'
  BY <1>3, AcceptInv, ReadInv, CommandInv, LockInv, StartInv, RespondsInv, ConnectsInv DEF TaskStep
<1> QED BY <1>1, <1>2, <1>3 DEF ServerNext

\* The references, locks and connections of all instances stay consistent.
THEOREM ServerInvariant == ServerSpec => []ServerInv
<1>1. ServerInit => ServerInv
  BY InitServerInv
<1>2. ServerInv /\ [ServerNext]_vars => ServerInv'
  BY NextServerInv
<1> QED BY <1>1, <1>2, PTL DEF ServerSpec

\* CredentialProcess::open, bind, start_jobs: no two instances use one state
\* directory, no live listener loses its socket, and an instance starts at
\* most one runner.
THEOREM OwnersAreSingle == ServerSpec => []OneOwner
<1>1. ASSUME ServerInv PROVE OneOwner
  <2>1. ASSUME NEW i \in Instances, NEW j \in Instances, i # j, dir[i] = dir[j], Active(i), Active(j)
        PROVE  FALSE
    <3>1. Owned(i) /\ Owned(j)
      BY <1>1 DEF ServerInv
    <3>2. inst[i].refs # {} /\ inst[j].refs # {}
      BY <2>1, <3>1 DEF Active, Owned
    <3> QED BY <2>1, <3>1, <3>2 DEF Owned
  <2>2. \A i \in Instances : Listening(i) => socket = i
    BY <1>1 DEF ServerInv, BindInv
  <2>3. \A i \in Instances : inst[i].starts <= 1
    BY <1>1 DEF ServerInv, Owned
  <2> QED BY <2>1, <2>2, <2>3 DEF OneOwner
<1> QED BY <1>1, ServerInvariant, PTL

------------------------------------------------------------------------------
(***************************************************************************)
(* Supervision, for any number of supervisors, descriptors and ticks.  The *)
(* invariant follows what a child leaves behind: the queue holds the       *)
(* threads that wait for the spawner, each once; the registry and the      *)
(* spawner between them account for every write end; only the last child   *)
(* of a supervisor may be unreaped, and somebody owns it; the crashes that *)
(* count are the latest of the restarted exits.                            *)
(***************************************************************************)


\* Threads that have no child to reap, and threads that own a ManagedChild,
\* hence a write end.
Childless == {"off", "check", "exited", "backoff", "dropping", "failed", "ended"}
Managed == {"poll", "waited", "stopping", "grace", "emergency", "exited", "backoff", "dropping"}
Undecided == {"off", "check", "spawning", "poll", "waited", "exited", "backoff", "stopping", "grace"}

SupState ==
    [handle : {"none", "live", "stop", "drop", "returned"},
     report : {"none", "unread", "read", "stop", "drop", "discarded"},
     pc : Childless \cup Managed \cup Undecided, asked : BOOLEAN, crashes : Seq(Nat),
     outcome : {"none", "ok", "limit", "io"}, writer : Fds \cup {NoFd}, restarted : Seq(Nat)]
FdTable == [Fds -> {"free", "app", "writer"}]

SuperviseTypeOK ==
    /\ parent \in {"up", "dead"} /\ platform \in {"unknown"} \cup Platforms
    /\ now \in Nat /\ failures \in Nat /\ diagnostics \in Nat
    /\ sup \in [Supervisors -> SupState]
    /\ procs \in [Supervisors -> Seq(Living \cup {"zombie", "reaped"})]
    /\ queue \in Seq(Supervisors)
    /\ spawner \in [phase : {"idle", "piped", "forked"}, fd : Fds \cup {NoFd},
                    snapshot : SUBSET Fds, table : FdTable \cup {<<>>}]
    /\ registry \in SUBSET Fds /\ fds \in FdTable

\* A supervisor waits for the spawner once, and only while it is in the queue.
QueueInv ==
    /\ \A i \in 1..Len(queue) : sup[queue[i]].pc = "spawning"
    /\ \A i, j \in 1..Len(queue) : queue[i] = queue[j] => i = j

\* The registry and the spawner account for every write end of a parent pipe.
FilesInv ==
    /\ spawner.phase # "idle" =>
         /\ queue # <<>> /\ spawner.fd \in Fds /\ spawner.fd \notin registry
         /\ spawner.snapshot = registry \cup {spawner.fd}
    /\ \A f \in Fds : fds[f] = "writer" <=>
         (f \in registry \/ (spawner.phase # "idle" /\ f = spawner.fd))
    /\ spawner.phase = "forked" => spawner.snapshot = {f \in Fds : spawner.table[f] = "writer"}
    /\ \A s \in Supervisors : sup[s].writer # NoFd <=> sup[s].pc \in Managed
    /\ \A s \in Supervisors : sup[s].writer # NoFd => sup[s].writer \in registry
    /\ \A s, t \in Supervisors : s # t /\ sup[s].writer = sup[t].writer => sup[s].writer = NoFd

\* The spawner has forked for s and not yet told it.
Forking(s) == spawner.phase = "forked" /\ s = Head(queue)
AllReaped(s) == \A i \in DOMAIN procs[s] : procs[s][i] = "reaped"

\* Only the last child of a supervisor may be unreaped, and only while its
\* thread, or the spawner on its behalf, owns it.
ChildInv(s) ==
    /\ \A i \in DOMAIN procs[s] : i # Len(procs[s]) => procs[s][i] = "reaped"
    /\ sup[s].pc \in Childless \/ (sup[s].pc = "spawning" /\ ~ Forking(s)) => AllReaped(s)

\* What the thread has decided and told.
ReportInv(s) ==
    /\ sup[s].handle = "none" => sup[s] = Unstarted
    /\ sup[s].handle = "returned" => sup[s].pc = "ended" /\ sup[s].report # "unread"
    /\ sup[s].pc \in Undecided => sup[s].outcome = "none"
    /\ sup[s].pc = "failed" => sup[s].outcome \notin {"none", "ok"}
    /\ sup[s].pc = "emergency" => sup[s].outcome = "io"
    /\ sup[s].pc # "ended" => sup[s].report = "none"
    /\ sup[s].pc = "ended" => sup[s].outcome # "none" /\ (sup[s].report = "none" <=> sup[s].outcome = "ok")

\* The crashes that count are the latest of the restarted exits; the others
\* have left the window.  A supervisor that gave up has dropped them all.
RestartInv(s) ==
    LET r == sup[s].restarted
        c == sup[s].crashes
        n == Len(r) - Len(c)
    IN  /\ sup[s].outcome # "limit" =>
             /\ n >= 0 /\ \A k \in 1..Len(c) : c[k] = r[n + k]
             /\ \A i \in 1..n : now - r[i] >= CrashWindow
        /\ \A i, j \in DOMAIN r :
             (i <= j /\ r[j] - r[i] < CrashWindow) => j - i + 1 <= MaxRestarts[s]

\* The inductive invariant.
SuperviseInv ==
    /\ SuperviseTypeOK /\ QueueInv /\ FilesInv
    /\ parent = "dead" => \A s \in Supervisors : sup[s] = Unstarted
    /\ parent = "up" => \A s \in Supervisors : ChildInv(s)
    /\ \A s \in Supervisors : ReportInv(s) /\ RestartInv(s)

------------------------------------------------------------------------------
(* A step of one thread.                                                   *)

ProcTable == [Supervisors -> Seq(Living \cup {"zombie", "reaped"})]

\* The thread of s, or its handle, turns into n; the spawner and the files
\* stay, and so does every other supervisor.
ThreadTurns(s, n) ==
    /\ n \in SupState /\ sup' = [sup EXCEPT ![s] = n]
    /\ UNCHANGED <<world, spawning, files>>
    /\ failures' \in Nat /\ diagnostics' \in Nat
    /\ procs' \in ProcTable /\ \A t \in Supervisors : t # s => procs'[t] = procs[t]
    /\ sup[s].pc = "spawning" => n.pc = "spawning"
    /\ n.writer = sup[s].writer /\ (n.pc \in Managed <=> sup[s].pc \in Managed)

\* Then only the supervisor's own invariants are left to show.
LEMMA TurnsInv ==
    ASSUME SuperviseInv, parent = "up", NEW s \in Supervisors, NEW n, ThreadTurns(s, n),
           ChildInv(s)', ReportInv(s)', RestartInv(s)'
    PROVE  SuperviseInv'
<1>1. SuperviseTypeOK'
  BY DEF SuperviseInv, SuperviseTypeOK, ThreadTurns, ProcTable, world, spawning, files
<1>2. \A t \in Supervisors : sup'[t] = IF t = s THEN n ELSE sup[t]
  BY DEF SuperviseInv, SuperviseTypeOK, ThreadTurns
<1>3. queue \in Seq(Supervisors) /\ UNCHANGED <<queue, spawner, registry, fds, now, parent>>
  BY DEF SuperviseInv, SuperviseTypeOK, ThreadTurns, world, spawning, files
<1>4. QueueInv'
  BY <1>2, <1>3 DEF SuperviseInv, QueueInv, ThreadTurns
<1>5. FilesInv'
  BY <1>2, <1>3 DEF SuperviseInv, FilesInv, ThreadTurns
<1>6. ASSUME NEW t \in Supervisors, t # s PROVE ChildInv(t)' /\ ReportInv(t)' /\ RestartInv(t)'
  <2>1. sup'[t] = sup[t] /\ procs'[t] = procs[t]
    BY <1>2, <1>6 DEF ThreadTurns
  <2>2. ChildInv(t) /\ ReportInv(t) /\ RestartInv(t)
    BY DEF SuperviseInv
  <2>3. ChildInv(t)'
    BY <1>3, <2>1, <2>2 DEF ChildInv, Forking, AllReaped
  <2>4. ReportInv(t)' /\ RestartInv(t)'
    BY <1>3, <2>1, <2>2 DEF ReportInv, RestartInv
  <2> QED BY <2>3, <2>4
<1> QED BY <1>1, <1>3, <1>4, <1>5, <1>6 DEF SuperviseInv

\* A handle or thread that moves without its child and its crashes.
LEMMA MovesInv ==
    ASSUME SuperviseInv, parent = "up", NEW s \in Supervisors, NEW n, ThreadTurns(s, n),
           n.pc = "spawning" => sup[s].pc = "spawning", procs' = procs,
           n.pc \in Childless => sup[s].pc \in Childless,
           n.crashes = sup[s].crashes, n.restarted = sup[s].restarted,
           n.outcome = "limit" \/ sup[s].outcome # "limit", ReportInv(s)'
    PROVE  SuperviseInv'
<1>1. sup'[s] = n /\ UNCHANGED <<queue, spawner, now>>
  BY DEF SuperviseInv, SuperviseTypeOK, ThreadTurns, world, spawning
<1>2. ChildInv(s) /\ RestartInv(s)
  BY DEF SuperviseInv
<1>3. ChildInv(s)'
  BY <1>1, <1>2 DEF ChildInv, Forking, AllReaped
<1>4. RestartInv(s)'
  BY <1>1, <1>2 DEF RestartInv
<1> QED BY <1>3, <1>4, TurnsInv

LEMMA SupFields ==
    ASSUME SuperviseInv, NEW s \in Supervisors
    PROVE  /\ sup[s] \in SupState /\ sup \in [Supervisors -> SupState] /\ procs \in ProcTable
           /\ failures \in Nat /\ diagnostics \in Nat /\ ReportInv(s)
BY DEF SuperviseInv, SuperviseTypeOK, ProcTable

\* The caller's handle.
LEMMA HandleInv ==
    ASSUME SuperviseInv, parent = "up", NEW s \in Supervisors,
           Start(s) \/ next_event(s) \/ Leave(s, "stop") \/ Leave(s, "drop") \/ finish(s)
    PROVE  SuperviseInv'
<1>0. /\ sup[s] \in SupState /\ sup \in [Supervisors -> SupState] /\ procs \in ProcTable
      /\ failures \in Nat /\ diagnostics \in Nat /\ ReportInv(s)
  BY SupFields
<1> USE <1>0
<1>1. CASE Start(s)
  <2> DEFINE n == [sup[s] EXCEPT !.handle = "live", !.pc = "check"]
  <2>0. sup[s] = Unstarted
    BY <1>1 DEF Start, ReportInv
  <2>1. ThreadTurns(s, n) /\ procs' = procs
    <3>1. n \in SupState
      BY DEF SupState, Childless
    <3>2. sup[s].pc = "off" /\ sup[s].handle = "none" /\ n.writer = sup[s].writer
      BY <2>0 DEF SupState, Unstarted
    <3> QED BY <1>1, <3>1, <3>2 DEF Start, ThreadTurns, SupState, Managed
  <2>2. ReportInv(s)'
    BY <1>1, <2>0 DEF Start, ReportInv, Undecided, Unstarted, SupState
  <2>3. sup[s].pc = "off" /\ sup[s].outcome = "none"
    BY <2>0 DEF Unstarted
  <2> QED BY <2>1, <2>2, <2>3, MovesInv DEF SupState, Childless
<1>2. CASE next_event(s)
  <2> DEFINE n == [sup[s] EXCEPT !.report = "read"]
  <2>1. ThreadTurns(s, n) /\ procs' = procs
    BY <1>2 DEF next_event, ThreadTurns, SupState
  <2>2. ReportInv(s)'
    BY <1>2 DEF next_event, ReportInv, Unstarted, SupState
  <2> QED BY <2>1, <2>2, MovesInv DEF SupState
<1>3. ASSUME NEW how \in {"stop", "drop"}, Leave(s, how) PROVE SuperviseInv'
  <2> DEFINE n == [sup[s] EXCEPT !.handle = how, !.asked = TRUE]
  <2>1. ThreadTurns(s, n) /\ procs' = procs
    BY <1>3 DEF Leave, ThreadTurns, SupState
  <2>2. ReportInv(s)'
    BY <1>3 DEF Leave, ReportInv, Unstarted, SupState
  <2> QED BY <2>1, <2>2, MovesInv DEF SupState
<1>4. CASE finish(s)
  <2> DEFINE n == [sup[s] EXCEPT !.handle = "returned", !.report = Drained(s)]
  <2>0. Drained(s) \in {"none", "read", "stop", "drop", "discarded"} /\ (Drained(s) = "none" <=> sup[s].report = "none")
    BY <1>4 DEF finish, Drained, SupState
  <2>1. ThreadTurns(s, n) /\ procs' = procs
    <3>1. n \in SupState
      BY <2>0 DEF SupState
    <3>2. diagnostics' \in Nat
      BY <1>4 DEF finish
    <3> QED BY <1>4, <3>1, <3>2 DEF finish, ThreadTurns, SupState
  <2>2. ReportInv(s)'
    BY <1>4, <2>0 DEF finish, ReportInv, Unstarted, SupState
  <2> QED BY <2>1, <2>2, MovesInv DEF SupState
<1> QED BY <1>1, <1>2, <1>3, <1>4

\* Polls, waits and the ends of a thread that leave child and files alone.
LEMMA PollInv ==
    ASSUME SuperviseInv, parent = "up", NEW s \in Supervisors,
           Poll(s) \/ Backoff(s) \/ OsCallFails(s) \/ SendFailure(s)
    PROVE  SuperviseInv'
<1>0. /\ sup[s] \in SupState /\ sup \in [Supervisors -> SupState] /\ procs \in ProcTable
      /\ failures \in Nat /\ diagnostics \in Nat /\ ReportInv(s)
  BY SupFields
<1> USE <1>0
<1>1. CASE Poll(s)
  <2> DEFINE n == [sup[s] EXCEPT !.pc = IF sup[s].asked THEN "stopping" ELSE "waited"]
  <2>1. ThreadTurns(s, n) /\ procs' = procs
    BY <1>1 DEF Poll, Goes, ThreadTurns, SupState, Managed, Undecided
  <2>2. ReportInv(s)'
    BY <1>1 DEF Poll, Goes, ReportInv, Unstarted, SupState, Undecided
  <2> QED BY <1>1, <2>1, <2>2, MovesInv DEF SupState, Poll, Childless
<1>2. CASE Backoff(s)
  <2> DEFINE n == [sup[s] EXCEPT !.pc = "dropping", !.outcome = IF sup[s].asked THEN "ok" ELSE "none"]
  <2>1. ThreadTurns(s, n) /\ procs' = procs
    BY <1>2 DEF Backoff, GoesWith, ThreadTurns, SupState, Managed, Undecided
  <2>2. ReportInv(s)'
    BY <1>2 DEF Backoff, GoesWith, ReportInv, Unstarted, SupState, Undecided
  <2> QED BY <1>2, <2>1, <2>2, MovesInv DEF SupState, Backoff, Childless, ReportInv, Undecided
<1>3. CASE OsCallFails(s)
  <2> DEFINE n == [sup[s] EXCEPT !.pc = "emergency", !.outcome = "io"]
  <2>1. ThreadTurns(s, n) /\ procs' = procs
    <3>1. n \in SupState
      BY DEF SupState, Managed
    <3>2. failures' \in Nat
      BY <1>3 DEF OsCallFails
    <3> QED BY <1>3, <3>1, <3>2 DEF OsCallFails, GoesWith, ThreadTurns, SupState, Managed
  <2>2. ReportInv(s)'
    BY <1>3 DEF OsCallFails, GoesWith, ReportInv, Unstarted, SupState, Undecided
  <2> QED BY <1>3, <2>1, <2>2, MovesInv DEF SupState, OsCallFails, Childless, ReportInv, Undecided
<1>4. CASE SendFailure(s)
  <2> DEFINE n == [sup[s] EXCEPT !.pc = "ended", !.report = "unread"]
  <2>1. ThreadTurns(s, n) /\ procs' = procs
    BY <1>4 DEF SendFailure, ThreadTurns, SupState, Managed, Childless
  <2>2. ReportInv(s)'
    BY <1>4 DEF SendFailure, ReportInv, Unstarted, SupState, Undecided
  <2> QED BY <1>4, <2>1, <2>2, MovesInv DEF SupState, SendFailure, Childless
<1> QED BY <1>1, <1>2, <1>3, <1>4

\* Reaping the last child leaves none unreaped.
LEMMA ReapedTable ==
    ASSUME SuperviseInv, parent = "up", NEW s \in Supervisors, Becomes(s, "reaped")
    PROVE  /\ procs' \in ProcTable /\ \A t \in Supervisors : t # s => procs'[t] = procs[t]
           /\ AllReaped(s)'
<1>1. procs \in ProcTable /\ procs[s] \in Seq(Living \cup {"zombie", "reaped"}) /\ ChildInv(s)
  BY DEF SuperviseInv, SuperviseTypeOK, ProcTable
<1> DEFINE new == [procs[s] EXCEPT ![Len(procs[s])] = "reaped"]
<1>2. new \in Seq(Living \cup {"zombie", "reaped"}) /\ DOMAIN new = DOMAIN procs[s]
  <2> DEFINE P == Living \cup {"zombie", "reaped"}
  <2> HIDE DEF P
  <2>1. "reaped" \in P
    BY DEF P
  <2>2. Len(procs[s]) \in Nat /\ procs[s] \in [1..Len(procs[s]) -> P]
    BY <1>1, LenProperties DEF P
  <2>3. new \in [1..Len(procs[s]) -> P]
    BY <2>1, <2>2
  <2> QED BY <2>2, <2>3, SeqDef DEF P
<1>3. procs' = [procs EXCEPT ![s] = new]
  BY DEF Becomes
<1>4. \A i \in DOMAIN new : new[i] = "reaped"
  BY <1>1 DEF ChildInv
<1> HIDE DEF new
<1>5. procs' \in ProcTable /\ procs'[s] = new
  BY <1>1, <1>2, <1>3 DEF ProcTable
<1> QED BY <1>1, <1>3, <1>4, <1>5 DEF ProcTable, AllReaped

\* A thread that reaps its child and goes on with n.
LEMMA ReapsInv ==
    ASSUME SuperviseInv, parent = "up", NEW s \in Supervisors, NEW n \in SupState,
           Becomes(s, "reaped"), sup' = [sup EXCEPT ![s] = n],
           UNCHANGED <<world, failures, spawning, files, diagnostics>>,
           sup[s].pc \in Managed, n.pc \in Managed, n.writer = sup[s].writer,
           n.crashes = sup[s].crashes, n.restarted = sup[s].restarted,
           n.outcome = "limit" \/ sup[s].outcome # "limit", ReportInv(s)'
    PROVE  SuperviseInv'
<1>0. sup \in [Supervisors -> SupState] /\ failures \in Nat /\ diagnostics \in Nat /\ RestartInv(s)
  BY SupFields DEF SuperviseInv
<1>1. ThreadTurns(s, n) /\ AllReaped(s)'
  BY <1>0, ReapedTable DEF ThreadTurns, Managed
<1>2. ChildInv(s)'
  BY <1>1 DEF ChildInv, AllReaped
<1>3. sup'[s] = n /\ now' = now
  BY <1>0 DEF world
<1>4. RestartInv(s)'
  BY <1>0, <1>3 DEF RestartInv
<1> QED BY <1>1, <1>2, <1>4, TurnsInv

LEMMA WaitInv ==
    ASSUME SuperviseInv, parent = "up", NEW s \in Supervisors,
           TryWait(s) \/ StopChild(s) \/ Grace(s) \/ DropChild(s)
    PROVE  SuperviseInv'
<1>0. /\ sup[s] \in SupState /\ sup \in [Supervisors -> SupState] /\ procs \in ProcTable
      /\ failures \in Nat /\ diagnostics \in Nat /\ ReportInv(s)
  BY SupFields
<1> USE <1>0
<1>1. ASSUME sup[s].pc \in {"waited", "stopping"}, procs' = procs,
             UNCHANGED <<world, failures, spawning, files, diagnostics>>,
             NEW to \in {"poll", "grace"}, Goes(s, to)
      PROVE  SuperviseInv'
  <2> DEFINE n == [sup[s] EXCEPT !.pc = to]
  <2>1. ThreadTurns(s, n)
    BY <1>1 DEF Goes, ThreadTurns, SupState, Managed
  <2>2. ReportInv(s)'
    BY <1>1 DEF Goes, ReportInv, Unstarted, SupState, Undecided
  <2> QED BY <1>1, <2>1, <2>2, MovesInv DEF SupState, Childless
<1>2. ASSUME sup[s].pc = "waited", Becomes(s, "reaped"), Goes(s, "exited"),
             UNCHANGED <<world, failures, spawning, files, diagnostics>>
      PROVE  SuperviseInv'
  <2> DEFINE n == [sup[s] EXCEPT !.pc = "exited"]
  <2>1. n \in SupState /\ sup' = [sup EXCEPT ![s] = n]
    BY <1>2 DEF Goes, SupState, Managed
  <2>2. ReportInv(s)'
    BY <1>2 DEF Goes, ReportInv, Unstarted, SupState, Undecided
  <2> QED BY <1>2, <2>1, <2>2, ReapsInv DEF SupState, Managed, ReportInv, Undecided
<1>3. ASSUME sup[s].pc \in {"stopping", "grace"}, Becomes(s, "reaped"), GoesWith(s, "dropping", "ok"),
             UNCHANGED <<world, failures, spawning, files, diagnostics>>
      PROVE  SuperviseInv'
  <2> DEFINE n == [sup[s] EXCEPT !.pc = "dropping", !.outcome = "ok"]
  <2>1. n \in SupState /\ sup' = [sup EXCEPT ![s] = n]
    BY <1>3 DEF GoesWith, SupState, Managed
  <2>2. ReportInv(s)'
    BY <1>3 DEF GoesWith, ReportInv, Unstarted, SupState, Undecided
  <2> QED BY <1>3, <2>1, <2>2, ReapsInv DEF SupState, Managed, ReportInv, Undecided
<1>4. CASE DropChild(s)
  <2> DEFINE n == [sup[s] EXCEPT !.pc = "dropping"]
  <2>1. n \in SupState /\ sup' = [sup EXCEPT ![s] = n]
    BY <1>4 DEF DropChild, Goes, SupState, Managed
  <2>2. ReportInv(s)'
    BY <1>4 DEF DropChild, Goes, ReportInv, Unstarted, SupState, Undecided
  <2>3. sup[s].pc = "emergency" /\ Becomes(s, "reaped")
        /\ UNCHANGED <<world, failures, spawning, files, diagnostics>>
    BY <1>4 DEF DropChild
  <2> QED BY <2>1, <2>2, <2>3, ReapsInv DEF SupState, Managed, ReportInv, Undecided
<1> QED BY <1>1, <1>2, <1>3, <1>4 DEF TryWait, StopChild, Grace

\* The front of the queue that is older than the window is well defined.
LEMMA PrunedSuffix ==
    ASSUME NEW times \in Seq(Nat), now \in Nat
    PROVE  \E p \in 0..Len(times) :
              /\ Pruned(times) = SubSeq(times, p + 1, Len(times))
              /\ \A k \in 1..p : now - times[k] >= CrashWindow
<1> DEFINE Old(t) == now - t >= CrashWindow
           L == Len(times)
           OK(n) == (\A k \in 1..n : Old(times[k])) /\ (n < L => ~ Old(times[n + 1]))
           T == {n \in 0..L : n < L => ~ Old(times[n + 1])}
<1>1. L \in Nat /\ T \subseteq Nat /\ L \in T
  OBVIOUS
<1>2. PICK x \in T : \A y \in T : ~(<<y, x>> \in OpToRel(<, Nat))
  <2> HIDE DEF T
  <2> QED BY <1>1, NatLessThanWellFounded, WFMin, Zenon
<1>3. \A y \in T : ~(y < x)
  <2> HIDE DEF T
  <2> QED BY <1>1, <1>2 DEF OpToRel
<1>4. \A k \in 1..x : Old(times[k])
  <2> TAKE k \in 1..x
  <2>1. x \in 0..L /\ k \in Nat /\ k - 1 \in 0..L /\ k - 1 < x /\ k - 1 < L /\ (k - 1) + 1 = k
    BY <1>1
  <2>2. k - 1 \notin T
    BY <1>3, <2>1
  <2> QED BY <2>1, <2>2
<1>5. \E n \in 0..L : OK(n)
  BY <1>4
<1>6. PICK p \in 0..L : OK(p) /\ p = CHOOSE n \in 0..L : OK(n)
  <2> HIDE DEF OK, L
  <2> QED BY <1>5
<1>7. Pruned(times) = SubSeq(times, p + 1, L)
  BY <1>6 DEF Pruned
<1> QED BY <1>6, <1>7

\* The entries behind the first p.
LEMMA SuffixProperties ==
    ASSUME NEW c \in Seq(Nat), NEW p \in 0..Len(c)
    PROVE  /\ SubSeq(c, p + 1, Len(c)) \in Seq(Nat) /\ Len(SubSeq(c, p + 1, Len(c))) = Len(c) - p
           /\ \A k \in 1..(Len(c) - p) : SubSeq(c, p + 1, Len(c))[k] = c[p + k]
<1>1. p \in Nat /\ Len(c) \in Nat /\ p <= Len(c) /\ p + 1 \in Int /\ Len(c) \in Int
  OBVIOUS
<1>2. \A i \in (p + 1)..Len(c) : c[i] \in Nat
  BY <1>1
<1> DEFINE t == SubSeq(c, p + 1, Len(c))
<1>3. /\ t \in Seq(Nat) /\ Len(t) = IF p + 1 <= Len(c) THEN Len(c) - (p + 1) + 1 ELSE 0
      /\ \A i \in 1..(Len(c) - (p + 1) + 1) : t[i] = c[p + 1 + i - 1]
  <2> DEFINE m == p + 1
             l == Len(c)
  <2> HIDE DEF m, l
  <2>1. m \in Int /\ l \in Int /\ \A i \in m..l : c[i] \in Nat
    BY <1>1, <1>2 DEF m, l
  <2>2. /\ SubSeq(c, m, l) \in Seq(Nat) /\ Len(SubSeq(c, m, l)) = IF m <= l THEN l - m + 1 ELSE 0
        /\ \A i \in 1..(l - m + 1) : SubSeq(c, m, l)[i] = c[m + i - 1]
    BY <2>1, SubSeqProperties
  <2> QED BY <2>2 DEF m, l
<1> HIDE DEF t
<1>4. Len(t) = Len(c) - p
  BY <1>1, <1>3
<1>5. ASSUME NEW k \in 1..(Len(c) - p) PROVE t[k] = c[p + k]
  <2>1. k \in 1..(Len(c) - (p + 1) + 1) /\ p + 1 + k - 1 = p + k
    BY <1>1
  <2> QED BY <1>3, <2>1
<1> QED BY <1>3, <1>4, <1>5 DEF t

\* A restart is remembered, and the window never holds more than allowed.
LEMMA RestartsInWindow ==
    ASSUME NEW s \in Supervisors, NEW r \in Seq(Nat), NEW c \in Seq(Nat), now \in Nat,
           Len(r) - Len(c) >= 0, \A k \in 1..Len(c) : c[k] = r[(Len(r) - Len(c)) + k],
           \A i \in 1..(Len(r) - Len(c)) : now - r[i] >= CrashWindow,
           \A i, j \in DOMAIN r :
             (i <= j /\ r[j] - r[i] < CrashWindow) => j - i + 1 <= MaxRestarts[s],
           ~ AtLimit(s, Pruned(c)),
           NEW rr, NEW cc, rr = Append(r, now), cc = Append(Pruned(c), now)
    PROVE  /\ rr \in Seq(Nat) /\ cc \in Seq(Nat)
           /\ Len(rr) - Len(cc) >= 0 /\ \A k \in 1..Len(cc) : cc[k] = rr[(Len(rr) - Len(cc)) + k]
           /\ \A i \in 1..(Len(rr) - Len(cc)) : now - rr[i] >= CrashWindow
           /\ \A i, j \in DOMAIN rr :
                (i <= j /\ rr[j] - rr[i] < CrashWindow) => j - i + 1 <= MaxRestarts[s]
<1>1. PICK p \in 0..Len(c) : /\ Pruned(c) = SubSeq(c, p + 1, Len(c))
                             /\ \A k \in 1..p : now - c[k] >= CrashWindow
  BY PrunedSuffix
<1> DEFINE kept == SubSeq(c, p + 1, Len(c))
           R == Len(r)
           L == Len(c)
<1>2. R \in Nat /\ L \in Nat /\ p \in Nat /\ p <= L /\ L <= R
  BY <1>1
<1>3. kept \in Seq(Nat) /\ Len(kept) = L - p /\ \A k \in 1..(L - p) : kept[k] = c[p + k]
  BY <1>1, SuffixProperties
<1>4. /\ rr \in Seq(Nat) /\ Len(rr) = R + 1 /\ rr[R + 1] = now
      /\ \A i \in 1..R : rr[i] = r[i] /\ r[i] \in Nat
  BY <1>2, AppendProperties
<1> HIDE DEF kept
<1>5. cc = Append(kept, now)
  BY <1>1 DEF kept
<1>6. /\ cc \in Seq(Nat) /\ Len(cc) = (L - p) + 1 /\ cc[(L - p) + 1] = now
      /\ \A i \in 1..(L - p) : cc[i] = kept[i]
  BY <1>2, <1>3, <1>5, AppendProperties
<1>7. MaxRestarts[s] \in Nat /\ CrashWindow \in Nat /\ CrashWindow > 0 /\ L - p < MaxRestarts[s]
  <2>1. MaxRestarts[s] \in Nat /\ CrashWindow \in Nat /\ CrashWindow > 0
    BY SuperviseAssumption
  <2>2. ~(Len(kept) >= MaxRestarts[s])
    BY <1>1 DEF AtLimit, kept
  <2> QED BY <1>2, <1>3, <2>1, <2>2
<1>8. /\ \A k \in 1..L : c[k] = r[(R - L) + k]
      /\ \A i \in 1..(R - L) : now - r[i] >= CrashWindow
      /\ \A i, j \in 1..R : (i <= j /\ r[j] - r[i] < CrashWindow) => j - i + 1 <= MaxRestarts[s]
  <2>1. DOMAIN r = 1..R
    BY LenProperties
  <2> QED BY <2>1, Zenon
<1> HIDE DEF R, L
<1>9. ASSUME NEW k \in 1..((L - p) + 1) PROVE cc[k] = rr[((R - L) + p) + k]
  <2>1. CASE k = (L - p) + 1
    <3>1. ((R - L) + p) + k = R + 1
      BY <1>2, <2>1
    <3> QED BY <1>4, <1>6, <2>1, <3>1
  <2>2. CASE k # (L - p) + 1
    <3>1. k \in 1..(L - p) /\ p + k \in 1..L /\ (R - L) + (p + k) \in 1..R
      BY <1>2, <2>2
    <3>2. cc[k] = c[p + k] /\ c[p + k] = r[(R - L) + (p + k)]
      BY <1>3, <1>6, <1>8, <3>1
    <3>3. ((R - L) + p) + k = (R - L) + (p + k)
      BY <1>2, <3>1
    <3> QED BY <1>4, <3>1, <3>2, <3>3
  <2> QED BY <2>1, <2>2
<1>10. ASSUME NEW i \in 1..((R - L) + p) PROVE now - rr[i] >= CrashWindow
  <2>1. i \in 1..R /\ rr[i] = r[i]
    BY <1>2, <1>4
  <2>2. CASE i <= R - L
    BY <1>2, <1>8, <2>1, <2>2
  <2>3. CASE ~(i <= R - L)
    <3>1. i - (R - L) \in 1..p /\ i - (R - L) \in 1..L /\ (R - L) + (i - (R - L)) = i
      BY <1>2, <2>1, <2>3
    <3>2. c[i - (R - L)] = r[i]
      BY <1>8, <3>1
    <3> QED BY <1>1, <2>1, <3>1, <3>2
  <2> QED BY <2>2, <2>3
<1>11. ASSUME NEW i \in 1..(R + 1), NEW j \in 1..(R + 1), i <= j, rr[j] - rr[i] < CrashWindow
       PROVE  j - i + 1 <= MaxRestarts[s]
  <2>1. CASE j # R + 1
    <3>1. i \in 1..R /\ j \in 1..R
      BY <1>2, <1>11, <2>1
    <3> QED BY <1>4, <1>8, <1>11, <3>1
  <2>2. CASE j = R + 1
    <3>1. ~(i <= (R - L) + p)
      <4>1. SUFFICES ASSUME i <= (R - L) + p PROVE FALSE
        OBVIOUS
      <4>2. i \in 1..((R - L) + p) /\ i \in 1..R
        BY <1>2, <4>1
      <4>3. rr[i] \in Nat /\ now - rr[i] >= CrashWindow /\ now - rr[i] < CrashWindow
        BY <1>4, <1>10, <1>11, <2>2, <4>2
      <4> DEFINE d == now - rr[i]
      <4>4. d >= CrashWindow /\ d < CrashWindow
        BY <4>3, Zenon
      <4>5. \A a, b \in Nat : a - b \in Int
        OBVIOUS
      <4>6. d \in Int
        BY <4>3, <4>5, Zenon
      <4> HIDE DEF d
      <4> QED BY <1>7, <4>4, <4>6
    <3> QED BY <1>2, <1>7, <2>2, <3>1
  <2> QED BY <2>1, <2>2
<1>12. Len(rr) - Len(cc) = (R - L) + p /\ DOMAIN rr = 1..(R + 1) /\ (R - L) + p >= 0
  BY <1>2, <1>4, <1>6
<1> QED BY <1>4, <1>6, <1>9, <1>10, <1>11, <1>12

LEMMA ExitedInv ==
    ASSUME SuperviseInv, parent = "up", NEW s \in Supervisors, Exited(s)
    PROVE  SuperviseInv'
<1>0. /\ sup[s] \in SupState /\ sup \in [Supervisors -> SupState] /\ procs \in ProcTable
      /\ failures \in Nat /\ diagnostics \in Nat /\ ReportInv(s)
  BY SupFields
<1>1. ChildInv(s) /\ RestartInv(s) /\ now \in Nat
  BY DEF SuperviseInv, SuperviseTypeOK
<1>2. sup[s].pc = "exited" /\ sup[s].outcome = "none"
  BY <1>0 DEF Exited, ReportInv, Undecided
<1> DEFINE r == sup[s].restarted
           c == sup[s].crashes
           kept == Pruned(c)
<1>3. CASE AtLimit(s, kept)
  <2> DEFINE n == [sup[s] EXCEPT !.pc = "dropping", !.outcome = "limit", !.crashes = <<>>]
  <2>1. n \in SupState
    <3>1. <<>> \in Seq(Nat)
      OBVIOUS
    <3> QED BY <1>0, <3>1 DEF SupState, Managed
  <2>2. sup' = [sup EXCEPT ![s] = n] /\ UNCHANGED <<world, failures, procs, spawning, files, diagnostics>>
    BY <1>3 DEF Exited
  <2>3. ThreadTurns(s, n)
    BY <1>0, <1>2, <2>1, <2>2 DEF ThreadTurns, SupState, Managed
  <2>4. sup'[s] = n /\ procs' = procs
    BY <1>0, <2>2
  <2>5. ChildInv(s)'
    BY <1>1, <1>2, <2>4 DEF ChildInv, AllReaped, Childless
  <2>6. ReportInv(s)'
    BY <1>0, <1>2, <2>4 DEF ReportInv, Unstarted, Undecided, SupState
  <2>7. RestartInv(s)'
    BY <1>0, <1>1, <2>4 DEF RestartInv, SupState
  <2> QED BY <2>3, <2>5, <2>6, <2>7, TurnsInv
<1>4. CASE ~ AtLimit(s, kept)
  <2> DEFINE cc == Append(kept, now)
             rr == Append(r, now)
             n == [sup[s] EXCEPT !.pc = "backoff", !.crashes = cc, !.restarted = rr]
  <2>1. r \in Seq(Nat) /\ c \in Seq(Nat)
    BY <1>0 DEF SupState
  <2>2. /\ rr \in Seq(Nat) /\ cc \in Seq(Nat)
        /\ Len(rr) - Len(cc) >= 0 /\ \A k \in 1..Len(cc) : cc[k] = rr[(Len(rr) - Len(cc)) + k]
        /\ \A i \in 1..(Len(rr) - Len(cc)) : now - rr[i] >= CrashWindow
        /\ \A i, j \in DOMAIN rr :
             (i <= j /\ rr[j] - rr[i] < CrashWindow) => j - i + 1 <= MaxRestarts[s]
    <3> HIDE DEF r, c, kept
    <3>1. /\ Len(r) - Len(c) >= 0 /\ \A k \in 1..Len(c) : c[k] = r[(Len(r) - Len(c)) + k]
          /\ \A i \in 1..(Len(r) - Len(c)) : now - r[i] >= CrashWindow
          /\ \A i, j \in DOMAIN r :
              (i <= j /\ r[j] - r[i] < CrashWindow) => j - i + 1 <= MaxRestarts[s]
      BY <1>1, <1>2 DEF RestartInv, r, c
    <3>2. ~ AtLimit(s, Pruned(c))
      BY <1>4 DEF kept
    <3> QED BY <1>1, <2>1, <3>1, <3>2, RestartsInWindow DEF kept
  <2> HIDE DEF cc, rr
  <2>3. sup' = [sup EXCEPT ![s] = n] /\ UNCHANGED <<world, failures, procs, spawning, files, diagnostics>>
    BY <1>4 DEF Exited, cc, rr
  <2>4. n \in SupState
    BY <1>0, <2>2 DEF SupState, Managed
  <2>5. ThreadTurns(s, n)
    BY <1>0, <1>2, <2>3, <2>4 DEF ThreadTurns, SupState, Managed
  <2>6. sup'[s] = n /\ procs' = procs /\ now' = now
    BY <1>0, <2>3 DEF world
  <2>7. ChildInv(s)'
    BY <1>1, <1>2, <2>6 DEF ChildInv, AllReaped, Childless
  <2>8. ReportInv(s)'
    BY <1>0, <1>2, <2>6 DEF ReportInv, Unstarted, Undecided, SupState
  <2>9. n.crashes = cc /\ n.restarted = rr
    BY <1>0 DEF SupState
  <2>10. RestartInv(s)'
    BY <2>2, <2>6, <2>9 DEF RestartInv
  <2> QED BY <2>5, <2>7, <2>8, <2>10, TurnsInv
<1> QED BY <1>3, <1>4

\* What the invariant says of the parts every action reads.
LEMMA InvParts ==
    ASSUME SuperviseInv
    PROVE  /\ sup \in [Supervisors -> SupState] /\ procs \in ProcTable
           /\ queue \in Seq(Supervisors) /\ registry \in SUBSET Fds /\ fds \in FdTable
           /\ spawner \in [phase : {"idle", "piped", "forked"}, fd : Fds \cup {NoFd},
                            snapshot : SUBSET Fds, table : FdTable \cup {<<>>}]
           /\ parent \in {"up", "dead"} /\ platform \in {"unknown"} \cup Platforms
           /\ now \in Nat /\ failures \in Nat /\ diagnostics \in Nat
           /\ QueueInv /\ FilesInv /\ NoFd \notin Fds
           /\ \A s \in Supervisors : ReportInv(s) /\ RestartInv(s)
           /\ parent = "up" => \A s \in Supervisors : ChildInv(s)
BY SuperviseAssumption DEF SuperviseInv, SuperviseTypeOK, ProcTable, NoFd

\* What does not depend on who is next: a supervisor that a step leaves alone.
LEMMA LeftAlone ==
    ASSUME SuperviseInv, NEW t \in Supervisors, sup'[t] = sup[t], now' = now
    PROVE  ReportInv(t)' /\ RestartInv(t)'
BY DEF SuperviseInv, ReportInv, RestartInv

LEMMA CheckStopInv ==
    ASSUME SuperviseInv, parent = "up", NEW s \in Supervisors, CheckStop(s)
    PROVE  SuperviseInv'
<1>0. /\ sup[s] \in SupState /\ sup \in [Supervisors -> SupState] /\ procs \in ProcTable
      /\ failures \in Nat /\ diagnostics \in Nat /\ ReportInv(s)
  BY SupFields
<1>1. CASE sup[s].asked
  <2> DEFINE n == [sup[s] EXCEPT !.pc = "ended", !.outcome = "ok"]
  <2>1. ThreadTurns(s, n) /\ procs' = procs
    BY <1>0, <1>1 DEF CheckStop, GoesWith, ThreadTurns, SupState, Managed, Childless, spawning
  <2>2. ReportInv(s)'
    BY <1>0, <1>1 DEF CheckStop, GoesWith, ReportInv, Unstarted, SupState, Undecided
  <2> QED BY <1>0, <1>1, <2>1, <2>2, MovesInv DEF SupState, CheckStop, Childless, ReportInv, Undecided
<1>2. CASE ~ sup[s].asked
  <2> DEFINE n == [sup[s] EXCEPT !.pc = "spawning"]
  <2>1. /\ sup' = [sup EXCEPT ![s] = n] /\ queue' = Append(queue, s) /\ sup[s].pc = "check"
        /\ UNCHANGED <<world, failures, procs, spawner, files, diagnostics>>
    BY <1>2 DEF CheckStop, Goes
  <2>2. n \in SupState /\ n.writer = sup[s].writer /\ n.pc = "spawning"
        /\ n.crashes = sup[s].crashes /\ n.restarted = sup[s].restarted /\ n.outcome = sup[s].outcome
        /\ n.handle = sup[s].handle /\ n.report = sup[s].report
    BY <1>0 DEF SupState, Undecided
  <2> HIDE DEF n
  <2>3. \A t \in Supervisors : sup'[t] = IF t = s THEN n ELSE sup[t]
    BY <1>0, <2>1
  <2>4. /\ queue \in Seq(Supervisors) /\ queue' \in Seq(Supervisors) /\ Len(queue') = Len(queue) + 1
        /\ \A i \in 1..Len(queue) : queue'[i] = queue[i] /\ queue[i] \in Supervisors
        /\ queue'[Len(queue) + 1] = s
        /\ queue # <<>> => Head(queue') = Head(queue) /\ Head(queue) = queue[1] /\ 1 \in 1..Len(queue)
        /\ queue' # <<>>
    BY <2>1, InvParts
  <2>5. SuperviseTypeOK'
    BY <1>0, <2>1, <2>2, <2>4 DEF SuperviseInv, SuperviseTypeOK, world, files
  <2>6. QueueInv'
    <3>1. \A i \in 1..Len(queue) : queue[i] # s
      BY <2>1 DEF SuperviseInv, QueueInv
    <3>2. Len(queue) \in Nat
      BY <2>4
    <3>3. ASSUME NEW i \in 1..Len(queue') PROVE i = Len(queue) + 1 \/ i \in 1..Len(queue)
      BY <2>4, <3>2
    <3>4. \A i \in 1..Len(queue') : sup'[queue'[i]].pc = "spawning"
      BY <2>2, <2>3, <2>4, <3>1, <3>3 DEF SuperviseInv, QueueInv
    <3>5. \A i, j \in 1..Len(queue') : queue'[i] = queue'[j] => i = j
      BY <2>4, <3>1, <3>3 DEF SuperviseInv, QueueInv
    <3> QED BY <3>4, <3>5 DEF QueueInv
  <2>7. FilesInv'
    BY <2>1, <2>2, <2>3, <2>4 DEF SuperviseInv, FilesInv, files, Managed
  <2>8. ASSUME NEW t \in Supervisors PROVE ChildInv(t)'
    <3>1. ChildInv(t) /\ procs' = procs
      BY <2>1 DEF SuperviseInv
    <3>2. Forking(t)' <=> Forking(t)
      BY <2>1, <2>4 DEF SuperviseInv, FilesInv, Forking
    <3> QED BY <2>1, <2>2, <2>3, <3>1, <3>2 DEF ChildInv, AllReaped, Childless
  <2>9. ASSUME NEW t \in Supervisors PROVE ReportInv(t)' /\ RestartInv(t)'
    <3>1. now' = now
      BY <2>1 DEF world
    <3>2. CASE t # s
      BY <2>3, <3>1, <3>2, LeftAlone
    <3>3. CASE t = s
      <4>1. ReportInv(s)'
        BY <1>0, <2>1, <2>2, <2>3 DEF ReportInv, Undecided, Unstarted
      <4>2. RestartInv(s)
        BY InvParts
      <4>3. RestartInv(s)'
        BY <2>2, <2>3, <3>1, <4>2 DEF RestartInv
      <4> QED BY <3>3, <4>1, <4>3
    <3> QED BY <3>2, <3>3
  <2> QED BY <2>1, <2>5, <2>6, <2>7, <2>8, <2>9 DEF SuperviseInv, world
<1> QED BY <1>1, <1>2

LEMMA DropWriterInv ==
    ASSUME SuperviseInv, parent = "up", NEW s \in Supervisors, DropWriter(s)
    PROVE  SuperviseInv'
<1>0. /\ sup[s] \in SupState /\ sup \in [Supervisors -> SupState] /\ ReportInv(s) /\ RestartInv(s)
  BY InvParts
<1> DEFINE w == sup[s].writer
           n == [sup[s] EXCEPT !.writer = NoFd, !.pc = AfterDrop(s)]
<1>1. /\ sup' = [sup EXCEPT ![s] = n] /\ sup[s].pc = "dropping" /\ spawner.phase = "idle"
      /\ registry' = registry \ {w} /\ fds' = [fds EXCEPT ![w] = "free"]
      /\ UNCHANGED <<world, failures, procs, spawning, diagnostics>>
  BY DEF DropWriter, RegistryFree
<1>2. /\ AfterDrop(s) \in {"check", "ended", "failed"}
      /\ AfterDrop(s) = "check" => sup[s].outcome = "none"
      /\ AfterDrop(s) = "ended" => sup[s].outcome = "ok"
      /\ AfterDrop(s) = "failed" => sup[s].outcome \notin {"none", "ok"}
  BY DEF AfterDrop
<1>3. /\ n \in SupState /\ n.pc = AfterDrop(s) /\ n.writer = NoFd /\ n.handle = sup[s].handle
      /\ n.crashes = sup[s].crashes /\ n.restarted = sup[s].restarted /\ n.outcome = sup[s].outcome
      /\ n.report = sup[s].report
  BY <1>0, <1>2 DEF SupState, Childless
<1>4. w \in registry /\ w \in Fds
  BY <1>1, InvParts DEF FilesInv, Managed
<1> HIDE DEF n, w
<1>5. \A t \in Supervisors : sup'[t] = IF t = s THEN n ELSE sup[t]
  BY <1>0, <1>1
<1>6. SuperviseTypeOK'
  BY <1>0, <1>1, <1>3 DEF SuperviseInv, SuperviseTypeOK, world, spawning, FdTable
<1>7. QueueInv'
  <2>1. UNCHANGED queue /\ \A i \in 1..Len(queue) : queue[i] \in Supervisors /\ queue[i] # s
    BY <1>1, InvParts DEF QueueInv, spawning
  <2> QED BY <1>5, <2>1 DEF SuperviseInv, QueueInv
<1>8. FilesInv'
  <2>1. FilesInv /\ UNCHANGED <<queue, spawner>> /\ NoFd \notin Fds /\ fds \in FdTable
    BY <1>1, InvParts DEF spawning
  <2>2. \A f \in Fds : fds'[f] = IF f = w THEN "free" ELSE fds[f]
    BY <1>1, <2>1 DEF FdTable
  <2>3. \A t \in Supervisors : t # s => sup[t].writer # w
    BY <1>4, <2>1 DEF FilesInv, w
  <2> QED BY <1>1, <1>2, <1>3, <1>4, <1>5, <2>1, <2>2, <2>3 DEF FilesInv, Managed
<1>9. ASSUME NEW t \in Supervisors PROVE ChildInv(t)'
  <2>1. ChildInv(t) /\ procs' = procs /\ UNCHANGED <<queue, spawner>>
    BY <1>1 DEF SuperviseInv, spawning
  <2> QED BY <1>1, <1>2, <1>3, <1>5, <2>1 DEF ChildInv, AllReaped, Childless, Forking
<1>10. ASSUME NEW t \in Supervisors PROVE ReportInv(t)' /\ RestartInv(t)'
  <2>1. now' = now
    BY <1>1 DEF world
  <2>2. CASE t # s
    BY <1>5, <2>1, <2>2, LeftAlone
  <2>3. CASE t = s
    <3>1. ReportInv(s)'
      BY <1>0, <1>1, <1>2, <1>3, <1>5 DEF ReportInv, Undecided, Unstarted
    <3>2. RestartInv(s)'
      BY <1>0, <1>3, <1>5, <2>1 DEF RestartInv
    <3> QED BY <2>3, <3>1, <3>2
  <2> QED BY <2>2, <2>3
<1> QED BY <1>1, <1>6, <1>7, <1>8, <1>9, <1>10 DEF SuperviseInv, world

\* The supervisor the spawner works for.
LEMMA HeadFacts ==
    ASSUME SuperviseInv, queue # <<>>
    PROVE  /\ Head(queue) \in Supervisors /\ sup[Head(queue)].pc = "spawning"
           /\ Tail(queue) \in Seq(Supervisors)
           /\ \A i \in 1..Len(Tail(queue)) : /\ Tail(queue)[i] = queue[i + 1] /\ i + 1 \in 1..Len(queue)
                                             /\ Tail(queue)[i] \in Supervisors
                                             /\ Tail(queue)[i] # Head(queue)
<1>1. queue \in Seq(Supervisors) /\ QueueInv
  BY InvParts
<1>2. /\ Len(queue) \in Nat /\ Len(queue) >= 1 /\ Head(queue) = queue[1]
      /\ Tail(queue) \in Seq(Supervisors) /\ Len(Tail(queue)) = Len(queue) - 1
      /\ \A i \in 1..Len(Tail(queue)) : Tail(queue)[i] = queue[i + 1]
  BY <1>1
<1>3. \A i \in 1..Len(Tail(queue)) : i + 1 \in 1..Len(queue) /\ i + 1 # 1
  BY <1>2
<1>4. 1 \in 1..Len(queue) /\ \A i \in 1..Len(queue) : queue[i] \in Supervisors
  BY <1>1, <1>2
<1> QED BY <1>1, <1>2, <1>3, <1>4 DEF QueueInv

\* The rest of the queue stays in order when its head is served.
LEMMA ServedQueue ==
    ASSUME SuperviseInv, queue # <<>>, queue' = Tail(queue), NEW n,
           sup' = [sup EXCEPT ![Head(queue)] = n]
    PROVE  QueueInv'
<1>1. queue \in Seq(Supervisors) /\ QueueInv /\ sup \in [Supervisors -> SupState]
  BY InvParts
<1>2. ASSUME NEW i \in 1..Len(queue') PROVE sup'[queue'[i]].pc = "spawning"
  BY <1>1, <1>2, HeadFacts DEF QueueInv
<1>3. ASSUME NEW i \in 1..Len(queue'), NEW j \in 1..Len(queue'), queue'[i] = queue'[j] PROVE i = j
  <2>1. queue[i + 1] = queue[j + 1] /\ i + 1 \in 1..Len(queue) /\ j + 1 \in 1..Len(queue)
    BY <1>3, HeadFacts
  <2>2. i + 1 = j + 1
    BY <1>1, <2>1 DEF QueueInv
  <2> QED BY <2>2
<1> QED BY <1>2, <1>3 DEF QueueInv

LEMMA OpenPipeInv ==
    ASSUME SuperviseInv, parent = "up", NEW f \in Fds, OpenPipe(f)
    PROVE  SuperviseInv'
<1>1. /\ queue # <<>> /\ spawner.phase = "idle" /\ fds[f] = "free" /\ fds' = [fds EXCEPT ![f] = "writer"]
      /\ spawner' = [phase |-> "piped", fd |-> f, snapshot |-> registry \cup {f}, table |-> <<>>]
      /\ UNCHANGED <<world, failures, sup, procs, registry, queue, diagnostics>>
  BY DEF OpenPipe, Lowest
<1>2. SuperviseTypeOK'
  BY <1>1 DEF SuperviseInv, SuperviseTypeOK, world, FdTable
<1>3. QueueInv'
  BY <1>1 DEF SuperviseInv, QueueInv
<1>4. FilesInv'
  <2>1. FilesInv /\ fds \in FdTable
    BY InvParts
  <2>2. \A g \in Fds : fds'[g] = IF g = f THEN "writer" ELSE fds[g]
    BY <1>1, <2>1 DEF FdTable
  <2> QED BY <1>1, <2>1, <2>2 DEF FilesInv
<1>5. ASSUME NEW t \in Supervisors PROVE ChildInv(t)' /\ ReportInv(t)' /\ RestartInv(t)'
  <2>1. ChildInv(t)'
    BY <1>1 DEF SuperviseInv, ChildInv, AllReaped, Forking
  <2> QED BY <1>1, <2>1, LeftAlone DEF world
<1> QED BY <1>1, <1>2, <1>3, <1>4, <1>5 DEF SuperviseInv, world

LEMMA ForkInv ==
    ASSUME SuperviseInv, parent = "up", Fork
    PROVE  SuperviseInv'
<1>0. queue # <<>>
  BY InvParts DEF FilesInv, Fork
<1>head. PICK h \in Supervisors : h = Head(queue) /\ sup[h].pc = "spawning"
  BY <1>0, HeadFacts
<1>1. /\ spawner.phase = "piped" /\ procs' = [procs EXCEPT ![h] = Append(procs[h], "forked")]
      /\ spawner' = [spawner EXCEPT !.phase = "forked", !.table = fds]
      /\ UNCHANGED <<world, failures, sup, files, queue, diagnostics>>
  BY <1>head DEF Fork
<1>2. /\ FilesInv /\ fds \in FdTable /\ procs \in ProcTable /\ queue # <<>>
      /\ spawner \in [phase : {"idle", "piped", "forked"}, fd : Fds \cup {NoFd},
                       snapshot : SUBSET Fds, table : FdTable \cup {<<>>}]
  BY <1>1, InvParts DEF FilesInv
<1>3. h \in Supervisors /\ sup[h].pc = "spawning"
  BY <1>head
<1>4. ChildInv(h) /\ AllReaped(h)
  BY <1>1, <1>3 DEF SuperviseInv, ChildInv, Forking
<1>5. procs' \in ProcTable /\ procs'[h] = Append(procs[h], "forked")
      /\ \A t \in Supervisors : t # h => procs'[t] = procs[t]
  <2>1. procs[h] \in Seq(Living \cup {"zombie", "reaped"}) /\ "forked" \in Living
    BY <1>2, <1>3 DEF ProcTable, Living
  <2>2. Append(procs[h], "forked") \in Seq(Living \cup {"zombie", "reaped"})
    BY <2>1
  <2> QED BY <1>1, <1>2, <1>3, <2>2 DEF ProcTable
<1>6. spawner'.phase = "forked" /\ spawner'.fd = spawner.fd /\ spawner'.snapshot = spawner.snapshot
      /\ spawner'.table = fds /\ UNCHANGED <<registry, fds, queue, sup>>
      /\ spawner' \in [phase : {"idle", "piped", "forked"}, fd : Fds \cup {NoFd},
                       snapshot : SUBSET Fds, table : FdTable \cup {<<>>}]
  BY <1>1, <1>2 DEF files
<1>7. SuperviseTypeOK'
  BY <1>1, <1>5, <1>6 DEF SuperviseInv, SuperviseTypeOK, world, files, ProcTable
<1>8. QueueInv'
  BY <1>6 DEF SuperviseInv, QueueInv
<1>9. FilesInv'
  <2>1. spawner.snapshot = {f \in Fds : fds[f] = "writer"}
    BY <1>1, <1>2, InvParts DEF FilesInv
  <2> QED BY <1>1, <1>2, <1>6, <2>1 DEF FilesInv
<1>10. ASSUME NEW t \in Supervisors PROVE ChildInv(t)' /\ ReportInv(t)' /\ RestartInv(t)'
  <2>1. CASE t = h
    <3> DEFINE new == Append(procs[h], "forked")
    <3>1. procs[h] \in Seq(Living \cup {"zombie", "reaped"})
      BY <1>2, <1>3 DEF ProcTable
    <3>2. \A i \in DOMAIN new : i # Len(new) => i \in DOMAIN procs[h] /\ new[i] = procs[h][i]
      BY <3>1
    <3>3. procs'[h] = new
      BY <1>5
    <3> HIDE DEF new
    <3>4. Forking(h)'
      BY <1>head, <1>6 DEF Forking
    <3>5. ChildInv(h)'
      BY <1>3, <1>4, <1>6, <3>2, <3>3, <3>4 DEF ChildInv, AllReaped, Childless
    <3> QED BY <1>1, <1>6, <2>1, <3>5, LeftAlone DEF world
  <2>2. CASE t # h
    <3>1. ChildInv(t) /\ ~ Forking(t)
      BY <1>head, <1>1 DEF SuperviseInv, Forking
    <3>2. ChildInv(t)'
      BY <1>5, <1>6, <2>2, <3>1 DEF ChildInv, AllReaped
    <3> QED BY <1>1, <1>6, <3>2, LeftAlone DEF world
  <2> QED BY <2>1, <2>2
<1> QED BY <1>1, <1>7, <1>8, <1>9, <1>10 DEF SuperviseInv, world

\* The spawner answers its request: with a child and its write end, or with an error.
LEMMA SpawnedInv ==
    ASSUME SuperviseInv, parent = "up", Spawned
    PROVE  SuperviseInv'
<1>0. queue # <<>>
  BY InvParts DEF FilesInv, Spawned
<1>head. PICK h \in Supervisors : h = Head(queue) /\ sup[h].pc = "spawning"
  BY <1>0, HeadFacts
<1> DEFINE n == [sup[h] EXCEPT !.writer = spawner.fd, !.pc = "poll"]
<1>1. /\ spawner.phase = "forked" /\ registry' = registry \cup {spawner.fd}
      /\ sup' = [sup EXCEPT ![h] = n] /\ spawner' = Idle /\ queue' = Tail(queue)
      /\ UNCHANGED <<world, failures, procs, fds, diagnostics>>
  BY <1>head DEF Spawned
<1>2. FilesInv /\ sup \in [Supervisors -> SupState] /\ queue # <<>> /\ spawner.fd \in Fds
      /\ spawner.fd \notin registry /\ NoFd \notin Fds
  BY <1>1, InvParts DEF FilesInv
<1>3. h \in Supervisors /\ sup[h].pc = "spawning" /\ Tail(queue) \in Seq(Supervisors)
  BY <1>head, <1>2, HeadFacts
<1>4. /\ n \in SupState /\ n.pc = "poll" /\ n.writer = spawner.fd /\ n.handle = sup[h].handle
      /\ n.crashes = sup[h].crashes /\ n.restarted = sup[h].restarted /\ n.outcome = sup[h].outcome
      /\ n.report = sup[h].report
  <2> DEFINE w == spawner.fd
  <2> HIDE DEF w
  <2>1. sup[h] \in SupState /\ w \in Fds \cup {NoFd}
    BY <1>2, <1>3 DEF w
  <2>2. "poll" \in Childless \cup Managed \cup Undecided
    BY DEF Managed
  <2>3. n = [sup[h] EXCEPT !.writer = w, !.pc = "poll"]
    BY DEF w
  <2> HIDE DEF n
  <2> QED BY <2>1, <2>2, <2>3 DEF SupState, w
<1>5. QueueInv'
  BY <1>head, <1>1, <1>2, ServedQueue
<1> HIDE DEF n
<1>6. \A t \in Supervisors : sup'[t] = IF t = h THEN n ELSE sup[t]
  BY <1>1, <1>2, <1>3
<1>7. SuperviseTypeOK'
  BY <1>1, <1>2, <1>3, <1>4 DEF SuperviseInv, SuperviseTypeOK, world, Idle
<1>8. FilesInv'
  BY <1>1, <1>2, <1>3, <1>4, <1>6 DEF FilesInv, Managed, Idle
<1>9. ASSUME NEW t \in Supervisors PROVE ChildInv(t)'
  <2>1. ChildInv(t) /\ procs' = procs /\ (Forking(t) <=> t = h) /\ ~ Forking(t)'
    BY <1>head, <1>1 DEF SuperviseInv, Forking, Idle
  <2> QED BY <1>3, <1>4, <1>6, <2>1 DEF ChildInv, AllReaped, Childless
<1>10. ASSUME NEW t \in Supervisors PROVE ReportInv(t)' /\ RestartInv(t)'
  <2>1. now' = now
    BY <1>1 DEF world
  <2>2. CASE t # h
    BY <1>6, <2>1, <2>2, LeftAlone
  <2>3. CASE t = h
    <3>0. ReportInv(h) /\ RestartInv(h)
      BY <1>3, InvParts
    <3>1. ReportInv(h)'
      BY <1>3, <1>4, <1>6, <3>0 DEF ReportInv, Undecided, Unstarted
    <3>2. RestartInv(h)'
      BY <1>3, <1>4, <1>6, <2>1, <3>0 DEF RestartInv
    <3> QED BY <2>3, <3>1, <3>2
  <2> QED BY <2>2, <2>3
<1> QED BY <1>1, <1>5, <1>7, <1>8, <1>9, <1>10 DEF SuperviseInv, world

LEMMA RefusedInv ==
    ASSUME SuperviseInv, parent = "up", PipeFails \/ ExecFails
    PROVE  SuperviseInv'
<1>0. queue # <<>>
  BY InvParts DEF FilesInv, PipeFails, ExecFails
<1>head. PICK h \in Supervisors : h = Head(queue) /\ sup[h].pc = "spawning"
  BY <1>0, HeadFacts
<1> DEFINE n == [sup[h] EXCEPT !.pc = "failed", !.outcome = "io"]
<1>1. /\ sup' = [sup EXCEPT ![h] = n] /\ spawner' = Idle /\ queue' = Tail(queue)
      /\ UNCHANGED <<world, registry, diagnostics>>
  BY <1>head DEF PipeFails, ExecFails, SpawnRefused, GoesWith
<1>2. FilesInv /\ sup \in [Supervisors -> SupState] /\ queue # <<>> /\ NoFd \notin Fds
      /\ fds \in FdTable /\ procs \in ProcTable /\ failures \in Nat
  BY InvParts DEF FilesInv, PipeFails, ExecFails
<1>3. h \in Supervisors /\ sup[h].pc = "spawning" /\ Tail(queue) \in Seq(Supervisors)
  BY <1>head, <1>2, HeadFacts
<1>4. /\ n \in SupState /\ n.pc = "failed" /\ n.writer = sup[h].writer /\ n.handle = sup[h].handle
      /\ n.crashes = sup[h].crashes /\ n.restarted = sup[h].restarted /\ n.outcome = "io"
      /\ n.report = sup[h].report
  BY <1>2, <1>3 DEF SupState, Childless
<1>5. QueueInv'
  BY <1>head, <1>1, <1>2, ServedQueue
<1>6. /\ procs' \in ProcTable /\ failures' \in Nat /\ AllReaped(h)'
      /\ \A t \in Supervisors : t # h => procs'[t] = procs[t]
  <2>1. CASE PipeFails
    <3>1. AllReaped(h)
      BY <1>3, <2>1 DEF SuperviseInv, ChildInv, Forking, PipeFails
    <3> QED BY <1>2, <2>1, <3>1 DEF PipeFails, AllReaped
  <2>2. CASE ExecFails
    <3>1. Becomes(h, "reaped")
      BY <1>head, <2>2 DEF ExecFails
    <3>2. failures' \in Nat
      BY <1>2, <2>2 DEF ExecFails
    <3> QED BY <1>3, <3>1, <3>2, ReapedTable
  <2> QED BY <2>1, <2>2
<1>7. fds' \in FdTable /\ \A f \in Fds : fds'[f] = "writer" <=> f \in registry
  <2>1. CASE PipeFails
    BY <1>2, <2>1 DEF PipeFails, FilesInv
  <2>2. CASE ExecFails
    <3>1. spawner.phase = "forked" /\ fds' = [fds EXCEPT ![spawner.fd] = "free"]
      BY <1>head, <2>2 DEF ExecFails
    <3> QED BY <1>2, <3>1 DEF FilesInv, FdTable
  <2> QED BY <2>1, <2>2
<1> HIDE DEF n
<1>8. \A t \in Supervisors : sup'[t] = IF t = h THEN n ELSE sup[t]
  BY <1>1, <1>2, <1>3
<1>9. SuperviseTypeOK'
  <2>1. spawner' \in [phase : {"idle", "piped", "forked"}, fd : Fds \cup {NoFd},
                       snapshot : SUBSET Fds, table : FdTable \cup {<<>>}]
    BY <1>1 DEF Idle
  <2> QED BY <1>1, <1>2, <1>3, <1>4, <1>6, <1>7, <2>1 DEF SuperviseInv, SuperviseTypeOK, ProcTable, world
<1>10. FilesInv'
  BY <1>1, <1>2, <1>3, <1>4, <1>7, <1>8 DEF FilesInv, Managed, Idle
<1>11. ASSUME NEW t \in Supervisors PROVE ChildInv(t)'
  <2>1. ChildInv(t) /\ ~ Forking(t)' /\ (t # h => ~ Forking(t))
    BY <1>head, <1>1 DEF SuperviseInv, Forking, Idle
  <2>2. CASE t = h
    BY <1>6, <2>2 DEF ChildInv, AllReaped
  <2>3. CASE t # h
    BY <1>6, <1>8, <2>1, <2>3 DEF ChildInv, AllReaped
  <2> QED BY <2>2, <2>3
<1>12. ASSUME NEW t \in Supervisors PROVE ReportInv(t)' /\ RestartInv(t)'
  <2>1. now' = now
    BY <1>1 DEF world
  <2>2. CASE t # h
    BY <1>8, <2>1, <2>2, LeftAlone
  <2>3. CASE t = h
    <3>0. ReportInv(h) /\ RestartInv(h)
      BY <1>3, InvParts
    <3>1. ReportInv(h)'
      BY <1>3, <1>4, <1>8, <3>0 DEF ReportInv, Undecided, Unstarted
    <3>2. RestartInv(h)'
      BY <1>3, <1>4, <1>8, <2>1, <3>0 DEF RestartInv, ReportInv, Undecided
    <3> QED BY <2>3, <3>1, <3>2
  <2> QED BY <2>2, <2>3
<1> QED BY <1>1, <1>5, <1>9, <1>10, <1>11, <1>12 DEF SuperviseInv, world

\* A child that is not reaped is the last one, and stays unreaped.
LEMMA ChildMovesInv ==
    ASSUME SuperviseInv, NEW c \in Children,
           ChildStep(c) \/ watch_parent(c) \/ ChildExits(c)
    PROVE  SuperviseInv'
<1> DEFINE s == c[1]
           i == c[2]
           P == Living \cup {"zombie", "reaped"}
<1>1. s \in Supervisors /\ i \in DOMAIN procs[s] /\ procs \in [Supervisors -> Seq(P)]
  BY InvParts DEF Children, ChildrenOf, ProcTable
<1>2. procs[s][i] # "reaped" /\ \E state \in P \ {"reaped"} : Moves(c, state)
  BY DEF ChildStep, PreExec, Exec, PipeEnds, Cleanup, watch_parent, ChildExits, In, Living, Executed
<1>3. PICK state \in P \ {"reaped"} : Moves(c, state)
  BY <1>2
<1> DEFINE new == [procs[s] EXCEPT ![i] = state]
<1>4. procs' = [procs EXCEPT ![s] = new]
      /\ UNCHANGED <<world, failures, sup, spawning, files, diagnostics>>
  BY <1>3 DEF Moves
<1>5. /\ new \in Seq(P) /\ Len(new) = Len(procs[s]) /\ DOMAIN new = DOMAIN procs[s]
      /\ \A k \in DOMAIN new : k # i => new[k] = procs[s][k]
  <2> HIDE DEF P, s, i
  <2>1. procs[s] \in Seq(P) /\ i \in 1..Len(procs[s]) /\ state \in P
    BY <1>1, <1>3, LenProperties
  <2> QED BY <2>1, ExceptSeq, LenProperties
<1> HIDE DEF new, s, i, P
<1>6. procs' \in [Supervisors -> Seq(P)] /\ procs'[s] = new
      /\ \A t \in Supervisors : t # s => procs'[t] = procs[t]
  BY <1>1, <1>4, <1>5
<1>7. SuperviseTypeOK'
  BY <1>4, <1>6 DEF SuperviseInv, SuperviseTypeOK, P, world, spawning, files
<1>8. QueueInv' /\ FilesInv'
  BY <1>4 DEF SuperviseInv, QueueInv, FilesInv, spawning, files
<1>9. ASSUME parent = "up", NEW t \in Supervisors PROVE ChildInv(t)'
  <2>1. ChildInv(t) /\ UNCHANGED <<sup, queue, spawner>>
    BY <1>4, <1>9 DEF SuperviseInv, spawning
  <2>2. CASE t = s
    BY <1>1, <1>2, <1>5, <1>6, <2>1, <2>2 DEF ChildInv, AllReaped, Forking
  <2>3. CASE t # s
    BY <1>6, <2>1, <2>3 DEF ChildInv, AllReaped, Forking
  <2> QED BY <2>2, <2>3
<1>10. ASSUME NEW t \in Supervisors PROVE ReportInv(t)' /\ RestartInv(t)'
  BY <1>4, LeftAlone DEF world
<1> QED BY <1>4, <1>7, <1>8, <1>9, <1>10 DEF SuperviseInv, world

\* The application's files, the clock and the diagnostics.
LEMMA EnvironmentInv ==
    ASSUME SuperviseInv, parent = "up", Tick \/ write_diagnostic \/ \E f \in Fds : AppFile(f)
    PROVE  SuperviseInv'
<1>0. now \in Nat /\ diagnostics \in Nat /\ fds \in FdTable /\ FilesInv /\ sup \in [Supervisors -> SupState]
      /\ CrashWindow \in Nat
  BY InvParts, SuperviseAssumption
<1>1. now' \in Nat /\ now' >= now /\ diagnostics' \in Nat
      /\ UNCHANGED <<platform, parent, failures, sup, procs, queue, spawner, registry>>
  BY <1>0 DEF Tick, write_diagnostic, AppFile, world, spawning, files
<1>2. fds' \in FdTable /\ \A f \in Fds : fds'[f] = "writer" <=> fds[f] = "writer"
  <2>1. CASE Tick \/ write_diagnostic
    BY <1>0, <2>1 DEF Tick, write_diagnostic, files
  <2>2. ASSUME NEW f \in Fds, AppFile(f) PROVE fds' \in FdTable /\ \A g \in Fds : fds'[g] = "writer" <=> fds[g] = "writer"
    BY <1>0, <2>2 DEF AppFile, Lowest, FdTable
  <2> QED BY <2>1, <2>2
<1>3. SuperviseTypeOK'
  BY <1>1, <1>2 DEF SuperviseInv, SuperviseTypeOK
<1>4. QueueInv'
  BY <1>1 DEF SuperviseInv, QueueInv
<1>5. FilesInv'
  BY <1>0, <1>1, <1>2 DEF FilesInv
<1>6. ASSUME NEW t \in Supervisors PROVE ChildInv(t)' /\ ReportInv(t)'
  BY <1>1 DEF SuperviseInv, ChildInv, AllReaped, Forking, ReportInv
<1>7. ASSUME NEW t \in Supervisors PROVE RestartInv(t)'
  <2> DEFINE r == sup[t].restarted
             c == sup[t].crashes
  <2>1. RestartInv(t) /\ r \in Seq(Nat) /\ c \in Seq(Nat)
    BY <1>0, InvParts DEF SupState
  <2>2. ASSUME NEW i \in 1..(Len(r) - Len(c)), Len(r) - Len(c) >= 0, now - r[i] >= CrashWindow
        PROVE  now' - r[i] >= CrashWindow
    <3>0. Len(r) \in Nat /\ Len(c) \in Nat
      BY <2>1, LenProperties
    <3>1. i \in 1..Len(r)
      <4> HIDE DEF r, c
      <4> QED BY <2>2, <3>0
    <3>2. r[i] \in Nat
      BY <2>1, <3>1, ElementOfSeq
    <3> HIDE DEF r, c
    <3> QED BY <1>0, <1>1, <2>2, <3>2
  <2> QED BY <1>1, <2>1, <2>2 DEF RestartInv
<1> QED BY <1>1, <1>3, <1>4, <1>5, <1>6, <1>7 DEF SuperviseInv

LEMMA ParentDiesInv ==
    ASSUME SuperviseInv, NEW os \in Platforms, ParentDies(os)
    PROVE  SuperviseInv'
<1> DEFINE P == Living \cup {"zombie", "reaped"}
<1>0. procs \in [Supervisors -> Seq(P)] /\ CrashWindow \in Nat
  BY InvParts, SuperviseAssumption DEF ProcTable
<1>1. \A state \in P : AfterDeath(os, state) \in P
  BY DEF AfterDeath
<1> HIDE DEF P
<1>2. procs' \in [Supervisors -> Seq(P)]
  <2>1. ASSUME NEW s \in Supervisors
        PROVE  [i \in DOMAIN procs[s] |-> AfterDeath(os, procs[s][i])] \in Seq(P)
    <3>1. procs[s] \in Seq(P)
      BY <1>0
    <3>2. Len(procs[s]) \in Nat /\ procs[s] \in [1..Len(procs[s]) -> P]
      BY <3>1, LenProperties
    <3>3. [i \in DOMAIN procs[s] |-> AfterDeath(os, procs[s][i])] \in [1..Len(procs[s]) -> P]
      BY <1>1, <3>2
    <3> QED BY <3>2, <3>3, SeqDef
  <2> QED BY <2>1 DEF ParentDies
<1>3. /\ parent' = "dead" /\ platform' = os /\ now' = 0 /\ failures' = 0 /\ diagnostics' = 0
      /\ sup' = [s \in Supervisors |-> Unstarted] /\ queue' = <<>> /\ spawner' = Idle
      /\ registry' = {} /\ fds' = [f \in Fds |-> "free"]
  BY DEF ParentDies
<1>4. Unstarted \in SupState /\ <<>> \in Seq(Supervisors)
  BY DEF Unstarted, SupState, Childless
<1>5. SuperviseTypeOK'
  BY <1>2, <1>3, <1>4 DEF SuperviseTypeOK, P, Idle, FdTable
<1>6. QueueInv' /\ FilesInv'
  BY <1>3 DEF QueueInv, FilesInv, Idle, Unstarted, Managed
<1>7. ASSUME NEW s \in Supervisors PROVE ReportInv(s)' /\ RestartInv(s)' /\ sup'[s] = Unstarted
  BY <1>0, <1>3 DEF ReportInv, RestartInv, Unstarted, Undecided
<1> QED BY <1>3, <1>5, <1>6, <1>7 DEF SuperviseInv

LEMMA InitSuperviseInv == SuperviseInit => SuperviseInv
<1> SUFFICES ASSUME SuperviseInit PROVE SuperviseInv
  OBVIOUS
<1>0. Unstarted \in SupState /\ <<>> \in Seq(Supervisors)
      /\ <<>> \in Seq(Living \cup {"zombie", "reaped"}) /\ MaxFailures \in Nat
  BY SuperviseAssumption DEF Unstarted, SupState, Childless
<1>1. SuperviseTypeOK
  BY <1>0 DEF SuperviseInit, SuperviseTypeOK, Idle, FdTable
<1>2. QueueInv /\ FilesInv
  BY DEF SuperviseInit, QueueInv, FilesInv, Idle, Unstarted, Managed
<1>3. ASSUME NEW s \in Supervisors PROVE ReportInv(s) /\ RestartInv(s) /\ ChildInv(s)
  BY DEF SuperviseInit, ReportInv, RestartInv, ChildInv, AllReaped, Unstarted, Undecided
<1> QED BY <1>1, <1>2, <1>3 DEF SuperviseInv, SuperviseInit

LEMMA NextSuperviseInv == SuperviseInv /\ [SuperviseNext]_superviseVars => SuperviseInv'
<1> SUFFICES ASSUME SuperviseInv, [SuperviseNext]_superviseVars PROVE SuperviseInv'
  OBVIOUS
<1>1. CASE UNCHANGED superviseVars
  <2>1. UNCHANGED <<parent, platform, now, failures, sup, procs, queue, spawner, registry, fds, diagnostics>>
    BY <1>1 DEF superviseVars, world, spawning, files
  <2>2. SuperviseTypeOK'
    BY <2>1 DEF SuperviseInv, SuperviseTypeOK
  <2>3. QueueInv'
    BY <2>1 DEF SuperviseInv, QueueInv
  <2>4. FilesInv'
    BY <2>1, InvParts DEF FilesInv
  <2>5. ASSUME NEW s \in Supervisors PROVE parent' = "up" => ChildInv(s)'
    BY <2>1, InvParts DEF ChildInv, AllReaped, Forking
  <2>6. ASSUME NEW s \in Supervisors PROVE ReportInv(s)'
    BY <2>1, InvParts DEF ReportInv
  <2>7. ASSUME NEW s \in Supervisors PROVE RestartInv(s)'
    BY <2>1, InvParts DEF RestartInv
  <2>8. parent' = "dead" => \A s \in Supervisors : sup'[s] = Unstarted
    BY <2>1 DEF SuperviseInv
  <2> QED BY <2>2, <2>3, <2>4, <2>5, <2>6, <2>7, <2>8 DEF SuperviseInv
<1>2. ASSUME parent = "up", NEW s \in Supervisors,
             \/ Start(s) \/ next_event(s) \/ Leave(s, "stop") \/ Leave(s, "drop")
             \/ finish(s) \/ ThreadStep(s) \/ OsCallFails(s)
      PROVE  SuperviseInv'
  BY <1>2, HandleInv, PollInv, WaitInv, ExitedInv, CheckStopInv, DropWriterInv DEF ThreadStep
<1>3. ASSUME parent = "up",
             \/ SpawnerStep \/ ExecFails \/ write_diagnostic \/ Tick
             \/ (\E os \in Platforms : ParentDies(os)) \/ (\E f \in Fds : AppFile(f))
      PROVE  SuperviseInv'
  BY <1>3, OpenPipeInv, ForkInv, SpawnedInv, RefusedInv, EnvironmentInv, ParentDiesInv DEF SpawnerStep
<1>4. ASSUME NEW c \in Children, ChildStep(c) \/ watch_parent(c) \/ ChildExits(c)
      PROVE  SuperviseInv'
  BY <1>4, ChildMovesInv
<1> QED BY <1>1, <1>2, <1>3, <1>4 DEF SuperviseNext, ParentStep

\* Children, write ends, queues and restart counts of all supervisors stay
\* consistent (lifecycle, spawn_here, ManagedChild).
THEOREM SuperviseInvariant == SuperviseSpec => []SuperviseInv
<1>1. SuperviseInit => SuperviseInv
  BY InitSuperviseInv
<1>2. SuperviseInv /\ [SuperviseNext]_superviseVars => SuperviseInv'
  BY NextSuperviseInv
<1> QED BY <1>1, <1>2, PTL DEF SuperviseSpec

\* lifecycle: at most one child is not reaped, none once the thread is
\* over, and no stretch of crash_window_ms restarts more than max_restarts.
THEOREM ChildIsSingle == SuperviseSpec => []OneChild
<1>1. ASSUME SuperviseInv PROVE OneChild
  <2>1. ASSUME parent = "up", NEW s \in Supervisors
        PROVE  /\ Cardinality(Unreaped(s)) <= 1
               /\ sup[s].pc \in {"off", "check", "failed", "ended"} => Unreaped(s) = {}
    <3>1. ChildInv(s)
      BY <1>1, <2>1, InvParts
    <3>2. Unreaped(s) \subseteq {Len(procs[s])}
      BY <3>1 DEF ChildInv, Unreaped
    <3>3. Cardinality({Len(procs[s])}) = 1 /\ IsFiniteSet({Len(procs[s])})
      BY FS_Singleton
    <3>4. Cardinality(Unreaped(s)) <= 1
      BY <3>2, <3>3, FS_Subset
    <3>5. sup[s].pc \in {"off", "check", "failed", "ended"} => Unreaped(s) = {}
      BY <3>1 DEF ChildInv, AllReaped, Childless, Unreaped
    <3> QED BY <3>4, <3>5
  <2>2. ASSUME NEW s \in Supervisors
        PROVE  \A i, j \in DOMAIN sup[s].restarted :
                 (i <= j /\ sup[s].restarted[j] - sup[s].restarted[i] < CrashWindow)
                    => j - i + 1 <= MaxRestarts[s]
    BY <1>1, InvParts DEF RestartInv
  <2> QED BY <2>1, <2>2 DEF OneChild
<1> QED BY <1>1, SuperviseInvariant, PTL

\* spawn_here, ManagedChild::drop: a child's pipe stays open until it is
\* reaped, and a forked child closes all write ends of parent pipes and
\* nothing else.
THEOREM PipesAreKept == SuperviseSpec => []PipesKept
<1>1. ASSUME SuperviseInv PROVE PipesKept
  <2>1. FilesInv /\ sup \in [Supervisors -> SupState]
    BY <1>1, InvParts
  <2>2. ASSUME parent = "up", NEW s \in Supervisors, Unreaped(s) # {}
        PROVE  LET held == IF sup[s].pc = "spawning" THEN spawner.fd ELSE sup[s].writer
               IN  held \in Fds /\ fds[held] = "writer"
    <3>1. ChildInv(s) /\ ~ AllReaped(s) /\ sup[s] \in SupState
      BY <1>1, <2>1, <2>2, InvParts DEF Unreaped, AllReaped
    <3>2. CASE sup[s].pc = "spawning"
      BY <2>1, <3>1, <3>2 DEF ChildInv, Forking, FilesInv
    <3>3. CASE sup[s].pc # "spawning"
      <4>1. sup[s].pc \in Managed
        BY <3>1, <3>3 DEF ChildInv, SupState, Childless, Managed, Undecided
      <4>2. sup[s].writer \in registry /\ sup[s].writer \in Fds
        BY <1>1, <2>1, <4>1, InvParts DEF FilesInv
      <4> QED BY <2>1, <3>3, <4>2 DEF FilesInv
    <3> QED BY <3>2, <3>3
  <2> QED BY <2>1, <2>2 DEF PipesKept, FilesInv
<1> QED BY <1>1, SuperviseInvariant, PTL

\* next_event, stop, drop: when the handle is gone a lifecycle failure has been
\* handed over exactly when there was one.
THEOREM FailuresAreReported == SuperviseSpec => []FailureReported
<1>1. ASSUME SuperviseInv PROVE FailureReported
  <2> SUFFICES ASSUME NEW s \in Supervisors, sup[s].handle = "returned"
               PROVE  IF sup[s].outcome = "ok" THEN sup[s].report = "none"
                      ELSE sup[s].report \in {"read", "stop", "drop", "discarded"}
    BY DEF FailureReported
  <2> QED BY <1>1, InvParts DEF ReportInv, SupState
<1> QED BY <1>1, SuperviseInvariant, PTL

==============================================================================
