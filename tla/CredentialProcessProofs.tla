---------------------- MODULE CredentialProcessProofs ----------------------
(***************************************************************************)
(* Retries, sends and reported statuses of the credential process, for any *)
(* attempts, configurations, crashes and clock changes.  The invariant has *)
(* four parts: what permit, receipt and task of one attempt say about each *)
(* other; the history of an invocation's permits; the sends of a request;  *)
(* and its allowance, which a task changes only while it holds the gate.   *)
(***************************************************************************)
EXTENDS CredentialProcess, FiniteSetTheorems, TLAPS

\* One attempt: a task runs for a consumed permit with an open reservation, a
\* charge was made only by a task that went through "send", and the outcome
\* it then carries is not one that releases.
Sound(a) ==
    /\ task[a].pc # "idle" => Consumed(a) /\ task[a].path \in {"direct", "job"} /\ a \notin concluded
    /\ ledger[a].state # "none" <=> Consumed(a)
    /\ a \in paid => /\ Consumed(a) /\ ledger[a].state # "released"
                     /\ task[a].pc \in {"idle", "finish"}
                     /\ task[a].pc = "finish" => task[a].outcome \notin Unsent
    /\ task[a].pc = "send" => ledger[a].state = "unknown"
    /\ task[a].path = "job" => /\ task[a].pc # "acquire"
                               /\ task[a].pc \in {"resolve", "admit"} => ledger[a].state = "unknown"
    /\ task[a].pc = "finish" => task[a].outcome \in Outcomes
    /\ a \in concluded => Consumed(a)
    /\ Issued(a) /\ permits[a].request # NULL => permits[a].consumed /\ permits[a].finished = 0
    /\ task[a].pc \in {"admit", "acquire", "send"} => task[a].key \in Keys
    /\ task[a].pc \in {"acquire", "send"} => Resolved(a) \/ permits[a].request = task[a].key

\* The permits of an invocation: ordinals differ, one is the latest, and the
\* count carried along them is the number of handoffs.
Before(a) == {b \in Of(a.invocation) : Consumed(b) /\ b.ordinal < a.ordinal}
HistoryInv ==
    /\ IsFiniteSet({a \in Attempts : Issued(a)})
    /\ \A a, b \in Attempts : Issued(a) /\ Issued(b) /\ a.invocation = b.invocation
                                /\ a.ordinal = b.ordinal => a = b
    /\ \A a \in Attempts : Issued(a) =>
          \E b \in Of(a.invocation) : \A c \in Of(a.invocation) : c.ordinal <= b.ordinal
    /\ \A a \in Attempts : Issued(a) =>
          permits[a].accepted = Cardinality(Before(a)) + (IF permits[a].consumed THEN 1 ELSE 0)
    /\ \A a \in Attempts : Consumed(a) =>
          /\ \A b \in Before(a) : ledger[b].state = "released"
          /\ permits[a].accepted <= Max(Allowances)

\* The sends: one per attempt, by a task that is past "send", and as long as
\* it is neither concluded nor resolved the attempt holds its request's key,
\* which no other unresolved attempt does.
SendsInv ==
    /\ IsFiniteSet(sent)
    /\ \A s \in sent : /\ Consumed(s[1]) /\ task[s[1]].pc \in {"idle", "finish"}
                       /\ s[1] \in concluded \/ Resolved(s[1]) \/ permits[s[1]].request = s[2]
                       /\ task[s[1]].pc = "finish" => task[s[1]].key = s[2] /\ task[s[1]].path = s[3]
    /\ \A s, t \in sent : s[1] = t[1] => s = t
    /\ \A a, b \in Attempts :
          /\ Issued(a) /\ Issued(b) /\ a # b
          /\ permits[a].request # NULL /\ permits[a].request = permits[b].request
          => Resolved(a) \/ Resolved(b)

\* The gates: budgeted tasks of one key are in the gate registered for it,
\* and one of them holds it.
GatesInv ==
    /\ \A a \in Attempts :
          /\ task[a].gate # NULL => task[a].key \in Keys /\ gates[task[a].key] = task[a].gate
          /\ task[a].pc \in {"admit", "acquire", "send"} /\ Budgeted(a) => task[a].gate # NULL
          /\ task[a].pc \in {"idle", "resolve"} => task[a].gate = NULL
          /\ task[a].holds => task[a].gate # NULL /\ task[a].pc # "admit"
          /\ task[a].debited => /\ task[a].holds /\ Budgeted(a)
                                /\ task[a].pc \in {"acquire", "send", "finish"}
          /\ task[a].pc \in {"acquire", "send"} /\ Budgeted(a) => task[a].debited
    /\ \A a, b \in Attempts : task[a].holds /\ task[b].holds /\ task[a].gate = task[b].gate => a = b
    /\ \A k \in Keys : gates[k] # NULL => Members(gates[k]) # {}

\* The allowance: the sends held against a request are covered by its debits,
\* and all but the task's own by the count it would restore.
Owed(k) == {s \in SendsOf(k) \ forgiven : s[3] = "direct"}
BudgetInv ==
    RequestAttempts # NULL =>
      /\ \A k \in Keys : /\ Cardinality(Owed(k)) <= Failed(failures[k])
                         /\ Failed(failures[k]) <= RequestAttempts
      /\ \A a \in Attempts : task[a].debited =>
            /\ failures[task[a].key] # NULL
            /\ failures[task[a].key].failed = Failed(task[a].previous) + 1
            /\ Cardinality({s \in Owed(task[a].key) : s[1] # a}) <= Failed(task[a].previous)
      /\ \A s \in sent : s[3] = "direct" /\ task[s[1]].pc = "finish" => task[s[1]].debited

\* The inductive invariant.
CredInv ==
    /\ CredTypeOK
    /\ \A a \in Attempts : Sound(a)
    /\ HistoryInv /\ SendsInv /\ GatesInv /\ BudgetInv

------------------------------------------------------------------------------
(* Rows, tasks and what a step leaves alone.                               *)

\* What the type invariant gives for one attempt.
LEMMA TypeFacts ==
    ASSUME CredTypeOK, NEW a \in Attempts
    PROVE  /\ permits[a] \in Permit \cup {NULL} /\ ledger[a] \in Receipt /\ task[a] \in Task
           /\ Issued(a) => permits[a] \in Permit
           /\ NULL \notin Permit /\ NULL \notin Failure /\ NULL \notin Keys /\ NULL \notin Attempts
BY CredNullAssumption DEF CredTypeOK, Issued

\* Two rows that differ in the retained result at most.
SameRow(p, q) ==
    /\ p = NULL <=> q = NULL
    /\ p # NULL => /\ q.consumed = p.consumed /\ q.accepted = p.accepted /\ q.finished = p.finished
                   /\ q.request = p.request /\ q.status = p.status

\* The step leaves attempt b alone.
Kept(b) ==
    /\ SameRow(permits[b], permits'[b]) /\ ledger'[b] = ledger[b] /\ task'[b] = task[b]
    /\ b \in paid' <=> b \in paid
    /\ b \in concluded' <=> b \in concluded

\* An attempt that is left alone stays sound.
LEMMA SoundKept == ASSUME NEW b \in Attempts, Sound(b), Kept(b) PROVE Sound(b)'
BY DEF Sound, Kept, SameRow, Consumed, Issued, Resolved

\* Purging takes results that are due and nothing else.
LEMMA PurgedRows ==
    ASSUME CredTypeOK, NEW S \in Purges
    PROVE  /\ Purged(S) \in [Attempts -> Permit \cup {NULL}]
           /\ \A a \in Attempts :
                /\ SameRow(permits[a], Purged(S)[a])
                /\ permits[a] = NULL => Purged(S)[a] = NULL
                /\ permits[a] # NULL /\ clock < a.recovery => Purged(S)[a].result = permits[a].result
<1>1. S \subseteq Due /\ \A a \in S : a \in Attempts /\ permits[a] \in Permit /\ permits[a] # NULL /\ a.recovery <= clock
  BY TypeFacts DEF Purges, Due, Issued
<1>2. ASSUME NEW a \in Attempts
      PROVE  /\ Purged(S)[a] \in Permit \cup {NULL} /\ SameRow(permits[a], Purged(S)[a])
             /\ permits[a] = NULL => Purged(S)[a] = NULL
             /\ permits[a] # NULL /\ clock < a.recovery => Purged(S)[a].result = permits[a].result
  <2>1. CASE a \in S
    <3>1. Purged(S)[a] = [permits[a] EXCEPT !.result = FALSE]
      BY <2>1 DEF Purged
    <3>2. Purged(S)[a] \in Permit
      BY <1>1, <2>1, <3>1 DEF Permit
    <3>3. SameRow(permits[a], Purged(S)[a])
      BY <1>1, <2>1, <3>1, <3>2, TypeFacts DEF Permit, SameRow
    <3>4. ~(clock < a.recovery)
      BY <1>1, <2>1, BoundsAssumption DEF CredTypeOK
    <3> QED BY <1>1, <2>1, <3>2, <3>3, <3>4
  <2>2. CASE a \notin S
    BY <2>2, TypeFacts DEF Purged, SameRow
  <2> QED BY <2>1, <2>2
<1>3. Purged(S) = [a \in Attempts |-> Purged(S)[a]]
  BY DEF Purged
<1> QED BY <1>2, <1>3

------------------------------------------------------------------------------
(* Steps that leave a part of the invariant alone.                         *)

\* No permit is issued or handed off, and what was released stays so.
SameHistory ==
    /\ \A b \in Attempts :
          /\ Issued(b)' <=> Issued(b)
          /\ Issued(b) => /\ permits'[b].consumed = permits[b].consumed
                          /\ permits'[b].accepted = permits[b].accepted
    /\ \A b \in Attempts : ledger[b].state = "released" => ledger'[b].state = "released"

\* The history of the invocations then stays as it is.
LEMMA HistoryKept == ASSUME HistoryInv, SameHistory PROVE HistoryInv'
<1>1. \A b \in Attempts : Consumed(b)' <=> Consumed(b)
  BY DEF SameHistory, Consumed, Issued
<1>2. \A a \in Attempts : Of(a.invocation)' = Of(a.invocation) /\ Before(a)' = Before(a)
  BY <1>1 DEF SameHistory, Of, Before, Issued, Consumed
<1>3. {a \in Attempts : Issued(a)}' = {a \in Attempts : Issued(a)}
  BY DEF SameHistory, Issued
<1>4. \A a \in Attempts : Before(a) \subseteq Attempts
  BY DEF Before, Of
<1>5. \A a \in Attempts : Issued(a)' =>
          \E b \in Of(a.invocation)' : \A c \in Of(a.invocation)' : c.ordinal <= b.ordinal
  BY <1>2 DEF SameHistory, HistoryInv, Issued
<1>6. \A a \in Attempts : Issued(a)' =>
          permits'[a].accepted = Cardinality(Before(a)') + (IF permits'[a].consumed THEN 1 ELSE 0)
  BY <1>2 DEF SameHistory, HistoryInv, Issued
<1>7. \A a \in Attempts : Consumed(a)' =>
          /\ \A b \in Before(a)' : ledger'[b].state = "released"
          /\ permits'[a].accepted <= Max(Allowances)
  BY <1>1, <1>2, <1>4 DEF SameHistory, HistoryInv, Consumed
<1> QED BY <1>3, <1>5, <1>6, <1>7 DEF SameHistory, HistoryInv

\* Nothing is sent, and every attempt keeps what its sends refer to.
SameSends ==
    /\ sent' = sent
    /\ \A b \in Attempts :
          /\ Consumed(b) => Consumed(b)'
          /\ task[b].pc \in {"idle", "finish"} => \/ task'[b].pc = "idle"
                                                  \/ /\ task'[b].pc = "finish" /\ task[b].pc = "finish"
                                                     /\ task'[b].key = task[b].key /\ task'[b].path = task[b].path
          /\ b \in concluded => b \in concluded'
          /\ Resolved(b) => Resolved(b)'
          /\ permits'[b] # NULL /\ permits'[b].request # NULL =>
                permits[b] # NULL /\ permits'[b].request = permits[b].request
          /\ permits[b] # NULL /\ permits'[b].request # permits[b].request =>
                b \in concluded' \/ Resolved(b)' \/ permits[b].request = NULL

\* The sends then stay as they are.
LEMMA SendsKept == ASSUME CredTypeOK, SendsInv, SameSends PROVE SendsInv'
<1>1. \A s \in sent : s[1] \in Attempts /\ s[2] \in Keys /\ s[2] # NULL
  BY CredNullAssumption DEF CredTypeOK
<1>2. ASSUME NEW s \in sent
      PROVE  /\ Consumed(s[1])' /\ task'[s[1]].pc \in {"idle", "finish"}
             /\ s[1] \in concluded' \/ Resolved(s[1])' \/ permits'[s[1]].request = s[2]
             /\ task'[s[1]].pc = "finish" => task'[s[1]].key = s[2] /\ task'[s[1]].path = s[3]
  <2>1. Consumed(s[1])' /\ permits[s[1]] # NULL
    BY <1>1 DEF SendsInv, SameSends, Consumed, Issued
  <2>2. task'[s[1]].pc \in {"idle", "finish"}
        /\ (task'[s[1]].pc = "finish" => task'[s[1]].key = s[2] /\ task'[s[1]].path = s[3])
    BY <1>1 DEF SendsInv, SameSends
  <2>3. s[1] \in concluded' \/ Resolved(s[1])' \/ permits'[s[1]].request = s[2]
    BY <1>1, <2>1 DEF SendsInv, SameSends
  <2> QED BY <2>1, <2>2, <2>3
<1>3. ASSUME NEW a \in Attempts, NEW b \in Attempts, Issued(a)', Issued(b)', a # b,
             permits'[a].request # NULL, permits'[a].request = permits'[b].request
      PROVE  Resolved(a)' \/ Resolved(b)'
  BY <1>3 DEF SameSends, SendsInv, Issued
<1> QED BY <1>2, <1>3 DEF SendsInv, SameSends

\* Neither tasks nor gates change in what the gate keeps.
LEMMA GatesKept == ASSUME GatesInv, UNCHANGED <<task, gates>> PROVE GatesInv'
BY DEF GatesInv, Members, Budgeted, Direct

\* The allowances, and the tasks that debited one, stay as they are.
SameBudget ==
    /\ failures' = failures /\ sent' = sent /\ forgiven' = forgiven
    /\ \A b \in Attempts :
          /\ task'[b].debited => /\ task[b].debited /\ task'[b].key = task[b].key
                                 /\ task'[b].previous = task[b].previous
          /\ task'[b].pc = "finish" /\ task[b].pc \in {"idle", "finish"} =>
                task[b].pc = "finish" /\ (task[b].debited => task'[b].debited)

\* Its inequalities then stay.
LEMMA BudgetKept ==
    ASSUME CredTypeOK, SendsInv, BudgetInv, SameBudget PROVE BudgetInv'
<1>0. SUFFICES ASSUME RequestAttempts # NULL PROVE BudgetInv'
  BY DEF BudgetInv
<1>1. \A k : Owed(k)' = Owed(k)
  BY DEF Owed, SendsOf, SameBudget
<1>2. \A s \in sent : s[1] \in Attempts
  BY DEF CredTypeOK
<1>3. \A s \in sent' : s[3] = "direct" /\ task'[s[1]].pc = "finish" => task'[s[1]].debited
  BY <1>0, <1>2 DEF SameBudget, SendsInv, BudgetInv
<1>4. ASSUME NEW a \in Attempts, task'[a].debited
      PROVE  /\ failures'[task'[a].key] # NULL
             /\ failures'[task'[a].key].failed = Failed(task'[a].previous) + 1
             /\ Cardinality({s \in Owed(task[a].key) : s[1] # a})' <= Failed(task'[a].previous)
  <2>1. task[a].debited /\ task'[a].key = task[a].key /\ task'[a].previous = task[a].previous
    BY <1>4 DEF SameBudget
  <2>2. {s \in Owed(task[a].key) : s[1] # a}' = {s \in Owed(task[a].key) : s[1] # a}
    BY <2>1 DEF Owed, SendsOf, SameBudget
  <2> QED BY <1>0, <2>1, <2>2 DEF SameBudget, BudgetInv
<1>5. \A k \in Keys : Cardinality(Owed(k)') <= Failed(failures'[k]) /\ Failed(failures'[k]) <= RequestAttempts
  BY <1>0, <1>1 DEF SameBudget, BudgetInv
<1> QED BY <1>3, <1>4, <1>5 DEF BudgetInv

------------------------------------------------------------------------------
(* Steps of the tables and the environment.                                *)

\* Attempts other than a are left alone.
Others(a) == \A b \in Attempts : b # a => Kept(b)

\* They stay sound.
LEMMA OthersSound ==
    ASSUME CredInv, NEW a \in Attempts, Sound(a)', Others(a) PROVE \A b \in Attempts : Sound(b)'
BY SoundKept DEF CredInv, Others

\* Only results are purged, or only the clock, the revision, the credential
\* or the configuration changes.
Still ==
    /\ \A b \in Attempts : SameRow(permits[b], permits'[b])
    /\ UNCHANGED <<failures, ledger, task, gates, seen>>

\* Such a step keeps the invariant.
LEMMA StillInv == ASSUME CredInv, Still, CredTypeOK' PROVE CredInv'
<1>1. \A b \in Attempts : Kept(b)
  BY DEF Still, Kept, seen
<1>2. \A b \in Attempts : Sound(b)'
  BY <1>1, SoundKept DEF CredInv
<1>3. SameHistory
  BY DEF Still, SameHistory, SameRow, Issued
<1>4. SameSends
  <2>1. \A b \in Attempts : Consumed(b) => Consumed(b)'
    BY DEF Still, SameRow, Consumed, Issued
  <2>2. task' = task /\ sent' = sent /\ concluded' = concluded /\ ledger' = ledger
    BY DEF Still, seen
  <2>3. \A b \in Attempts : task[b].pc \in {"idle", "finish"} =>
           \/ task'[b].pc = "idle"
           \/ /\ task'[b].pc = "finish" /\ task[b].pc = "finish"
              /\ task'[b].key = task[b].key /\ task'[b].path = task[b].path
    BY <2>2
  <2>4. \A b \in Attempts : Resolved(b) => Resolved(b)'
    BY <2>2 DEF Resolved
  <2> QED BY <2>1, <2>2, <2>3, <2>4 DEF SameSends, Still, SameRow
<1>5. SameBudget
  BY DEF Still, SameBudget, seen
<1>6. GatesInv'
  BY GatesKept DEF Still, CredInv
<1>7. HistoryInv' /\ SendsInv' /\ BudgetInv'
  BY <1>3, <1>4, <1>5, HistoryKept, SendsKept, BudgetKept DEF CredInv
<1> QED BY <1>2, <1>6, <1>7 DEF CredInv

\* Publishing a revision, purging, the clock and a new credential are such steps.
LEMMA QuietInv ==
    ASSUME CredInv,
           \/ \E a \in Attempts : PublishGrantRevision(a.revision)
           \/ PurgeExpired \/ Tick \/ SetBack
           \/ \E f \in Fingerprints \cup {NULL} : Rotate(f)
    PROVE  CredInv'
<1>1. CASE \E S \in Purges : /\ permits' = Purged(S)
                             /\ UNCHANGED <<failures, ledger, task, gates, world, seen>>
                             /\ revision' \in Nat
  <2>1. PICK S \in Purges : permits' = Purged(S)
    BY <1>1
  <2>2. permits' \in [Attempts -> Permit \cup {NULL}] /\ \A b \in Attempts : SameRow(permits[b], permits'[b])
    BY <2>1, PurgedRows DEF CredInv
  <2>3. CredTypeOK'
    BY <1>1, <2>2 DEF CredInv, CredTypeOK, world, seen
  <2>4. Still
    BY <1>1, <2>2 DEF Still
  <2> QED BY <2>3, <2>4, StillInv
<1>2. ASSUME Tick \/ SetBack \/ (\E f \in Fingerprints \cup {NULL} : Rotate(f)) PROVE CredInv'
  <2>1. UNCHANGED <<permits, failures, ledger, task, gates, seen, revision, allowance>>
    BY <1>2 DEF Tick, SetBack, Rotate, tables
  <2>2. clock' \in Nat /\ credential' \in Fingerprints \cup {NULL} /\ troubles' \in Nat
    BY <1>2 DEF Tick, SetBack, Rotate, Trouble, CredInv, CredTypeOK
  <2>3. CredTypeOK'
    BY <2>1, <2>2 DEF CredInv, CredTypeOK, seen
  <2>4. Still
    BY <2>1 DEF Still, SameRow
  <2> QED BY <2>3, <2>4, StillInv
<1>3. ASSUME NEW a \in Attempts, PublishGrantRevision(a.revision) PROVE CredInv'
  BY <1>1, <1>3, BoundsAssumption DEF PublishGrantRevision
<1>4. ASSUME PurgeExpired PROVE CredInv'
  BY <1>1, <1>4 DEF PurgeExpired, CredInv, CredTypeOK
<1> QED BY <1>2, <1>3, <1>4

\* The task a restart leaves, and the one a handoff starts.
LEMMA IdleTask ==
    /\ Idle \in Task /\ Idle.pc = "idle" /\ Idle.gate = NULL /\ ~Idle.holds /\ ~Idle.debited
    /\ \A path \in {"direct", "job"} :
          LET n == [Idle EXCEPT !.pc = "resolve", !.path = path]
          IN  /\ n \in Task /\ n.pc = "resolve" /\ n.path = path
              /\ n.gate = NULL /\ ~n.holds /\ ~n.debited
BY DEF Idle, Task

\* A crash forgets tasks and gates; what they had written is covered without
\* them.
LEMMA RestartInv == ASSUME CredInv, Restart PROVE CredInv'
<1>1. PICK S \in Purges : permits' = Purged(S)
  BY DEF Restart
<1>2. permits' \in [Attempts -> Permit \cup {NULL}] /\ \A b \in Attempts : SameRow(permits[b], permits'[b])
  BY <1>1, PurgedRows DEF CredInv
<1>3. /\ \A b \in Attempts : task'[b] = Idle
      /\ \A k \in Keys : gates'[k] = NULL
      /\ UNCHANGED <<ledger, failures, sent, paid, concluded, forgiven>>
  BY DEF Restart, seen
<1>4. CredTypeOK'
  <2>1. task' \in [Attempts -> Task] /\ gates' \in [Keys -> Attempts \cup {NULL}]
    BY IdleTask DEF Restart
  <2>2. troubles' \in Nat /\ allowance' \in Allowances
    BY DEF Restart, Trouble, CredInv, CredTypeOK
  <2> QED BY <1>2, <1>3, <2>1, <2>2 DEF Restart, CredInv, CredTypeOK
<1>5. ASSUME NEW b \in Attempts PROVE Sound(b)'
  BY <1>2, <1>3, IdleTask DEF CredInv, Sound, SameRow, Consumed, Issued, Resolved, Idle
<1>6. SameHistory
  BY <1>2, <1>3 DEF SameHistory, SameRow, Issued
<1>7. SameSends
  BY <1>2, <1>3, IdleTask DEF SameSends, SameRow, Consumed, Issued, Resolved
<1>8. SameBudget
  BY <1>3, IdleTask DEF SameBudget
<1>9. GatesInv'
  BY <1>3, IdleTask DEF GatesInv
<1> QED BY <1>4, <1>5, <1>6, <1>7, <1>8, <1>9, HistoryKept, SendsKept, BudgetKept DEF CredInv

------------------------------------------------------------------------------
(* Issuing a permit and handing one off.                                   *)

\* The handed-off permits of an invocation.
Taken(i) == {c \in Of(i) : Consumed(c)}

\* Any set of issued permits can be counted.
LEMMA PermitsFinite ==
    ASSUME HistoryInv, NEW S, \A a \in S : a \in Attempts /\ Issued(a)
    PROVE  IsFiniteSet(S) /\ Cardinality(S) \in Nat
<1>1. S \subseteq {a \in Attempts : Issued(a)}
  OBVIOUS
<1> QED BY <1>1, FS_Subset, FS_CardinalityType DEF HistoryInv

\* The latest permit's count is the number of handoffs of its invocation.
LEMMA LatestCounts ==
    ASSUME CredTypeOK, HistoryInv, NEW p \in Attempts, Issued(p),
           \A c \in Of(p.invocation) : c.ordinal <= p.ordinal
    PROVE  Cardinality(Taken(p.invocation)) = permits[p].accepted
<1>1. IsFiniteSet(Before(p)) /\ Cardinality(Before(p)) \in Nat
  BY PermitsFinite DEF Before, Of
<1>2. \A c \in Taken(p.invocation) : c = p \/ c.ordinal < p.ordinal
  BY BoundsAssumption DEF Taken, Of, HistoryInv
<1>3. p \notin Before(p)
  BY BoundsAssumption DEF Before
<1>4. p \in Of(p.invocation)
  BY DEF Of
<1>5. CASE permits[p].consumed
  <2>1. Taken(p.invocation) = Before(p) \cup {p}
    BY <1>2, <1>4, <1>5 DEF Taken, Before, Consumed
  <2>2. Cardinality(Taken(p.invocation)) = Cardinality(Before(p)) + 1
    BY <1>1, <1>3, <2>1, FS_AddElement
  <2> QED BY <1>5, <2>2 DEF HistoryInv
<1>6. CASE ~permits[p].consumed
  <2>1. Taken(p.invocation) = Before(p)
    BY <1>2, <1>6 DEF Taken, Before, Consumed
  <2> QED BY <1>1, <1>6, <2>1 DEF HistoryInv
<1> QED BY <1>5, <1>6

\* The latest permit of an invocation exists and is the one CHOOSE names.
LEMMA LatestExists ==
    ASSUME HistoryInv, NEW i, Of(i) # {}
    PROVE  /\ Latest(i) \in Of(i) /\ Latest(i) \in Attempts /\ Issued(Latest(i))
           /\ Latest(i).invocation = i /\ \A c \in Of(i) : c.ordinal <= Latest(i).ordinal
<1>1. \E b \in Of(i) : \A c \in Of(i) : c.ordinal <= b.ordinal
  <2>1. PICK a \in Of(i) : TRUE
    OBVIOUS
  <2>2. a \in Attempts /\ Issued(a) /\ a.invocation = i
    BY <2>1 DEF Of
  <2> QED BY <2>2 DEF HistoryInv
<1>2. Latest(i) \in Of(i) /\ \A c \in Of(i) : c.ordinal <= Latest(i).ordinal
  BY <1>1 DEF Latest
<1> QED BY <1>2 DEF Of

\* A permit that may be issued comes after every other of its invocation and
\* counts from all their handoffs.
LEMMA IssuableLast ==
    ASSUME CredInv, NEW a \in Attempts, Issuable(a)
    PROVE  /\ \A b \in Of(a.invocation) : b.ordinal < a.ordinal
           /\ Accepted(a) = Cardinality(Taken(a.invocation)) /\ Accepted(a) \in Nat
<1>0. HistoryInv /\ CredTypeOK
  BY DEF CredInv
<1>1. CASE Of(a.invocation) = {}
  <2>1. Taken(a.invocation) = {}
    BY <1>1 DEF Taken
  <2> QED BY <1>1, <2>1, FS_EmptySet DEF Accepted
<1>2. CASE Of(a.invocation) # {}
  <2> DEFINE p == Latest(a.invocation)
  <2>1. /\ p \in Of(a.invocation) /\ p \in Attempts /\ Issued(p) /\ p.invocation = a.invocation
        /\ \A c \in Of(a.invocation) : c.ordinal <= p.ordinal
    BY <1>0, <1>2, LatestExists
  <2>2. a.ordinal > p.ordinal
    BY <1>2 DEF Issuable, Follows
  <2>3. \A b \in Of(a.invocation) : b.ordinal < a.ordinal
    BY <2>1, <2>2, BoundsAssumption DEF Of
  <2>4. Cardinality(Taken(a.invocation)) = permits[p].accepted
    BY <1>0, <2>1, LatestCounts
  <2>5. permits[p].accepted \in Nat
    BY <1>0, <2>1, TypeFacts DEF Permit
  <2> QED BY <1>2, <2>3, <2>4, <2>5 DEF Accepted
<1> QED BY <1>1, <1>2

\* The row IssuePermit inserts.
LEMMA NewRowFacts ==
    ASSUME NEW n \in Nat
    PROVE  /\ NewRow(n) \in Permit /\ NewRow(n) # NULL /\ ~NewRow(n).consumed /\ NewRow(n).accepted = n
           /\ NewRow(n).request = NULL /\ NewRow(n).finished = 0
<1>1. NewRow(n) \in Permit
  BY DEF NewRow, Permit
<1> QED BY <1>1, CredNullAssumption DEF NewRow

\* A new permit keeps the invariant: its ordinal is the largest and its count
\* the number of handoffs before it.
LEMMA IssueInv == ASSUME CredInv, NEW a \in Attempts, IssuePermit(a) PROVE CredInv'
<1> DEFINE n == Accepted(a)
<1>1. Issuable(a) /\ ~Issued(a) /\ permits[a] = NULL
  BY DEF IssuePermit, Issuable, Issued
<1>2. /\ \A b \in Of(a.invocation) : b.ordinal < a.ordinal
      /\ n = Cardinality(Taken(a.invocation)) /\ n \in Nat
  BY <1>1, IssuableLast
<1>3. PICK S \in Purges : permits' = [Purged(S) EXCEPT ![a] = NewRow(n)]
  BY DEF IssuePermit
<1>4. /\ Purged(S) \in [Attempts -> Permit \cup {NULL}]
      /\ \A b \in Attempts : SameRow(permits[b], Purged(S)[b])
  BY PurgedRows DEF CredInv
<1> HIDE DEF n
<1>5. /\ permits' \in [Attempts -> Permit \cup {NULL}] /\ permits'[a] = NewRow(n)
      /\ \A b \in Attempts : b # a => SameRow(permits[b], permits'[b])
  BY <1>2, <1>3, <1>4, NewRowFacts
<1>6. UNCHANGED <<revision, failures, ledger, task, gates, world, seen>>
  BY DEF IssuePermit
<1>7. CredTypeOK'
  BY <1>5, <1>6 DEF CredInv, CredTypeOK, world, seen
<1>8. Issued(a)' /\ ~Consumed(a)' /\ ~Consumed(a)
  BY <1>1, <1>2, <1>5, NewRowFacts DEF Issued, Consumed
<1>9. Sound(a)'
  BY <1>1, <1>2, <1>5, <1>6, <1>8, NewRowFacts DEF CredInv, Sound, Consumed, Issued, Resolved, seen
<1>10. Others(a)
  BY <1>5, <1>6 DEF Others, Kept, seen
<1>11. \A b \in Attempts : Sound(b)'
  BY <1>9, <1>10, OthersSound
<1>12. HistoryInv'
  <2>1. \A b \in Attempts : /\ Issued(b)' <=> Issued(b) \/ b = a
                            /\ Consumed(b)' <=> Consumed(b)
                            /\ Issued(b) => /\ permits'[b].consumed = permits[b].consumed
                                            /\ permits'[b].accepted = permits[b].accepted
    BY <1>1, <1>5, <1>8 DEF Issued, Consumed, SameRow
  <2>2. {b \in Attempts : Issued(b)}' = {b \in Attempts : Issued(b)} \cup {a}
    BY <2>1 DEF Issued
  <2>3. IsFiniteSet({b \in Attempts : Issued(b)})'
    BY <2>2, FS_AddElement DEF CredInv, HistoryInv
  <2>4. ASSUME NEW b \in Attempts
        PROVE  Of(b.invocation)' = IF b.invocation = a.invocation THEN Of(b.invocation) \cup {a} ELSE Of(b.invocation)
    BY <2>1 DEF Of, Issued
  <2>5. ASSUME NEW b \in Attempts PROVE Before(b)' = Before(b)
    <3>1. \A c \in Attempts : c \in Before(b)' <=> /\ Issued(c)' /\ c.invocation = b.invocation
                                                  /\ Consumed(c)' /\ c.ordinal < b.ordinal
      BY DEF Before, Of
    <3>2. \A c \in Attempts : c \in Before(b) <=> /\ Issued(c) /\ c.invocation = b.invocation
                                                 /\ Consumed(c) /\ c.ordinal < b.ordinal
      BY DEF Before, Of
    <3>3. \A c \in Attempts : Consumed(c) => Issued(c)
      BY DEF Consumed
    <3>4. Before(b)' \subseteq Attempts /\ Before(b) \subseteq Attempts
      BY DEF Before, Of
    <3>5. \A c \in Attempts : Consumed(c)' <=> Consumed(c)
      BY <2>1
    <3>6. \A c \in Attempts : Consumed(c)' => Issued(c)'
      BY DEF Consumed
    <3> QED BY <3>1, <3>2, <3>3, <3>4, <3>5, <3>6
  <2>6. Before(a) = Taken(a.invocation)
    BY <1>2 DEF Before, Taken
  <2>7. ASSUME NEW b \in Attempts, NEW c \in Attempts, Issued(b)', Issued(c)',
               b.invocation = c.invocation, b.ordinal = c.ordinal
        PROVE  b = c
    <3>1. \A d \in Attempts : Issued(d) /\ d.invocation = a.invocation => d.ordinal < a.ordinal
      BY <1>2 DEF Of
    <3>2. \A d \in Attempts : d.ordinal \in Nat
      BY BoundsAssumption
    <3>3. \A d \in Attempts : Issued(d)' => Issued(d) \/ d = a
      BY <2>1
    <3> QED BY <2>7, <3>1, <3>2, <3>3 DEF CredInv, HistoryInv
  <2>8. ASSUME NEW b \in Attempts, Issued(b)'
        PROVE  \E d \in Of(b.invocation)' : \A c \in Of(b.invocation)' : c.ordinal <= d.ordinal
    <3>1. CASE b.invocation = a.invocation
      <4>1. \A c \in Of(b.invocation) \cup {a} : c.ordinal <= a.ordinal
        BY <1>2, <3>1, BoundsAssumption DEF Of
      <4> QED BY <2>4, <3>1, <4>1
    <3>2. CASE b.invocation # a.invocation
      <4>1. Issued(b)
        BY <2>1, <2>8, <3>2
      <4>2. Of(b.invocation)' = Of(b.invocation)
        BY <2>4, <3>2
      <4> QED BY <4>1, <4>2 DEF CredInv, HistoryInv
    <3> QED BY <3>1, <3>2
  <2>9. ASSUME NEW b \in Attempts, Issued(b)'
        PROVE  permits'[b].accepted = Cardinality(Before(b)') + (IF permits'[b].consumed THEN 1 ELSE 0)
    <3>1. CASE b = a
      BY <1>2, <1>5, <2>5, <2>6, <3>1, NewRowFacts
    <3>2. CASE b # a
      BY <2>1, <2>5, <2>9, <3>2 DEF CredInv, HistoryInv
    <3> QED BY <3>1, <3>2
  <2>10. ASSUME NEW b \in Attempts, Consumed(b)'
         PROVE  /\ \A c \in Before(b)' : ledger'[c].state = "released"
                /\ permits'[b].accepted <= Max(Allowances)
    BY <1>6, <2>1, <2>5, <2>10 DEF CredInv, HistoryInv, Consumed
  <2> QED BY <2>3, <2>7, <2>8, <2>9, <2>10 DEF HistoryInv
<1>13. SameSends
  BY <1>1, <1>2, <1>5, <1>6, <1>8, NewRowFacts DEF SameSends, SameRow, Consumed, Issued, Resolved, seen
<1>14. SameBudget
  BY <1>6 DEF SameBudget, seen
<1> QED BY <1>6, <1>7, <1>11, <1>12, <1>13, <1>14, SendsKept, BudgetKept, GatesKept DEF CredInv

\* Every allowance is within the largest one.
LEMMA MaxAllowance == Max(Allowances) \in Allowances /\ \A n \in Allowances : n <= Max(Allowances)
<1>1. \E x \in Allowances : \A y \in Allowances : x >= y
  BY AllowanceAssumption
<1>2. Max(Allowances) \in Allowances /\ \A y \in Allowances : Max(Allowances) >= y
  BY <1>1 DEF Max
<1> QED BY <1>2, AllowanceAssumption

\* A handoff: the last permit of its invocation is consumed, reserved and
\* given to a task.
Hands(a, path) ==
    /\ ~Consumed(a) /\ Reservable(a)
    /\ \A b \in Of(a.invocation) : b # a => b.ordinal < a.ordinal
    /\ Cardinality(Before(a)) < allowance
    /\ permits' \in [Attempts -> Permit \cup {NULL}] /\ permits'[a] # NULL
    /\ permits'[a].consumed /\ permits'[a].accepted = Cardinality(Before(a)) + 1
    /\ permits'[a].request = NULL
    /\ \A b \in Attempts : b # a => SameRow(permits[b], permits'[b])
    /\ Handoff(a, path)
    /\ UNCHANGED <<revision, failures, gates, world, seen>>

\* It keeps the history: the reservation is granted only when every earlier
\* handoff of the invocation was released.
LEMMA HandsHistory ==
    ASSUME CredInv, NEW a \in Attempts, NEW path, Hands(a, path) PROVE HistoryInv'
<1>0. HistoryInv /\ CredTypeOK
  BY DEF CredInv
<1>1. \A b \in Attempts : b # a => /\ Issued(b)' <=> Issued(b)
                                   /\ Consumed(b)' <=> Consumed(b)
                                   /\ Issued(b) => /\ permits'[b].consumed = permits[b].consumed
                                                   /\ permits'[b].accepted = permits[b].accepted
  BY DEF Hands, SameRow, Issued, Consumed
<1>2. Issued(a)' /\ Consumed(a)' /\ ~Consumed(a)
  BY DEF Hands, Issued, Consumed
<1>3. \A b \in Attempts : Issued(b)' <=> Issued(b) \/ b = a
  BY <1>1, <1>2
<1>4. \A b \in Attempts : Consumed(b)' <=> Consumed(b) \/ b = a
  BY <1>1, <1>2
<1>5. \A b \in Attempts : Issued(b) /\ b.invocation = a.invocation /\ b # a => b.ordinal < a.ordinal
  BY DEF Hands, Of
<1>6. \A b \in Attempts : b.ordinal \in Nat
  BY BoundsAssumption
<1>7. ASSUME NEW b \in Attempts, Issued(b)' PROVE Before(b)' = Before(b)
  <2>1. \A c \in Attempts : c \in Before(b)' <=> c.invocation = b.invocation /\ Consumed(c)' /\ c.ordinal < b.ordinal
    BY DEF Before, Of, Consumed
  <2>2. \A c \in Attempts : c \in Before(b) <=> c.invocation = b.invocation /\ Consumed(c) /\ c.ordinal < b.ordinal
    BY DEF Before, Of, Consumed
  <2>3. Before(b)' \subseteq Attempts /\ Before(b) \subseteq Attempts
    BY DEF Before, Of
  <2>4. ~(a.invocation = b.invocation /\ a.ordinal < b.ordinal)
    BY <1>3, <1>5, <1>6, <1>7
  <2> QED BY <1>4, <2>1, <2>2, <2>3, <2>4
<1>8. IsFiniteSet({b \in Attempts : Issued(b)})'
  <2>1. {b \in Attempts : Issued(b)}' = {b \in Attempts : Issued(b)} \cup {a}
    BY <1>3 DEF Issued
  <2> QED BY <1>0, <2>1, FS_AddElement DEF HistoryInv
<1>9. ASSUME NEW b \in Attempts, NEW c \in Attempts, Issued(b)', Issued(c)',
             b.invocation = c.invocation, b.ordinal = c.ordinal
      PROVE  b = c
  BY <1>0, <1>3, <1>5, <1>6, <1>9 DEF HistoryInv
<1>10. ASSUME NEW b \in Attempts, Issued(b)'
       PROVE  \E d \in Of(b.invocation)' : \A c \in Of(b.invocation)' : c.ordinal <= d.ordinal
  <2>1. \A c \in Attempts : c \in Of(b.invocation)' <=> Issued(c)' /\ c.invocation = b.invocation
    BY DEF Of
  <2>2. Of(b.invocation)' \subseteq Attempts
    BY DEF Of
  <2>3. CASE b.invocation = a.invocation
    <3>1. a \in Of(b.invocation)'
      BY <1>2, <2>1, <2>3
    <3>2. \A c \in Of(b.invocation)' : c.ordinal <= a.ordinal
      BY <1>3, <1>5, <1>6, <2>1, <2>2, <2>3
    <3> QED BY <3>1, <3>2
  <2>4. CASE b.invocation # a.invocation
    <3>1. Issued(b)
      BY <1>3, <1>10, <2>4
    <3>2. Of(b.invocation)' = Of(b.invocation)
      BY <1>3, <2>1, <2>2, <2>4 DEF Of
    <3> QED BY <1>0, <3>1, <3>2 DEF HistoryInv
  <2> QED BY <2>3, <2>4
<1>11. ASSUME NEW b \in Attempts, Issued(b)'
       PROVE  permits'[b].accepted = Cardinality(Before(b)') + (IF permits'[b].consumed THEN 1 ELSE 0)
  <2>1. CASE b = a
    BY <1>7, <1>11, <2>1 DEF Hands
  <2>2. CASE b # a
    BY <1>0, <1>1, <1>7, <1>11, <2>2 DEF HistoryInv
  <2> QED BY <2>1, <2>2
<1>12. \A c \in Attempts : Consumed(c) /\ c.invocation = a.invocation => ledger[c].state = "released"
  BY DEF Hands, Reservable, CredInv, Sound
<1>13. \A c \in Attempts : c # a => ledger'[c] = ledger[c]
  BY <1>0 DEF Hands, Handoff, CredTypeOK
<1>14. ASSUME NEW b \in Attempts, Consumed(b)'
       PROVE  /\ \A c \in Before(b)' : ledger'[c].state = "released"
              /\ permits'[b].accepted <= Max(Allowances)
  <2>0. Issued(b)' /\ Before(b)' = Before(b) /\ \A c \in Before(b) : c \in Attempts /\ Consumed(c) /\ c # a
    BY <1>2, <1>7, <1>14 DEF Consumed, Before, Of
  <2>1. CASE b = a
    <3>1. \A c \in Before(a) : ledger'[c].state = "released"
      BY <1>12, <1>13, <2>0, <2>1 DEF Before, Of
    <3>2. IsFiniteSet(Before(a)) /\ Cardinality(Before(a)) \in Nat
      BY <1>0, PermitsFinite DEF Before, Of
    <3>3. Cardinality(Before(a)) + 1 <= Max(Allowances)
      <4>1. allowance \in Allowances /\ Cardinality(Before(a)) < allowance
        BY <1>0 DEF Hands, CredTypeOK
      <4>2. allowance \in Nat /\ Max(Allowances) \in Nat /\ allowance <= Max(Allowances)
        BY <4>1, MaxAllowance, AllowanceAssumption
      <4> QED BY <3>2, <4>1, <4>2
    <3> QED BY <2>0, <2>1, <3>1, <3>3 DEF Hands
  <2>2. CASE b # a
    <3>1. Consumed(b) /\ Issued(b)
      BY <1>1, <1>14, <2>2 DEF Consumed
    <3> QED BY <1>0, <1>1, <1>13, <2>0, <2>2, <3>1 DEF HistoryInv
  <2> QED BY <2>1, <2>2
<1> QED BY <1>8, <1>9, <1>10, <1>11, <1>14 DEF HistoryInv

\* It keeps the rest: the attempt has sent nothing and holds no gate.
LEMMA HandsInv ==
    ASSUME CredInv, NEW a \in Attempts, NEW path \in {"direct", "job"}, Hands(a, path) PROVE CredInv'
<1>0. CredTypeOK /\ Sound(a) /\ ~Consumed(a)
  BY DEF CredInv, Hands
<1> DEFINE n == [Idle EXCEPT !.pc = "resolve", !.path = path]
<1>1. /\ n \in Task /\ n.pc = "resolve" /\ n.path = path
      /\ n.gate = NULL /\ ~n.holds /\ ~n.debited
  BY IdleTask
<1>2. task' = [task EXCEPT ![a] = n] /\ ledger' = [ledger EXCEPT ![a].state = "unknown"]
  BY DEF Hands, Handoff
<1> HIDE DEF n
<1>3. /\ task' \in [Attempts -> Task] /\ task'[a] = n
      /\ \A b \in Attempts : b # a => task'[b] = task[b] /\ ledger'[b] = ledger[b]
  BY <1>0, <1>1, <1>2 DEF CredTypeOK
<1>4. ledger' \in [Attempts -> Receipt] /\ ledger'[a].state = "unknown"
  BY <1>0, <1>2 DEF CredTypeOK, Receipt
<1>5. UNCHANGED <<revision, failures, gates, world, seen>> /\ permits' \in [Attempts -> Permit \cup {NULL}]
  BY DEF Hands
<1>6. CredTypeOK'
  BY <1>0, <1>3, <1>4, <1>5 DEF CredTypeOK, world, seen
<1>7. Consumed(a)' /\ permits'[a] # NULL /\ permits'[a].request = NULL
  BY DEF Hands, Consumed, Issued
<1>8. task[a].pc = "idle" /\ a \notin paid /\ a \notin concluded /\ ledger[a].state = "none"
  BY <1>0 DEF Sound
<1>9. Sound(a)'
  BY <1>1, <1>3, <1>4, <1>5, <1>7, <1>8 DEF Sound, Consumed, Issued, Resolved, seen
<1>10. Others(a)
  BY <1>3, <1>5 DEF Others, Kept, Hands, seen
<1>11. \A b \in Attempts : Sound(b)'
  BY <1>9, <1>10, OthersSound
<1>12. \A s \in sent : s[1] \in Attempts /\ s[1] # a
  BY <1>0 DEF CredInv, SendsInv, CredTypeOK
<1>13. \A b \in Attempts : b # a => /\ Consumed(b) => Consumed(b)'
                                    /\ permits[b] = NULL <=> permits'[b] = NULL
                                    /\ permits[b] # NULL => permits'[b].request = permits[b].request
                                    /\ Resolved(b)' <=> Resolved(b)
  BY <1>3 DEF Hands, SameRow, Consumed, Issued, Resolved
<1>14. SendsInv'
  <2>1. sent' = sent /\ concluded' = concluded
    BY <1>5 DEF seen
  <2>2. ASSUME NEW s \in sent
        PROVE  /\ Consumed(s[1])' /\ task'[s[1]].pc \in {"idle", "finish"}
               /\ s[1] \in concluded \/ Resolved(s[1])' \/ permits'[s[1]].request = s[2]
               /\ task'[s[1]].pc = "finish" => task'[s[1]].key = s[2] /\ task'[s[1]].path = s[3]
    <3>1. s[1] \in Attempts /\ s[1] # a /\ Consumed(s[1]) /\ permits[s[1]] # NULL
      BY <1>12 DEF CredInv, SendsInv, Consumed, Issued
    <3> QED BY <1>3, <1>13, <3>1 DEF CredInv, SendsInv
  <2>3. ASSUME NEW b \in Attempts, NEW c \in Attempts, Issued(b)', Issued(c)', b # c,
               permits'[b].request # NULL, permits'[b].request = permits'[c].request
        PROVE  Resolved(b)' \/ Resolved(c)'
    <3>1. b # a /\ c # a
      BY <1>7, <2>3
    <3> QED BY <1>13, <2>3, <3>1 DEF CredInv, SendsInv, Issued
  <2> QED BY <2>1, <2>2, <2>3 DEF SendsInv, CredInv
<1>15. GatesInv'
  <2>1. task[a].gate = NULL /\ ~task[a].holds
    BY <1>8 DEF CredInv, GatesInv
  <2>2. \A g : g # NULL => Members(g)' = Members(g)
    BY <1>1, <1>3, <2>1 DEF Members
  <2>3. \A k \in Keys : gates'[k] # NULL => Members(gates[k])' # {}
    BY <1>5, <2>2 DEF CredInv, GatesInv
  <2>4. gates' = gates
    BY <1>5
  <2>5. \A k \in Keys : (gates[k] # NULL => Members(gates[k]) # {})'
    BY <2>3, <2>4 DEF Members
  <2> QED BY <1>1, <1>3, <2>1, <2>4, <2>5 DEF CredInv, GatesInv, Budgeted, Direct
<1>16. BudgetInv'
  <2>1. failures' = failures /\ sent' = sent /\ forgiven' = forgiven
    BY <1>5 DEF seen
  <2>2. ASSUME NEW b \in Attempts, task'[b].debited PROVE b # a /\ task'[b] = task[b]
    BY <1>1, <1>3, <2>2
  <2>3. ASSUME NEW b \in Attempts, b # a PROVE {s \in Owed(task[b].key) : s[1] # b}' = {s \in Owed(task[b].key) : s[1] # b}
    BY <1>3, <2>1, <2>3 DEF Owed, SendsOf
  <2>4. \A k \in Keys : Owed(k)' = Owed(k)
    BY <2>1 DEF Owed, SendsOf
  <2>5. ASSUME RequestAttempts # NULL
        PROVE  /\ \A k \in Keys : Cardinality(Owed(k)') <= Failed(failures'[k]) /\ Failed(failures'[k]) <= RequestAttempts
               /\ \A s \in sent' : s[3] = "direct" /\ task'[s[1]].pc = "finish" => task'[s[1]].debited
    BY <1>3, <1>12, <2>1, <2>4, <2>5 DEF CredInv, BudgetInv
  <2>6. ASSUME RequestAttempts # NULL, NEW b \in Attempts, task'[b].debited
        PROVE  /\ failures'[task'[b].key] # NULL
               /\ failures'[task'[b].key].failed = Failed(task'[b].previous) + 1
               /\ Cardinality({s \in Owed(task[b].key) : s[1] # b})' <= Failed(task'[b].previous)
    BY <2>1, <2>2, <2>3, <2>6 DEF CredInv, BudgetInv
  <2> QED BY <2>5, <2>6 DEF BudgetInv
<1> QED BY <1>6, <1>11, <1>14, <1>15, <1>16, HandsHistory DEF CredInv

\* A permit that nothing supersedes comes after every other of its invocation.
LEMMA AcceptableLast ==
    ASSUME CredInv, NEW a \in Attempts, Issued(a), ~permits[a].consumed, ~Superseded(a)
    PROVE  /\ \A b \in Of(a.invocation) : b # a => b.ordinal < a.ordinal
           /\ permits[a].accepted = Cardinality(Before(a))
<1>1. \A b \in Of(a.invocation) : b \in Attempts /\ Issued(b) /\ b.invocation = a.invocation
  BY DEF Of
<1>2. \A b \in Of(a.invocation) : ~(b.ordinal > a.ordinal)
  BY DEF Superseded
<1>3. \A b \in Attempts : b.ordinal \in Nat
  BY BoundsAssumption
<1>4. IsFiniteSet(Before(a)) /\ Cardinality(Before(a)) \in Nat
  BY PermitsFinite DEF Before, Of, CredInv
<1>5. permits[a].accepted = Cardinality(Before(a)) + 0
  BY DEF CredInv, HistoryInv
<1> QED BY <1>1, <1>2, <1>3, <1>4, <1>5 DEF CredInv, HistoryInv

\* Consuming a row.
LEMMA ConsumedRow ==
    ASSUME NEW row \in Permit
    PROVE  LET n == [row EXCEPT !.consumed = TRUE, !.accepted = @ + 1]
           IN  /\ n \in Permit /\ n # NULL /\ n.consumed /\ n.accepted = row.accepted + 1
               /\ n.request = row.request
<1>1. row.accepted + 1 \in Nat
  BY DEF Permit
<1>2. [row EXCEPT !.consumed = TRUE, !.accepted = row.accepted + 1] \in Permit
  BY <1>1 DEF Permit
<1>3. LET n == [row EXCEPT !.consumed = TRUE, !.accepted = row.accepted + 1]
      IN  n.consumed /\ n.accepted = row.accepted + 1 /\ n.request = row.request
  BY DEF Permit
<1> QED BY <1>2, <1>3, CredNullAssumption

\* Injecting a credential hands the permit off.
LEMMA InjectHands == ASSUME CredInv, NEW a \in Attempts, Inject(a) PROVE Hands(a, "direct")
<1>0. CredTypeOK /\ Sound(a)
  BY DEF CredInv
<1>1. /\ Issued(a) /\ ~permits[a].consumed /\ ~Superseded(a) /\ Reservable(a)
      /\ permits[a].accepted < allowance
  BY DEF Inject, Consumable, Acceptable
<1>2. permits[a] \in Permit /\ permits[a].request = NULL
  BY <1>0, <1>1, TypeFacts DEF Sound
<1>3. PICK S \in Purges : permits' = [Purged(S) EXCEPT ![a].consumed = TRUE, ![a].accepted = @ + 1]
  BY DEF Inject
<1> DEFINE P == Purged(S)
<1>4. /\ P \in [Attempts -> Permit \cup {NULL}]
      /\ \A b \in Attempts : SameRow(permits[b], P[b])
  BY <1>0, PurgedRows
<1> HIDE DEF P
<1>5. permits' = [P EXCEPT ![a].consumed = TRUE, ![a].accepted = @ + 1]
  BY <1>3 DEF P
<1>6. P[a] \in Permit /\ P[a] # NULL /\ P[a].accepted = permits[a].accepted /\ P[a].request = NULL
  BY <1>0, <1>1, <1>2, <1>4, TypeFacts DEF SameRow, Issued
<1> DEFINE n == [P[a] EXCEPT !.consumed = TRUE, !.accepted = @ + 1]
<1>7. n \in Permit /\ n # NULL /\ n.consumed /\ n.accepted = permits[a].accepted + 1 /\ n.request = NULL
  BY <1>6, ConsumedRow
<1>8. permits' = [P EXCEPT ![a] = n]
  BY <1>4, <1>5
<1> HIDE DEF n
<1>9. /\ permits' \in [Attempts -> Permit \cup {NULL}] /\ permits'[a] = n
      /\ \A b \in Attempts : b # a => permits'[b] = P[b]
  BY <1>4, <1>7, <1>8
<1>10. /\ \A b \in Of(a.invocation) : b # a => b.ordinal < a.ordinal
       /\ permits[a].accepted = Cardinality(Before(a))
  BY <1>1, AcceptableLast
<1>11. ~Consumed(a) /\ Handoff(a, "direct") /\ UNCHANGED <<revision, failures, gates, world, seen>>
  BY <1>1 DEF Consumed, Inject
<1> QED BY <1>1, <1>4, <1>7, <1>9, <1>10, <1>11 DEF Hands

\* Claiming a signed job hands its permit off, issuing it if need be.
LEMMA ClaimHands == ASSUME CredInv, NEW a \in Attempts, ClaimJob(a) PROVE Hands(a, "job")
<1>0. CredTypeOK /\ Sound(a)
  BY DEF CredInv
<1> DEFINE row == IF Issued(a) THEN permits[a] ELSE NewRow(Accepted(a))
           n == [row EXCEPT !.consumed = TRUE, !.accepted = @ + 1]
<1>1. /\ ~Consumed(a) /\ row \in Permit /\ row.request = NULL
      /\ row.accepted = Cardinality(Before(a)) /\ row.accepted < allowance
      /\ \A b \in Of(a.invocation) : b # a => b.ordinal < a.ordinal
  <2>1. CASE Issued(a)
    <3>1. ~permits[a].consumed /\ ~Superseded(a) /\ permits[a].accepted < allowance
      BY <2>1 DEF ClaimJob, Acceptable
    <3>2. permits[a] \in Permit /\ permits[a].request = NULL
      BY <1>0, <2>1, <3>1, TypeFacts DEF Sound
    <3>3. /\ \A b \in Of(a.invocation) : b # a => b.ordinal < a.ordinal
          /\ permits[a].accepted = Cardinality(Before(a))
      BY <2>1, <3>1, AcceptableLast
    <3> QED BY <2>1, <3>1, <3>2, <3>3 DEF Consumed
  <2>2. CASE ~Issued(a)
    <3>1. Issuable(a) /\ Accepted(a) < allowance
      BY <2>2 DEF ClaimJob, Issuable
    <3>2. /\ \A b \in Of(a.invocation) : b.ordinal < a.ordinal
          /\ Accepted(a) = Cardinality(Taken(a.invocation)) /\ Accepted(a) \in Nat
      BY <3>1, IssuableLast
    <3>3. Taken(a.invocation) = Before(a)
      BY <3>2 DEF Taken, Before
    <3>4. row = NewRow(Accepted(a))
      BY <2>2
    <3>5. NewRow(Accepted(a)) \in Permit /\ NewRow(Accepted(a)).request = NULL /\ NewRow(Accepted(a)).accepted = Accepted(a)
      BY <3>2, NewRowFacts
    <3> QED BY <2>2, <3>1, <3>2, <3>3, <3>4, <3>5 DEF Consumed
  <2> QED BY <2>1, <2>2
<1>2. permits' = [permits EXCEPT ![a] = n] /\ Reservable(a) /\ Handoff(a, "job")
      /\ UNCHANGED <<revision, failures, gates, world, seen>>
  BY DEF ClaimJob
<1> HIDE DEF row
<1>3. n \in Permit /\ n # NULL /\ n.consumed /\ n.accepted = row.accepted + 1 /\ n.request = NULL
  BY <1>1, ConsumedRow
<1> HIDE DEF n
<1>4. /\ permits' \in [Attempts -> Permit \cup {NULL}] /\ permits'[a] = n
      /\ \A b \in Attempts : b # a => permits'[b] = permits[b]
  BY <1>0, <1>2, <1>3 DEF CredTypeOK
<1>5. \A b \in Attempts : b # a => SameRow(permits[b], permits'[b])
  BY <1>4 DEF SameRow
<1> QED BY <1>1, <1>2, <1>3, <1>4, <1>5 DEF Hands

------------------------------------------------------------------------------
(* Steps of a dispatch task.                                               *)

\* The step replaces the task of attempt a.
Replaces(a, n) ==
    /\ n \in Task /\ task'[a] = n /\ task' \in [Attempts -> Task]
    /\ \A b \in Attempts : b # a => task'[b] = task[b]

\* What replaces the task of a, for each way the code writes it.
LEMMA TaskReplaced ==
    ASSUME CredTypeOK, NEW a \in Attempts, NEW n \in Task, task' = [task EXCEPT ![a] = n]
    PROVE  Replaces(a, n)
BY DEF Replaces, CredTypeOK

\* A task that goes on towards its end stays in its gate.
LEMMA GatesAdvance ==
    ASSUME GatesInv, NEW a \in Attempts, NEW n, Replaces(a, n), gates' = gates,
           task[a].pc \in {"acquire", "send"}, n.pc \in {"send", "finish"},
           n.gate = task[a].gate, n.key = task[a].key, n.holds = task[a].holds,
           n.debited = task[a].debited, n.path = task[a].path
    PROVE  GatesInv'
<1>1. \A g : Members(g)' = Members(g)
  BY DEF Members, Replaces
<1>2. \A k \in Keys : (gates[k] # NULL => Members(gates[k]) # {})'
  BY <1>1 DEF GatesInv
<1>3. \A b \in Attempts : /\ task'[b].gate = task[b].gate /\ task'[b].key = task[b].key
                          /\ task'[b].holds = task[b].holds /\ task'[b].debited = task[b].debited
                          /\ task'[b].path = task[b].path
                          /\ task'[b].pc = task[b].pc \/ b = a
  BY DEF Replaces
<1>4. \A b, c \in Attempts : task'[b].holds /\ task'[c].holds /\ task'[b].gate = task'[c].gate => b = c
  BY <1>3 DEF GatesInv
<1>5. ASSUME NEW b \in Attempts
      PROVE  /\ task'[b].gate # NULL => task'[b].key \in Keys /\ gates'[task'[b].key] = task'[b].gate
             /\ task'[b].pc \in {"admit", "acquire", "send"} /\ Budgeted(b)' => task'[b].gate # NULL
             /\ task'[b].pc \in {"idle", "resolve"} => task'[b].gate = NULL
             /\ task'[b].holds => task'[b].gate # NULL /\ task'[b].pc # "admit"
             /\ task'[b].debited => /\ task'[b].holds /\ Budgeted(b)'
                                    /\ task'[b].pc \in {"acquire", "send", "finish"}
             /\ task'[b].pc \in {"acquire", "send"} /\ Budgeted(b)' => task'[b].debited
  <2>1. Budgeted(b)' <=> Budgeted(b)
    BY <1>3 DEF Budgeted, Direct
  <2> QED BY <1>3, <2>1 DEF GatesInv, Replaces
<1> QED BY <1>2, <1>4, <1>5 DEF GatesInv

\* Resolving the credential enters the gate registered for the request.
LEMMA ResolveInv == ASSUME CredInv, NEW a \in Attempts, Resolve(a) PROVE CredInv'
<1> DEFINE k == <<a.input, credential>>
           g == IF gates[k] = NULL THEN a ELSE gates[k]
<1>0. CredTypeOK /\ Sound(a) /\ GatesInv /\ task[a] \in Task /\ task[a].pc = "resolve"
  BY DEF CredInv, CredTypeOK, Resolve, At
<1>1. UNCHANGED <<tables, revision, world, seen>>
  BY DEF Resolve
<1>2. Consumed(a) /\ task[a].path \in {"direct", "job"} /\ a \notin concluded /\ a \notin paid
  BY <1>0 DEF Sound
<1>3. task[a].gate = NULL /\ ~task[a].holds /\ ~task[a].debited
  BY <1>0 DEF GatesInv
<1>4. credential # NULL => k \in Keys /\ g \in Attempts /\ g # NULL
  <2>1. credential # NULL => k \in Keys
    BY <1>0 DEF Keys, CredTypeOK
  <2>2. k \in Keys => gates[k] \in Attempts \cup {NULL}
    BY <1>0 DEF CredTypeOK
  <2> QED BY <2>1, <2>2, CredNullAssumption
<1> DEFINE n1 == [task[a] EXCEPT !.pc = "finish", !.outcome = "credential"]
           n2 == [task[a] EXCEPT !.key = k, !.gate = g, !.pc = "admit"]
           n3 == [task[a] EXCEPT !.key = k, !.pc = "admit"]
<1>5. \/ /\ task' = [task EXCEPT ![a] = n1] /\ gates' = gates
      \/ /\ credential # NULL /\ Budgeted(a)
         /\ task' = [task EXCEPT ![a] = n2] /\ gates' = [gates EXCEPT ![k] = g]
      \/ /\ credential # NULL /\ ~Budgeted(a)
         /\ task' = [task EXCEPT ![a] = n3] /\ gates' = gates
  <2>1. CASE credential = NULL
    BY <2>1 DEF Resolve, Ends
  <2>2. CASE credential # NULL /\ Budgeted(a)
    BY <2>2 DEF Resolve
  <2>3. CASE credential # NULL /\ ~Budgeted(a)
    BY <2>3 DEF Resolve
  <2> QED BY <2>1, <2>2, <2>3
<1> HIDE DEF k, g
<1>6. n1 \in Task /\ n1.pc = "finish" /\ n1.outcome = "credential" /\ n1.path = task[a].path
      /\ n1.gate = NULL /\ ~n1.holds /\ ~n1.debited /\ n1.outcome \in Outcomes
  BY <1>0, <1>3 DEF Task, Outcomes, Unsent
<1>7. credential # NULL =>
        /\ n2 \in Task /\ n2.pc = "admit" /\ n2.key = k /\ n2.path = task[a].path
        /\ n2.gate = g /\ ~n2.holds /\ ~n2.debited
        /\ n3 \in Task /\ n3.pc = "admit" /\ n3.key = k /\ n3.path = task[a].path
        /\ n3.gate = NULL /\ ~n3.holds /\ ~n3.debited
  BY <1>0, <1>3, <1>4 DEF Task
<1> HIDE DEF n1, n2, n3
<1>8. \E n : Replaces(a, n)
  BY <1>0, <1>5, <1>6, <1>7, TaskReplaced
<1>9. gates' \in [Keys -> Attempts \cup {NULL}]
  BY <1>0, <1>4, <1>5 DEF CredTypeOK
<1>10. CredTypeOK'
  BY <1>0, <1>1, <1>8, <1>9 DEF CredTypeOK, Replaces, tables, world, seen
<1>12. /\ ~task'[a].holds /\ ~task'[a].debited /\ task'[a].pc \in {"admit", "finish"}
       /\ task'[a].path = task[a].path
       /\ task'[a].pc = "finish" => task'[a].outcome \in Outcomes
       /\ task'[a].pc = "admit" => task'[a].key \in Keys
       /\ \A b \in Attempts : b # a => task'[b] = task[b]
  BY <1>0, <1>4, <1>5, <1>6, <1>7, TaskReplaced DEF Replaces
<1>13. Sound(a)'
  <2>1. permits' = permits /\ ledger' = ledger /\ paid' = paid /\ concluded' = concluded
    BY <1>1 DEF tables, seen
  <2> QED BY <1>0, <1>2, <1>12, <2>1 DEF Sound, Consumed, Issued, Resolved
<1>14. Others(a)
  BY <1>1, <1>12 DEF Others, Kept, SameRow, tables, seen
<1>15. SameHistory
  BY <1>1 DEF SameHistory, tables, Issued
<1>16. SameSends
  BY <1>0, <1>1, <1>12 DEF SameSends, tables, seen, Consumed, Issued, Resolved
<1>17. SameBudget
  BY <1>0, <1>1, <1>12 DEF SameBudget, tables, seen
<1>18. GatesInv'
  <2>1. CASE gates' = gates /\ task'[a].gate = NULL
    <3>1. \A h : h # NULL => Members(h)' = Members(h)
      BY <1>3, <1>12, <2>1 DEF Members
    <3>2. \A kk \in Keys : (gates[kk] # NULL => Members(gates[kk]) # {})'
      BY <2>1, <3>1 DEF CredInv, GatesInv
    <3>3. task'[a].pc = "admit" => ~Budgeted(a)'
      BY <1>3, <1>4, <1>5, <1>6, <1>7, <1>12, <2>1, <1>0, TaskReplaced DEF Replaces, Budgeted, Direct
    <3> QED BY <1>0, <1>12, <2>1, <3>2, <3>3 DEF GatesInv, Budgeted, Direct
  <2>2. CASE /\ credential # NULL /\ task' = [task EXCEPT ![a] = n2] /\ gates' = [gates EXCEPT ![k] = g]
    <3>0. /\ k \in Keys /\ g \in Attempts /\ g # NULL
          /\ task'[a].pc = "admit" /\ task'[a].key = k /\ task'[a].gate = g
      BY <1>0, <1>4, <1>7, <2>2, TaskReplaced DEF Replaces
    <3>1. gates'[k] = g /\ \A kk \in Keys : kk # k => gates'[kk] = gates[kk]
      BY <1>0, <2>2, <3>0 DEF CredTypeOK
    <3>2. gates[k] # NULL => g = gates[k]
      BY DEF g
    <3>3. ASSUME NEW kk \in Keys, gates'[kk] # NULL PROVE \E b \in Attempts : task'[b].gate = gates'[kk]
      <4>1. CASE kk = k
        BY <3>0, <3>1, <4>1
      <4>2. CASE kk # k
        <5>1. PICK b \in Attempts : task[b].gate = gates[kk]
          BY <1>0, <3>1, <3>3, <4>2 DEF GatesInv, Members
        <5> QED BY <1>3, <1>12, <3>1, <3>3, <4>2, <5>1
      <4> QED BY <4>1, <4>2
    <3>4. \A kk \in Keys : (gates[kk] # NULL => Members(gates[kk]) # {})'
      BY <3>3 DEF Members
    <3>5. \A b \in Attempts : task'[b].gate # NULL => task'[b].key \in Keys /\ gates'[task'[b].key] = task'[b].gate
      BY <1>0, <1>12, <3>0, <3>1, <3>2 DEF GatesInv
    <3> QED BY <1>0, <1>12, <3>0, <3>4, <3>5 DEF GatesInv, Budgeted, Direct
  <2> QED BY <1>0, <1>4, <1>5, <1>6, <1>7, <2>1, <2>2, TaskReplaced DEF Replaces
<1> QED BY <1>10, <1>13, <1>14, <1>15, <1>16, <1>17, <1>18, OthersSound, HistoryKept, SendsKept, BudgetKept DEF CredInv

\* Acquiring the handoff gives the dispatch an open receipt, or ends it unsent.
LEMMA AcquireInv == ASSUME CredInv, NEW a \in Attempts, Acquire(a) PROVE CredInv'
<1>0. CredTypeOK /\ Sound(a) /\ GatesInv /\ task[a] \in Task /\ task[a].pc = "acquire" /\ ledger[a] \in Receipt
  BY DEF CredInv, CredTypeOK, Acquire, At
<1>1. UNCHANGED <<permits, failures, revision, gates, clock, allowance, credential, seen>> /\ troubles' \in Nat
  BY <1>0 DEF Acquire, Trouble, CredTypeOK
<1>2. Consumed(a) /\ task[a].path = "direct" /\ a \notin concluded /\ a \notin paid
  BY <1>0 DEF Sound
<1> DEFINE n1 == [task[a] EXCEPT !.pc = "finish", !.outcome = "refused"]
           n2 == [task[a] EXCEPT !.pc = "send"]
<1>3. \/ /\ task' = [task EXCEPT ![a] = n1] /\ ledger' = ledger
      \/ /\ task' = [task EXCEPT ![a] = n2] /\ ledger[a].state = "unknown"
         /\ ledger' = [ledger EXCEPT ![a].owner = TRUE]
  BY DEF Acquire, Ends, Goes
<1>4. /\ ledger' \in [Attempts -> Receipt] /\ ledger'[a].state = ledger[a].state
      /\ \A b \in Attempts : b # a => ledger'[b] = ledger[b]
  <2>1. CASE ledger' = ledger
    BY <1>0, <2>1 DEF CredTypeOK
  <2>2. CASE ledger' = [ledger EXCEPT ![a].owner = TRUE]
    BY <1>0, <2>2 DEF CredTypeOK, Receipt
  <2> QED BY <1>3, <2>1, <2>2
<1>5. /\ n1 \in Task /\ n1.pc = "finish" /\ n1.outcome = "refused" /\ n1.outcome \in Outcomes
      /\ n1.gate = task[a].gate /\ n1.key = task[a].key /\ n1.holds = task[a].holds
      /\ n1.debited = task[a].debited /\ n1.path = task[a].path /\ n1.previous = task[a].previous
  BY <1>0 DEF Task, Outcomes, Unsent
<1>6. /\ n2 \in Task /\ n2.pc = "send"
      /\ n2.gate = task[a].gate /\ n2.key = task[a].key /\ n2.holds = task[a].holds
      /\ n2.debited = task[a].debited /\ n2.path = task[a].path /\ n2.previous = task[a].previous
  BY <1>0 DEF Task
<1> HIDE DEF n1, n2
<1>7. PICK n \in {n1, n2} : Replaces(a, n) /\ (n.pc = "send" => ledger[a].state = "unknown")
  BY <1>0, <1>3, <1>5, <1>6, TaskReplaced
<1>8. CredTypeOK'
  BY <1>0, <1>1, <1>4, <1>7 DEF CredTypeOK, Replaces, seen
<1>9. Sound(a)'
  BY <1>0, <1>1, <1>2, <1>4, <1>5, <1>6, <1>7 DEF Sound, Consumed, Issued, Resolved, Replaces, seen
<1>10. Others(a)
  BY <1>1, <1>4, <1>7 DEF Others, Kept, SameRow, Replaces, seen
<1>11. SameHistory
  BY <1>1, <1>4 DEF SameHistory, Issued
<1>12. SameSends
  BY <1>0, <1>1, <1>4, <1>7 DEF SameSends, Replaces, seen, Consumed, Issued, Resolved
<1>13. SameBudget
  BY <1>0, <1>1, <1>5, <1>6, <1>7 DEF SameBudget, Replaces, seen
<1>14. GatesInv'
  BY <1>0, <1>1, <1>5, <1>6, <1>7, GatesAdvance
<1> QED BY <1>8, <1>9, <1>10, <1>11, <1>12, <1>13, <1>14, OthersSound, HistoryKept, SendsKept, BudgetKept DEF CredInv

\* Two tasks never have a debit on one request.
LEMMA OneDebit ==
    ASSUME GatesInv, NEW a \in Attempts, NEW b \in Attempts, task[a].debited, task[b].debited,
           task[a].key = task[b].key
    PROVE  a = b
<1>1. task[a].holds /\ task[b].holds /\ task[a].gate # NULL /\ task[b].gate # NULL
  BY DEF GatesInv
<1>2. task[a].gate = task[b].gate
  BY <1>1 DEF GatesInv
<1> QED BY <1>1, <1>2 DEF GatesInv

\* Any set of sends can be counted.
LEMMA SendsFinite ==
    ASSUME SendsInv, NEW S, S \subseteq sent PROVE IsFiniteSet(S) /\ Cardinality(S) \in Nat
BY FS_Subset, FS_CardinalityType DEF SendsInv

\* A count of failures is a number.
LEMMA FailedNat ==
    ASSUME CredTypeOK, NEW f \in Failure \cup {NULL}
    PROVE  Failed(f) \in Nat /\ (f = NULL => Failed(f) = 0) /\ (f # NULL => Failed(f) = f.failed)
BY DEF Failed, Failure

\* The send: its attempt holds the request's key, and a budgeted one was
\* debited before.
LEMMA SendInv == ASSUME CredInv, NEW a \in Attempts, Send(a) PROVE CredInv'
<1> DEFINE new == <<a, task[a].key, task[a].path>>
<1>0. /\ CredTypeOK /\ Sound(a) /\ GatesInv /\ SendsInv /\ task[a] \in Task /\ task[a].pc = "send"
      /\ sent' = sent \cup {new}
  BY DEF CredInv, CredTypeOK, Send, At
<1>1. UNCHANGED <<tables, revision, gates, world, concluded, forgiven>>
  BY DEF Send
<1>2. /\ Consumed(a) /\ task[a].path \in {"direct", "job"} /\ a \notin concluded /\ a \notin paid
      /\ ledger[a].state = "unknown" /\ ~Resolved(a) /\ task[a].key \in Keys /\ permits[a].request = task[a].key
  BY <1>0 DEF Sound, Resolved
<1>3. PICK o \in Answered \cup {"zero", "unsure"}, charged \in BOOLEAN, rejected \in BOOLEAN :
        /\ (o \in Answered => charged) /\ (o = "zero" => ~charged)
        /\ task' = [task EXCEPT ![a].pc = "finish", ![a].outcome = o, ![a].rejected = rejected]
        /\ paid' = IF charged THEN paid \cup {a} ELSE paid
  BY DEF Send
<1> DEFINE n == [task[a] EXCEPT !.pc = "finish", !.outcome = o, !.rejected = rejected]
<1>4. task' = [task EXCEPT ![a] = n]
  BY <1>0, <1>3 DEF CredTypeOK
<1>5. o \in Outcomes /\ (charged => o \notin Unsent)
  BY <1>3 DEF Outcomes, Unsent, Answered
<1>6. /\ n \in Task /\ n.pc = "finish" /\ n.outcome = o
      /\ n.gate = task[a].gate /\ n.key = task[a].key /\ n.holds = task[a].holds
      /\ n.debited = task[a].debited /\ n.path = task[a].path /\ n.previous = task[a].previous
  BY <1>0, <1>5 DEF Task
<1> HIDE DEF n
<1>7. Replaces(a, n)
  BY <1>0, <1>4, <1>6, TaskReplaced
<1>8. CredTypeOK'
  <2>1. new \in Attempts \X Keys \X {"direct", "job"}
    BY <1>2
  <2>2. sent' \subseteq Attempts \X Keys \X {"direct", "job"} /\ forgiven' \subseteq sent'
    BY <1>0, <1>1, <2>1 DEF CredTypeOK
  <2>3. paid' \subseteq Attempts
    BY <1>0, <1>3 DEF CredTypeOK
  <2> QED BY <1>0, <1>1, <1>7, <2>2, <2>3 DEF CredTypeOK, Replaces, tables, world
<1>9. Sound(a)'
  <2>1. permits' = permits /\ ledger' = ledger /\ concluded' = concluded
    BY <1>1 DEF tables
  <2>2. a \in paid' => charged
    BY <1>2, <1>3
  <2> QED BY <1>0, <1>2, <1>5, <1>6, <1>7, <2>1, <2>2 DEF Sound, Consumed, Issued, Resolved, Replaces
<1>10. Others(a)
  <2>1. \A b \in Attempts : b # a => (b \in paid' <=> b \in paid)
    BY <1>3
  <2> QED BY <1>1, <1>7, <2>1 DEF Others, Kept, SameRow, Replaces, tables
<1>11. SameHistory
  BY <1>1 DEF SameHistory, Issued, tables
<1>12. \A s \in sent : s[1] \in Attempts /\ s[1] # a
  BY <1>0 DEF SendsInv, CredTypeOK
<1>13. SendsInv'
  <2>1. permits' = permits /\ ledger' = ledger /\ concluded' = concluded
    BY <1>1 DEF tables
  <2>2. \A b \in Attempts : (Consumed(b)' <=> Consumed(b)) /\ (Resolved(b)' <=> Resolved(b)) /\ (Issued(b)' <=> Issued(b))
    BY <2>1 DEF Consumed, Issued, Resolved
  <2>3. IsFiniteSet(sent')
    BY <1>0, FS_AddElement DEF SendsInv
  <2>4. ASSUME NEW s \in sent'
        PROVE  /\ Consumed(s[1])' /\ task'[s[1]].pc \in {"idle", "finish"}
               /\ s[1] \in concluded' \/ Resolved(s[1])' \/ permits'[s[1]].request = s[2]
               /\ task'[s[1]].pc = "finish" => task'[s[1]].key = s[2] /\ task'[s[1]].path = s[3]
    <3>1. CASE s \in sent
      BY <1>0, <1>7, <1>12, <2>1, <2>2, <3>1 DEF SendsInv, Replaces
    <3>2. CASE s = new
      BY <1>2, <1>6, <1>7, <2>1, <2>2, <3>2 DEF Replaces
    <3> QED BY <1>0, <3>1, <3>2
  <2>5. \A s, t \in sent' : s[1] = t[1] => s = t
    BY <1>0, <1>12 DEF SendsInv
  <2>6. \A b, c \in Attempts :
          /\ Issued(b)' /\ Issued(c)' /\ b # c
          /\ permits'[b].request # NULL /\ permits'[b].request = permits'[c].request
          => Resolved(b)' \/ Resolved(c)'
    BY <1>0, <2>1, <2>2 DEF SendsInv
  <2> QED BY <2>3, <2>4, <2>5, <2>6 DEF SendsInv
<1>14. GatesInv'
  BY <1>0, <1>1, <1>6, <1>7, GatesAdvance
<1>15. BudgetInv'
  <2>0. SUFFICES ASSUME RequestAttempts # NULL PROVE BudgetInv'
    BY DEF BudgetInv
  <2>1. /\ failures' = failures /\ forgiven' = forgiven
        /\ BudgetInv
    BY <1>1 DEF tables, CredInv
  <2>2. task[a].path = "direct" => task[a].debited
    BY <1>0, <2>0 DEF GatesInv, Budgeted, Direct
  <2>3. \A b \in Attempts : /\ task'[b].debited <=> task[b].debited
                            /\ task'[b].key = task[b].key /\ task'[b].previous = task[b].previous
    BY <1>6, <1>7 DEF Replaces
  <2>4. new \notin forgiven /\ new[1] = a /\ new[2] = task[a].key /\ new[3] = task[a].path
    BY <1>0, <1>12 DEF CredTypeOK
  <2>5. \A k \in Keys : Owed(k)' = IF k = task[a].key /\ task[a].path = "direct" THEN Owed(k) \cup {new} ELSE Owed(k)
    BY <1>0, <2>1, <2>4 DEF Owed, SendsOf
  <2>6. \A k : Owed(k) \subseteq sent
    BY DEF Owed, SendsOf
  <2>7. ASSUME NEW b \in Attempts, task[b].debited
        PROVE  {s \in Owed(task[b].key) : s[1] # b}' = {s \in Owed(task[b].key) : s[1] # b}
    <3>1. task[b].key \in Keys
      BY <1>0, <2>7 DEF GatesInv
    <3>2. (Owed(task[b].key))' = IF task[b].key = task[a].key /\ task[a].path = "direct"
                                 THEN Owed(task[b].key) \cup {new} ELSE Owed(task[b].key)
      BY <1>0, <2>1, <2>3, <2>4 DEF Owed, SendsOf
    <3>3. CASE b = a
      BY <2>4, <3>2, <3>3
    <3>4. CASE b # a
      <4>1. ~(task[b].key = task[a].key /\ task[a].path = "direct")
        BY <1>0, <2>2, <2>7, <3>4, OneDebit
      <4> QED BY <3>2, <4>1
    <3> QED BY <3>3, <3>4
  <2>8. ASSUME NEW k \in Keys
        PROVE  Cardinality(Owed(k)') <= Failed(failures'[k]) /\ Failed(failures'[k]) <= RequestAttempts
    <3>1. CASE k = task[a].key /\ task[a].path = "direct"
      <4> DEFINE rest == {s \in Owed(k) : s[1] # a}
      <4>1. rest \subseteq sent /\ new \notin rest
        BY <2>4, <2>6
      <4>2. IsFiniteSet(rest) /\ Cardinality(rest) \in Nat
        BY <1>0, <4>1, SendsFinite
      <4>3. Owed(k)' = rest \cup {new}
        BY <1>12, <2>5, <2>6, <3>1
      <4>4. Cardinality(Owed(k)') = Cardinality(rest) + 1
        BY <4>1, <4>2, <4>3, FS_AddElement
      <4>5. /\ failures[k] # NULL /\ failures[k].failed = Failed(task[a].previous) + 1
            /\ Cardinality(rest) <= Failed(task[a].previous)
        BY <2>0, <2>1, <2>2, <3>1 DEF BudgetInv
      <4>6. Failed(task[a].previous) \in Nat /\ Failed(failures[k]) = failures[k].failed
        BY <1>0, <4>5, FailedNat DEF CredTypeOK, Task
      <4> QED BY <2>0, <2>1, <4>2, <4>4, <4>5, <4>6 DEF BudgetInv
    <3>2. CASE ~(k = task[a].key /\ task[a].path = "direct")
      BY <2>0, <2>1, <2>5, <3>2 DEF BudgetInv
    <3> QED BY <3>1, <3>2
  <2>9. ASSUME NEW b \in Attempts, task'[b].debited
        PROVE  /\ failures'[task'[b].key] # NULL
               /\ failures'[task'[b].key].failed = Failed(task'[b].previous) + 1
               /\ Cardinality({s \in Owed(task[b].key) : s[1] # b})' <= Failed(task'[b].previous)
    BY <2>0, <2>1, <2>3, <2>7, <2>9 DEF BudgetInv
  <2>10. \A s \in sent' : s[3] = "direct" /\ task'[s[1]].pc = "finish" => task'[s[1]].debited
    BY <1>0, <1>7, <1>12, <2>0, <2>1, <2>2, <2>3, <2>4 DEF BudgetInv, Replaces
  <2> QED BY <2>8, <2>9, <2>10 DEF BudgetInv
<1> QED BY <1>8, <1>9, <1>10, <1>11, <1>13, <1>14, <1>15, OthersSound, HistoryKept DEF CredInv

\* An operator's evidence resolves a charge and frees the request.
LEMMA ReconcileInv == ASSUME CredInv, NEW a \in Attempts, Reconcile(a) PROVE CredInv'
<1> DEFINE state == IF a \in paid THEN "settled" ELSE "released"
<1>0. /\ CredTypeOK /\ Sound(a) /\ ledger[a] \in Receipt /\ ledger[a].state = "unknown"
      /\ IF task[a].path = "job" THEN task[a].pc = "finish" ELSE task[a].pc # "send"
  BY DEF CredInv, CredTypeOK, Reconcile, At
<1>1. UNCHANGED <<revision, failures, task, gates, clock, allowance, credential, seen>> /\ troubles' \in Nat
  BY <1>0 DEF Reconcile, Trouble, CredTypeOK
<1>2. Consumed(a) /\ Issued(a) /\ permits[a] \in Permit /\ permits[a] # NULL
  BY <1>0, TypeFacts DEF Sound, Consumed, Issued
<1>3. /\ ledger' = [ledger EXCEPT ![a] = Finished(ledger[a], state, a \in paid, FALSE)]
      /\ permits' = [permits EXCEPT ![a] = Retired(permits[a], state)]
  BY DEF Reconcile
<1>4. (a \in paid) \in BOOLEAN /\ state \in {"settled", "released"}
  OBVIOUS
<1>5. Finished(ledger[a], state, a \in paid, FALSE) \in Receipt
      /\ Finished(ledger[a], state, a \in paid, FALSE).state = state
  BY <1>0, <1>4 DEF Finished, Receipt
<1>6. /\ Retired(permits[a], state) \in Permit /\ Retired(permits[a], state) # NULL
      /\ Retired(permits[a], state).consumed = permits[a].consumed
      /\ Retired(permits[a], state).accepted = permits[a].accepted
      /\ Retired(permits[a], state).finished = permits[a].finished
      /\ Retired(permits[a], state).request \in {NULL, permits[a].request}
  <2>1. Retired(permits[a], state) \in {permits[a], [permits[a] EXCEPT !.request = NULL]}
    BY DEF Retired
  <2>2. [permits[a] EXCEPT !.request = NULL] \in Permit
    BY <1>2 DEF Permit
  <2>3. Retired(permits[a], state) \in Permit
    BY <1>2, <2>1, <2>2
  <2> QED BY <1>2, <2>1, <2>3, CredNullAssumption DEF Permit
<1> HIDE DEF state
<1>7. /\ ledger' \in [Attempts -> Receipt] /\ ledger'[a].state = state
      /\ \A b \in Attempts : b # a => ledger'[b] = ledger[b] /\ permits'[b] = permits[b]
      /\ permits' \in [Attempts -> Permit \cup {NULL}] /\ permits'[a] = Retired(permits[a], state)
  BY <1>0, <1>3, <1>5, <1>6 DEF CredTypeOK
<1>8. CredTypeOK'
  BY <1>0, <1>1, <1>7 DEF CredTypeOK, seen
<1>9. state \in {"settled", "released"} /\ (a \in paid => state # "released")
  BY DEF state
<1>10. Sound(a)'
  BY <1>0, <1>1, <1>2, <1>6, <1>7, <1>9 DEF Sound, Consumed, Issued, Resolved, seen
<1>11. Others(a)
  BY <1>1, <1>7 DEF Others, Kept, SameRow, seen
<1>12. SameHistory
  BY <1>0, <1>2, <1>6, <1>7 DEF SameHistory, Issued
<1>13. SameSends
  <2>1. \A b \in Attempts : Consumed(b) => Consumed(b)'
    BY <1>6, <1>7 DEF Consumed, Issued
  <2>2. task' = task /\ sent' = sent /\ concluded' = concluded
    BY <1>1 DEF seen
  <2>3. Resolved(a)' /\ \A b \in Attempts : Resolved(b) => Resolved(b)'
    BY <1>7, <1>9 DEF Resolved
  <2>4. \A b \in Attempts : permits'[b].request \in {NULL, permits[b].request} /\ (permits[b] = NULL => permits'[b] = NULL)
    BY <1>2, <1>6, <1>7
  <2> QED BY <1>2, <1>7, <2>1, <2>2, <2>3, <2>4 DEF SameSends
<1>14. SameBudget
  BY <1>1 DEF SameBudget, seen
<1> QED BY <1>1, <1>8, <1>10, <1>11, <1>12, <1>13, <1>14, OthersSound, HistoryKept, SendsKept, BudgetKept, GatesKept DEF CredInv

\* The larger of two numbers is a number.
LEMMA MaxPair == ASSUME NEW x \in Nat, NEW y \in Nat PROVE Max({x, y}) \in Nat
<1>1. \E z \in {x, y} : \A w \in {x, y} : z >= w
  <2>1. CASE x >= y
    BY <2>1
  <2>2. CASE y >= x
    BY <2>2
  <2> QED BY <2>1, <2>2
<1>2. Max({x, y}) \in {x, y}
  BY <1>1 DEF Max
<1> QED BY <1>2

\* The failures that count, and the row a debit leaves.
LEMMA DebitedRow ==
    ASSUME CredTypeOK, NEW k \in Keys
    PROVE  /\ Counted(k) \in {NULL, failures[k]} /\ Counted(k) \in Failure \cup {NULL}
           /\ Debited(Counted(k)) \in Failure /\ Debited(Counted(k)) # NULL
           /\ Debited(Counted(k)).failed = Failed(Counted(k)) + 1
<1>1. Counted(k) \in {NULL, failures[k]} /\ failures[k] \in Failure \cup {NULL}
  BY DEF Counted, CredTypeOK
<1> DEFINE f == Counted(k)
<1>2. f \in Failure \cup {NULL}
  BY <1>1
<1> HIDE DEF f
<1>3. Failed(f) \in Nat
  BY <1>2, FailedNat
<1>4. (IF f = NULL THEN clock ELSE Max({f.last, clock})) \in Nat
  <2>1. clock \in Nat /\ (f # NULL => f.last \in Nat)
    BY <1>2 DEF CredTypeOK, Failure
  <2> QED BY <2>1, MaxPair
<1>5. Debited(f) \in Failure /\ Debited(f).failed = Failed(f) + 1
  BY <1>3, <1>4 DEF Debited, Failure
<1> QED BY <1>1, <1>2, <1>5, CredNullAssumption DEF f

\* Admission takes the gate: nobody else holds it.
LEMMA GatesAdmit ==
    ASSUME GatesInv, NEW a \in Attempts, NEW n, Replaces(a, n), gates' = gates,
           task[a].pc = "admit", n.pc \in {"acquire", "send", "finish"},
           n.gate = task[a].gate, n.key = task[a].key, n.path = task[a].path,
           n.holds <=> Budgeted(a), Budgeted(a) => GateFree(task[a].gate),
           n.debited => Budgeted(a), n.pc \in {"acquire", "send"} /\ Budgeted(a) => n.debited
    PROVE  GatesInv'
<1>1. \A g : Members(g)' = Members(g)
  BY DEF Members, Replaces
<1>2. \A k \in Keys : (gates[k] # NULL => Members(gates[k]) # {})'
  BY <1>1 DEF GatesInv
<1>3. \A b \in Attempts : /\ task'[b].gate = task[b].gate /\ task'[b].key = task[b].key
                          /\ task'[b].path = task[b].path
                          /\ b # a => task'[b] = task[b]
  BY DEF Replaces
<1>4. \A b \in Attempts : Budgeted(b)' <=> Budgeted(b)
  BY <1>3 DEF Budgeted, Direct
<1>5. ASSUME NEW b \in Attempts, b # a, task[b].holds, task[b].gate = task[a].gate, Budgeted(a) PROVE FALSE
  BY <1>5 DEF GateFree, Members
<1>6. task'[a].holds <=> Budgeted(a)
  BY DEF Replaces
<1>7. \A b, c \in Attempts : task'[b].holds /\ task'[c].holds /\ task'[b].gate = task'[c].gate => b = c
  BY <1>3, <1>5, <1>6 DEF GatesInv
<1>8. ASSUME NEW b \in Attempts
      PROVE  /\ task'[b].gate # NULL => task'[b].key \in Keys /\ gates'[task'[b].key] = task'[b].gate
             /\ task'[b].pc \in {"admit", "acquire", "send"} /\ Budgeted(b)' => task'[b].gate # NULL
             /\ task'[b].pc \in {"idle", "resolve"} => task'[b].gate = NULL
             /\ task'[b].holds => task'[b].gate # NULL /\ task'[b].pc # "admit"
             /\ task'[b].debited => /\ task'[b].holds /\ Budgeted(b)'
                                    /\ task'[b].pc \in {"acquire", "send", "finish"}
             /\ task'[b].pc \in {"acquire", "send"} /\ Budgeted(b)' => task'[b].debited
  <2>1. CASE b = a
    BY <1>3, <1>4, <1>6, <2>1 DEF GatesInv, Replaces
  <2>2. CASE b # a
    BY <1>3, <1>4, <2>2 DEF GatesInv
  <2> QED BY <2>1, <2>2
<1> QED BY <1>2, <1>7, <1>8 DEF GatesInv

\* The request's key is bound to the attempt: no other unresolved one has it.
LEMMA BindSends ==
    ASSUME CredInv, NEW a \in Attempts, NEW n, Replaces(a, n), task[a].pc = "admit",
           Issued(a), ~Unresolved(task[a].key),
           permits' = [permits EXCEPT ![a].request = task[a].key],
           UNCHANGED <<ledger, sent, concluded>>
    PROVE  SendsInv'
<1>0. CredTypeOK /\ SendsInv /\ permits[a] \in Permit
  BY TypeFacts DEF CredInv
<1>1. /\ \A b \in Attempts : b # a => permits'[b] = permits[b]
      /\ permits'[a].request = task[a].key /\ permits'[a].consumed = permits[a].consumed
  BY <1>0 DEF CredTypeOK, Permit
<1>2. \A s \in sent : s[1] \in Attempts /\ s[1] # a
  BY <1>0 DEF SendsInv, CredTypeOK
<1>3. \A b \in Attempts : b # a => (Consumed(b)' <=> Consumed(b)) /\ (Issued(b)' <=> Issued(b))
  BY <1>1 DEF Consumed, Issued
<1>4. \A b \in Attempts : Resolved(b)' <=> Resolved(b)
  BY DEF Resolved
<1>5. ASSUME NEW b \in Attempts, b # a, Issued(b), permits[b].request # NULL, permits[b].request = task[a].key
      PROVE  Resolved(b)
  <2>1. Consumed(b) /\ permits[b].finished = 0
    BY <1>5 DEF CredInv, Sound, Consumed
  <2> QED BY <1>5, <2>1 DEF Unresolved
<1>6. ASSUME NEW b \in Attempts, NEW c \in Attempts, Issued(b)', Issued(c)', b # c,
             permits'[b].request # NULL, permits'[b].request = permits'[c].request
      PROVE  Resolved(b)' \/ Resolved(c)'
  <2>1. CASE b # a /\ c # a
    BY <1>0, <1>1, <1>3, <1>4, <1>6, <2>1 DEF SendsInv
  <2>2. CASE b = a
    BY <1>1, <1>3, <1>4, <1>5, <1>6, <2>2
  <2>3. CASE c = a
    BY <1>1, <1>3, <1>4, <1>5, <1>6, <2>3
  <2> QED BY <2>1, <2>2, <2>3
<1>7. ASSUME NEW s \in sent
      PROVE  /\ Consumed(s[1])' /\ task'[s[1]].pc \in {"idle", "finish"}
             /\ s[1] \in concluded' \/ Resolved(s[1])' \/ permits'[s[1]].request = s[2]
             /\ task'[s[1]].pc = "finish" => task'[s[1]].key = s[2] /\ task'[s[1]].path = s[3]
  BY <1>0, <1>1, <1>2, <1>3, <1>4 DEF SendsInv, Replaces
<1> QED BY <1>0, <1>6, <1>7 DEF SendsInv

\* The debit covers the send that may follow it, and what the task would
\* restore covers the sends before it.
LEMMA DebitBudget ==
    ASSUME CredInv, RequestAttempts # NULL, NEW a \in Attempts, NEW n, Replaces(a, n),
           task[a].pc = "admit", Budgeted(a), GateFree(task[a].gate),
           n.pc = "acquire", n.debited, n.key = task[a].key, n.previous = Counted(task[a].key),
           ~(Failed(Counted(task[a].key)) >= RequestAttempts),
           failures' = [failures EXCEPT ![task[a].key] = Debited(Counted(task[a].key))],
           sent' = sent,
           forgiven' = IF failures[task[a].key] # NULL /\ Counted(task[a].key) = NULL
                       THEN forgiven \cup SendsOf(task[a].key) ELSE forgiven
    PROVE  BudgetInv'
<1>0. CredTypeOK /\ SendsInv /\ GatesInv /\ BudgetInv /\ Sound(a)
  BY DEF CredInv
<1>1. PICK k \in Keys : k = task[a].key
  BY <1>0 DEF Sound
<1>2. PICK f \in Failure \cup {NULL} : f = Counted(k)
  BY <1>0, <1>1, DebitedRow
<1>3. /\ f \in {NULL, failures[k]} /\ Debited(f) \in Failure /\ Debited(f) # NULL
      /\ Debited(f).failed = Failed(f) + 1
  BY <1>0, <1>1, <1>2, DebitedRow
<1>4. Failed(f) \in Nat /\ RequestAttempts \in Nat /\ Failed(f) + 1 <= RequestAttempts
  BY <1>0, <1>1, <1>2, FailedNat, AllowanceAssumption
<1>5. failures'[k] = Debited(f) /\ \A kk \in Keys : kk # k => failures'[kk] = failures[kk]
  BY <1>0, <1>1, <1>2 DEF CredTypeOK
<1>6. forgiven' = IF failures[k] # NULL /\ f = NULL THEN forgiven \cup SendsOf(k) ELSE forgiven
  BY <1>1, <1>2
<1>7. \A kk \in Keys : kk # k => Owed(kk)' = Owed(kk)
  BY <1>6 DEF Owed, SendsOf
<1>8. IsFiniteSet(Owed(k)') /\ Cardinality(Owed(k)') \in Nat /\ Cardinality(Owed(k)') <= Failed(f)
  <2>1. CASE failures[k] # NULL /\ f = NULL
    <3>1. Owed(k)' = {}
      BY <1>6, <2>1 DEF Owed, SendsOf
    <3> QED BY <1>4, <3>1, FS_EmptySet
  <2>2. CASE ~(failures[k] # NULL /\ f = NULL)
    <3>1. Owed(k)' = Owed(k) /\ Owed(k) \subseteq sent
      BY <1>6, <2>2 DEF Owed, SendsOf
    <3>2. f = failures[k]
      BY <1>3, <2>2
    <3>3. Cardinality(Owed(k)) <= Failed(failures[k])
      BY <1>0 DEF BudgetInv
    <3> QED BY <1>0, <3>1, <3>2, <3>3, SendsFinite
  <2> QED BY <2>1, <2>2
<1>9. ASSUME NEW kk \in Keys
      PROVE  Cardinality(Owed(kk)') <= Failed(failures'[kk]) /\ Failed(failures'[kk]) <= RequestAttempts
  <2>1. CASE kk = k
    <3>1. Failed(failures'[k]) = Failed(f) + 1
      BY <1>3, <1>5 DEF Failed
    <3> QED BY <1>4, <1>8, <2>1, <3>1
  <2>2. CASE kk # k
    BY <1>0, <1>5, <1>7, <2>2 DEF BudgetInv
  <2> QED BY <2>1, <2>2
<1>10. ASSUME NEW b \in Attempts, task'[b].debited
       PROVE  /\ failures'[task'[b].key] # NULL
              /\ failures'[task'[b].key].failed = Failed(task'[b].previous) + 1
              /\ Cardinality({s \in Owed(task[b].key) : s[1] # b})' <= Failed(task'[b].previous)
  <2>1. CASE b = a
    <3>1. task'[b].key = k /\ task'[b].previous = f
      BY <1>1, <1>2, <2>1 DEF Replaces
    <3>2. PICK rest \in SUBSET (Owed(k)') : rest = {s \in Owed(task[b].key) : s[1] # b}'
      <4>1. (Owed(task[b].key))' = Owed(k)'
        BY <3>1 DEF Owed, SendsOf
      <4> QED BY <4>1
    <3>3. Cardinality(rest) \in Nat /\ Cardinality(rest) <= Cardinality(Owed(k)')
      BY <1>8, FS_Subset, FS_CardinalityType
    <3>4. Cardinality(rest) <= Failed(f)
      BY <1>4, <1>8, <3>3
    <3> QED BY <1>3, <1>5, <3>1, <3>2, <3>4
  <2>2. CASE b # a
    <3>1. task'[b] = task[b] /\ task[b].debited
      BY <1>10, <2>2 DEF Replaces
    <3>2. task[b].key \in Keys /\ task[b].key # k
      <4>1. task[b].holds /\ task[b].gate # NULL /\ task[b].key \in Keys /\ gates[task[b].key] = task[b].gate
        BY <1>0, <3>1 DEF GatesInv
      <4>2. task[a].gate # NULL /\ gates[k] = task[a].gate
        BY <1>0, <1>1 DEF GatesInv
      <4>3. task[b].gate # task[a].gate
        BY <4>1 DEF GateFree, Members
      <4> QED BY <4>1, <4>2, <4>3
    <3>3. {s \in Owed(task[b].key) : s[1] # b}' = {s \in Owed(task[b].key) : s[1] # b}
      BY <1>6, <3>1, <3>2 DEF Owed, SendsOf
    <3>4. /\ failures[task[b].key] # NULL
          /\ failures[task[b].key].failed = Failed(task[b].previous) + 1
          /\ Cardinality({s \in Owed(task[b].key) : s[1] # b}) <= Failed(task[b].previous)
      BY <1>0, <3>1 DEF BudgetInv
    <3>5. failures'[task'[b].key] = failures[task[b].key]
      BY <1>5, <3>1, <3>2
    <3> QED BY <3>1, <3>3, <3>4, <3>5
  <2> QED BY <2>1, <2>2
<1>11. \A s \in sent' : s[3] = "direct" /\ task'[s[1]].pc = "finish" => task'[s[1]].debited
  <2>1. \A s \in sent : s[1] \in Attempts /\ s[1] # a
    BY <1>0 DEF SendsInv, CredTypeOK
  <2> QED BY <1>0, <2>1 DEF BudgetInv, Replaces
<1> QED BY <1>9, <1>10, <1>11 DEF BudgetInv

\* Admission binds the request and debits its allowance, or refuses.
LEMMA AdmitInv == ASSUME CredInv, NEW a \in Attempts, Admit(a) PROVE CredInv'
<1>0. CredTypeOK /\ Sound(a) /\ GatesInv /\ task[a] \in Task /\ task[a].pc = "admit"
  BY DEF CredInv, CredTypeOK, Admit, At
<1>1. /\ UNCHANGED <<revision, ledger, gates, world, sent, paid, concluded>>
      /\ Budgeted(a) => GateFree(task[a].gate)
  BY DEF Admit
<1>2. /\ Consumed(a) /\ Issued(a) /\ permits[a] \in Permit /\ permits[a].consumed
      /\ task[a].path \in {"direct", "job"} /\ a \notin concluded
      /\ a \notin paid /\ task[a].key \in Keys /\ task[a].key # NULL
  BY <1>0, TypeFacts, CredNullAssumption DEF Sound, Consumed
<1>4. ~task[a].debited
  BY <1>0 DEF GatesInv
<1> DEFINE k == task[a].key
           refused == \/ Unresolved(k) \/ permits[a].finished # 0 \/ permits[a].request # NULL
                      \/ Budgeted(a) /\ Failed(Counted(k)) >= RequestAttempts
<1>5. CASE refused
  <2> DEFINE n == [task[a] EXCEPT !.pc = "finish", !.outcome = "refused", !.holds = Budgeted(a)]
  <2>1. task' = [task EXCEPT ![a] = n] /\ UNCHANGED <<permits, failures, forgiven>>
    BY <1>0, <1>5 DEF Admit, CredTypeOK
  <2>2. Budgeted(a) \in BOOLEAN
    BY DEF Budgeted
  <2>3. /\ n \in Task /\ n.pc = "finish" /\ n.outcome = "refused" /\ n.outcome \in Outcomes
        /\ n.gate = task[a].gate /\ n.key = task[a].key /\ n.path = task[a].path
        /\ n.holds = Budgeted(a) /\ n.debited = task[a].debited
    BY <1>0, <2>2 DEF Task, Outcomes, Unsent
  <2> HIDE DEF n
  <2>4. Replaces(a, n)
    BY <1>0, <2>1, <2>3, TaskReplaced
  <2>5. CredTypeOK'
    BY <1>0, <1>1, <2>1, <2>4 DEF CredTypeOK, Replaces, world
  <2>6. Sound(a)'
    BY <1>0, <1>1, <1>2, <2>1, <2>3, <2>4 DEF Sound, Consumed, Issued, Resolved, Replaces
  <2>7. Others(a)
    BY <1>1, <2>1, <2>4 DEF Others, Kept, SameRow, Replaces
  <2>8. SameHistory
    BY <1>1, <2>1 DEF SameHistory, Issued
  <2>9. SameSends
    BY <1>0, <1>1, <2>1, <2>4 DEF SameSends, Replaces, Consumed, Issued, Resolved
  <2>10. SameBudget
    BY <1>0, <1>1, <1>4, <2>1, <2>3, <2>4 DEF SameBudget, Replaces
  <2>11. GatesInv'
    BY <1>0, <1>1, <1>4, <2>3, <2>4, GatesAdmit
  <2> QED BY <2>5, <2>6, <2>7, <2>8, <2>9, <2>10, <2>11, OthersSound, HistoryKept, SendsKept, BudgetKept DEF CredInv
<1>6. CASE ~refused
  <2>0. ~Unresolved(task[a].key) /\ permits[a].finished = 0
        /\ (Budgeted(a) => ~(Failed(Counted(task[a].key)) >= RequestAttempts))
    BY <1>6
  <2>1. permits' = [permits EXCEPT ![a].request = task[a].key]
    BY <1>6 DEF Admit
  <2>2. /\ permits' \in [Attempts -> Permit \cup {NULL}] /\ permits'[a] # NULL
        /\ permits'[a].request = task[a].key /\ permits'[a].consumed /\ permits'[a].finished = 0
        /\ permits'[a].accepted = permits[a].accepted
        /\ permits'[a].consumed = permits[a].consumed
        /\ \A b \in Attempts : b # a => permits'[b] = permits[b]
    <3>1. [permits[a] EXCEPT !.request = task[a].key] \in Permit
      BY <1>2 DEF Permit
    <3>2. permits' = [permits EXCEPT ![a] = [permits[a] EXCEPT !.request = task[a].key]]
      BY <1>0, <2>1 DEF CredTypeOK
    <3> QED BY <1>0, <1>2, <2>0, <3>1, <3>2, CredNullAssumption DEF CredTypeOK, Permit
  <2>3. SameHistory
    BY <1>1, <1>2, <2>2 DEF SameHistory, Issued
  <2>4. ASSUME NEW n, Replaces(a, n), n.pc \in {"acquire", "send"}, n.key = task[a].key,
               n.path = task[a].path, n.pc = "acquire" <=> Direct(a),
               failures' \in [Keys -> Failure \cup {NULL}], forgiven' \subseteq sent, GatesInv', BudgetInv'
        PROVE  CredInv'
    <3>1. CredTypeOK'
      BY <1>0, <1>1, <2>2, <2>4 DEF CredTypeOK, Replaces, world
    <3>2. Sound(a)'
      BY <1>0, <1>1, <1>2, <2>2, <2>4 DEF Sound, Consumed, Issued, Resolved, Replaces, Direct
    <3>3. Others(a)
      BY <1>1, <2>2, <2>4 DEF Others, Kept, SameRow, Replaces
    <3>4. SendsInv'
      BY <1>0, <1>1, <1>2, <2>0, <2>1, <2>4, BindSends
    <3> QED BY <2>3, <2>4, <3>1, <3>2, <3>3, <3>4, OthersSound, HistoryKept DEF CredInv
  <2>5. CASE Budgeted(a)
    <3> DEFINE n == [task[a] EXCEPT !.pc = "acquire", !.holds = TRUE, !.debited = TRUE, !.previous = Counted(task[a].key)]
    <3>1. /\ task' = [task EXCEPT ![a] = n]
          /\ failures' = [failures EXCEPT ![task[a].key] = Debited(Counted(task[a].key))]
          /\ forgiven' = IF failures[task[a].key] # NULL /\ Counted(task[a].key) = NULL
                         THEN forgiven \cup SendsOf(task[a].key) ELSE forgiven
      BY <1>0, <1>6, <2>5 DEF Admit, CredTypeOK
    <3>2. Counted(task[a].key) \in Failure \cup {NULL} /\ Debited(Counted(task[a].key)) \in Failure
      BY <1>0, <1>2, DebitedRow
    <3>3. /\ n \in Task /\ n.pc = "acquire" /\ n.holds /\ n.debited /\ n.previous = Counted(task[a].key)
          /\ n.gate = task[a].gate /\ n.key = task[a].key /\ n.path = task[a].path
      BY <1>0, <3>2 DEF Task
    <3> HIDE DEF n
    <3>4. Replaces(a, n)
      BY <1>0, <3>1, <3>3, TaskReplaced
    <3>5. failures' \in [Keys -> Failure \cup {NULL}] /\ forgiven' \subseteq sent
      BY <1>0, <3>1, <3>2 DEF CredTypeOK, SendsOf
    <3>6. GatesInv'
      BY <1>0, <1>1, <2>5, <3>3, <3>4, GatesAdmit
    <3>7. BudgetInv'
      BY <1>0, <1>1, <2>0, <2>5, <3>1, <3>3, <3>4, DebitBudget DEF Budgeted
    <3> QED BY <2>4, <2>5, <3>3, <3>4, <3>5, <3>6, <3>7 DEF Budgeted
  <2>6. CASE ~Budgeted(a)
    <3> DEFINE n == [task[a] EXCEPT !.pc = IF Direct(a) THEN "acquire" ELSE "send"]
    <3>1. task' = [task EXCEPT ![a] = n] /\ UNCHANGED <<failures, forgiven>>
      BY <1>0, <1>6, <2>6 DEF Admit, Goes, CredTypeOK
    <3>2. /\ n \in Task /\ n.pc = (IF Direct(a) THEN "acquire" ELSE "send")
          /\ n.holds = task[a].holds /\ n.debited = task[a].debited
          /\ n.gate = task[a].gate /\ n.key = task[a].key /\ n.path = task[a].path
      BY <1>0 DEF Task
    <3> HIDE DEF n
    <3>3. Replaces(a, n)
      BY <1>0, <3>1, <3>2, TaskReplaced
    <3>4. ~task[a].holds
      BY <1>0, <2>6 DEF GatesInv
    <3>5. GatesInv'
      BY <1>0, <1>1, <1>4, <2>6, <3>2, <3>3, <3>4, GatesAdmit
    <3>6. SameBudget
      BY <1>0, <1>1, <1>4, <3>1, <3>2, <3>3 DEF SameBudget, Replaces
    <3>7. BudgetInv'
      BY <1>0, <3>6, BudgetKept DEF CredInv
    <3>8. failures' \in [Keys -> Failure \cup {NULL}] /\ forgiven' \subseteq sent
      BY <1>0, <3>1 DEF CredTypeOK
    <3> QED BY <2>4, <3>2, <3>3, <3>5, <3>7, <3>8
  <2> QED BY <2>5, <2>6
<1> QED BY <1>5, <1>6

\* The last task to leave a gate removes it, and only that one.
LEMMA GatesLeave ==
    ASSUME CredTypeOK, GatesInv, NEW a \in Attempts, Replaces(a, Idle),
           gates' = IF task[a].gate = NULL THEN gates ELSE RetiredGates(a)
    PROVE  GatesInv' /\ gates' \in [Keys -> Attempts \cup {NULL}]
<1>1. /\ task'[a] = Idle /\ Idle.gate = NULL /\ ~Idle.holds /\ ~Idle.debited /\ Idle.pc = "idle"
      /\ \A b \in Attempts : b # a => task'[b] = task[b]
  BY IdleTask DEF Replaces
<1>2. \A k \in Keys : gates'[k] = IF task[a].gate # NULL /\ gates[k] = task[a].gate /\ Members(task[a].gate) = {a}
                                  THEN NULL ELSE gates[k]
  BY DEF RetiredGates
<1>3. gates' \in [Keys -> Attempts \cup {NULL}]
  BY DEF RetiredGates, CredTypeOK
<1>4. ASSUME NEW b \in Attempts, b # a, task[b].gate # NULL
      PROVE  task[b].key \in Keys /\ gates'[task[b].key] = task[b].gate
  <2>1. task[b].key \in Keys /\ gates[task[b].key] = task[b].gate
    BY <1>4 DEF GatesInv
  <2>2. ~(task[b].gate = task[a].gate /\ Members(task[a].gate) = {a})
    BY <1>4 DEF Members
  <2> QED BY <1>2, <2>1, <2>2
<1>5. ASSUME NEW k \in Keys, gates'[k] # NULL PROVE \E b \in Attempts : task'[b].gate = gates'[k]
  <2>1. gates'[k] = gates[k] /\ gates[k] # NULL
    BY <1>2, <1>5
  <2>2. Members(gates[k]) # {} /\ Members(gates[k]) # {a}
    <3>1. Members(gates[k]) # {}
      BY <2>1 DEF GatesInv
    <3>2. ASSUME Members(gates[k]) = {a} PROVE FALSE
      <4>1. task[a].gate = gates[k]
        BY <3>2 DEF Members
      <4> QED BY <1>2, <1>5, <2>1, <3>2, <4>1
    <3> QED BY <3>1, <3>2
  <2>3. PICK b \in Members(gates[k]) : b # a
    BY <2>2
  <2> QED BY <1>1, <2>1, <2>3 DEF Members
<1>6. \A k \in Keys : (gates[k] # NULL => Members(gates[k]) # {})'
  BY <1>5 DEF Members
<1>7. \A b, c \in Attempts : task'[b].holds /\ task'[c].holds /\ task'[b].gate = task'[c].gate => b = c
  BY <1>1 DEF GatesInv
<1>8. ASSUME NEW b \in Attempts
      PROVE  /\ task'[b].gate # NULL => task'[b].key \in Keys /\ gates'[task'[b].key] = task'[b].gate
             /\ task'[b].pc \in {"admit", "acquire", "send"} /\ Budgeted(b)' => task'[b].gate # NULL
             /\ task'[b].pc \in {"idle", "resolve"} => task'[b].gate = NULL
             /\ task'[b].holds => task'[b].gate # NULL /\ task'[b].pc # "admit"
             /\ task'[b].debited => /\ task'[b].holds /\ Budgeted(b)'
                                    /\ task'[b].pc \in {"acquire", "send", "finish"}
             /\ task'[b].pc \in {"acquire", "send"} /\ Budgeted(b)' => task'[b].debited
  <2>1. CASE b = a
    BY <1>1, <2>1
  <2>2. CASE b # a
    BY <1>1, <1>4, <2>2 DEF GatesInv, Budgeted, Direct
  <2> QED BY <2>1, <2>2
<1> QED BY <1>3, <1>6, <1>7, <1>8 DEF GatesInv

\* What a completed dispatch leaves of the allowance it had debited.
LEMMA AllowanceRow ==
    ASSUME CredTypeOK, NEW a \in Attempts, task[a] \in Task, task[a].outcome \in Outcomes,
           NEW k \in Keys, k = task[a].key, failures[k] # NULL
    PROVE  /\ AllowanceAfter(a) \in Failure \cup {NULL}
           /\ ForgivenAfter(a) \subseteq sent
           /\ \/ AllowanceAfter(a) = NULL /\ ForgivenAfter(a) = SendsOf(k)
              \/ AllowanceAfter(a) = task[a].previous /\ ForgivenAfter(a) = {s \in sent : s[1] = a}
              \/ /\ AllowanceAfter(a) # NULL /\ AllowanceAfter(a).failed = failures[k].failed
                 /\ ForgivenAfter(a) = {}
<1>0. Answered \cap Unsent = {}
  BY DEF Answered, Unsent
<1>1. CASE task[a].outcome \in Answered /\ ~task[a].rejected
  <2>1. AllowanceAfter(a) = NULL /\ ForgivenAfter(a) = SendsOf(k)
    BY <1>0, <1>1 DEF AllowanceAfter, ForgivenAfter
  <2> QED BY <2>1 DEF SendsOf
<1>2. CASE task[a].outcome \in Unsent
  <2>1. AllowanceAfter(a) = task[a].previous /\ ForgivenAfter(a) = {s \in sent : s[1] = a}
    BY <1>0, <1>2 DEF AllowanceAfter, ForgivenAfter
  <2>2. task[a].previous \in Failure \cup {NULL}
    BY DEF Task
  <2> QED BY <2>1, <2>2
<1>3. CASE ~(task[a].outcome \in Answered /\ ~task[a].rejected) /\ task[a].outcome \notin Unsent
  <2> DEFINE f == failures[k]
  <2>1. AllowanceAfter(a) = [f EXCEPT !.last = Max({f.last, clock})] /\ ForgivenAfter(a) = {}
    BY <1>3 DEF AllowanceAfter, ForgivenAfter
  <2>2. f \in Failure /\ f.last \in Nat /\ clock \in Nat
    BY DEF CredTypeOK, Failure
  <2>3. Max({f.last, clock}) \in Nat
    BY <2>2, MaxPair
  <2>4. [f EXCEPT !.last = Max({f.last, clock})] \in Failure /\ [f EXCEPT !.last = Max({f.last, clock})].failed = f.failed
    BY <2>2, <2>3 DEF Failure
  <2> QED BY <2>1, <2>4, CredNullAssumption
<1> QED BY <1>1, <1>2, <1>3

\* Completing a debited dispatch settles the allowance of its request: only
\* the holder of the gate does so, and others' counts stay.
LEMMA SettleBudget ==
    ASSUME CredInv, RequestAttempts # NULL, NEW a \in Attempts, Replaces(a, Idle),
           task[a].pc = "finish", task[a].debited,
           failures' = [failures EXCEPT ![task[a].key] = AllowanceAfter(a)],
           sent' = sent, forgiven' = forgiven \cup ForgivenAfter(a)
    PROVE  BudgetInv' /\ failures' \in [Keys -> Failure \cup {NULL}] /\ forgiven' \subseteq sent
<1>0. CredTypeOK /\ SendsInv /\ GatesInv /\ BudgetInv /\ Sound(a) /\ task[a] \in Task
  BY DEF CredInv, CredTypeOK
<1>1. PICK k \in Keys : k = task[a].key
  BY <1>0 DEF GatesInv
<1>2. /\ failures[k] # NULL /\ failures[k].failed = Failed(task[a].previous) + 1
      /\ Cardinality({s \in Owed(k) : s[1] # a}) <= Failed(task[a].previous)
      /\ Cardinality(Owed(k)) <= Failed(failures[k]) /\ Failed(failures[k]) <= RequestAttempts
  BY <1>0, <1>1 DEF BudgetInv
<1>3. PICK r \in Failure \cup {NULL}, S \in SUBSET sent :
        /\ r = AllowanceAfter(a) /\ S = ForgivenAfter(a)
        /\ \/ r = NULL /\ S = SendsOf(k)
           \/ r = task[a].previous /\ S = {s \in sent : s[1] = a}
           \/ r # NULL /\ r.failed = failures[k].failed /\ S = {}
  BY <1>0, <1>1, <1>2, AllowanceRow DEF Sound
<1>4. failures'[k] = r /\ (\A kk \in Keys : kk # k => failures'[kk] = failures[kk])
      /\ failures' \in [Keys -> Failure \cup {NULL}] /\ forgiven' = forgiven \cup S
  BY <1>0, <1>1, <1>3 DEF CredTypeOK
<1>5. \A s \in S : s[2] = k
  BY <1>0, <1>1, <1>3 DEF SendsInv, SendsOf
<1>6. \A kk \in Keys : kk # k => Owed(kk)' = Owed(kk)
  BY <1>4, <1>5 DEF Owed, SendsOf
<1>7. /\ Failed(task[a].previous) \in Nat /\ Failed(failures[k]) = failures[k].failed
      /\ RequestAttempts \in Nat
  BY <1>0, <1>2, FailedNat, AllowanceAssumption DEF CredTypeOK, Task
<1>8. Cardinality(Owed(k)') <= Failed(r) /\ Failed(r) <= RequestAttempts
  <2>1. CASE r = NULL /\ S = SendsOf(k)
    <3>1. Owed(k)' = {}
      BY <1>4, <2>1 DEF Owed, SendsOf
    <3> QED BY <1>7, <2>1, <3>1, FS_EmptySet DEF Failed
  <2>2. CASE r = task[a].previous /\ S = {s \in sent : s[1] = a}
    <3>1. Owed(k)' = {s \in Owed(k) : s[1] # a}
      BY <1>4, <2>2 DEF Owed, SendsOf
    <3> QED BY <1>2, <1>7, <2>2, <3>1
  <2>3. CASE r # NULL /\ r.failed = failures[k].failed /\ S = {}
    <3>1. Owed(k)' = Owed(k)
      BY <1>4, <2>3 DEF Owed, SendsOf
    <3>2. Failed(r) = Failed(failures[k])
      BY <1>7, <2>3 DEF Failed
    <3> QED BY <1>2, <3>1, <3>2
  <2> QED BY <1>3, <2>1, <2>2, <2>3
<1>9. \A kk \in Keys : Cardinality(Owed(kk)') <= Failed(failures'[kk]) /\ Failed(failures'[kk]) <= RequestAttempts
  BY <1>0, <1>4, <1>6, <1>8 DEF BudgetInv
<1>10. ~task'[a].debited /\ task'[a].pc = "idle" /\ \A b \in Attempts : b # a => task'[b] = task[b]
  BY IdleTask DEF Replaces
<1>11. ASSUME NEW b \in Attempts, task'[b].debited
       PROVE  /\ failures'[task'[b].key] # NULL
              /\ failures'[task'[b].key].failed = Failed(task'[b].previous) + 1
              /\ Cardinality({s \in Owed(task[b].key) : s[1] # b})' <= Failed(task'[b].previous)
  <2>1. b # a /\ task'[b] = task[b] /\ task[b].debited
    BY <1>10, <1>11
  <2>2. task[b].key \in Keys /\ task[b].key # k
    BY <1>0, <1>1, <2>1, OneDebit DEF GatesInv
  <2>3. {s \in Owed(task[b].key) : s[1] # b}' = {s \in Owed(task[b].key) : s[1] # b}
    BY <1>4, <1>5, <2>1, <2>2 DEF Owed, SendsOf
  <2>4. /\ failures[task[b].key] # NULL
        /\ failures[task[b].key].failed = Failed(task[b].previous) + 1
        /\ Cardinality({s \in Owed(task[b].key) : s[1] # b}) <= Failed(task[b].previous)
    BY <1>0, <2>1 DEF BudgetInv
  <2>5. failures'[task'[b].key] = failures[task[b].key]
    BY <1>4, <2>1, <2>2
  <2> QED BY <2>1, <2>3, <2>4, <2>5
<1>12. \A s \in sent' : s[3] = "direct" /\ task'[s[1]].pc = "finish" => task'[s[1]].debited
  <2>1. \A s \in sent : s[1] \in Attempts
    BY <1>0 DEF CredTypeOK
  <2> QED BY <1>0, <1>10, <2>1 DEF BudgetInv
<1>13. forgiven' \subseteq sent
  BY <1>0, <1>4 DEF CredTypeOK
<1> QED BY <1>4, <1>9, <1>11, <1>12, <1>13 DEF BudgetInv

\* The row a completion leaves keeps the handoff and frees the request.
LEMMA CompletedRow ==
    ASSUME CredTypeOK, NEW a \in Attempts, Issued(a), NEW row,
           row = IF Direct(a) THEN Closed(a) ELSE Unbound(permits[a])
    PROVE  /\ row \in Permit /\ row # NULL /\ row.request = NULL
           /\ row.consumed = permits[a].consumed /\ row.accepted = permits[a].accepted
<1>0. permits[a] \in Permit
  BY TypeFacts
<1>1. CASE Direct(a)
  <2> DEFINE fin == IF Retains THEN 1 ELSE 2
             res == Retains /\ a.recovery > clock
             sta == CASE task[a].outcome = "credential" -> "CredentialUnavailable"
                      [] task[a].outcome \in Answered /\ ~task[a].rejected -> "Succeeded"
                      [] OTHER -> "ProviderFailed"
  <2>1. row = [permits[a] EXCEPT !.request = NULL, !.finished = fin, !.result = res, !.status = sta]
    BY <1>1 DEF Closed
  <2>2. fin \in 0..2 /\ res \in BOOLEAN
    OBVIOUS
  <2>3. sta \in {"Succeeded", "ProviderFailed", "CredentialUnavailable"}
    <3>1. "credential" \notin Answered
      BY DEF Answered
    <3>2. CASE task[a].outcome = "credential"
      BY <3>1, <3>2
    <3>3. CASE task[a].outcome \in Answered /\ ~task[a].rejected
      BY <3>1, <3>3
    <3>4. CASE task[a].outcome # "credential" /\ ~(task[a].outcome \in Answered /\ ~task[a].rejected)
      BY <3>4
    <3> QED BY <3>2, <3>3, <3>4
  <2> HIDE DEF fin, res, sta
  <2>4. row \in Permit /\ row.request = NULL /\ row.consumed = permits[a].consumed /\ row.accepted = permits[a].accepted
    BY <1>0, <2>1, <2>2, <2>3 DEF Permit
  <2> QED BY <2>4, CredNullAssumption
<1>2. CASE ~Direct(a)
  <2>1. row = [permits[a] EXCEPT !.request = NULL]
    BY <1>2 DEF Unbound
  <2>2. row \in Permit /\ row.request = NULL /\ row.consumed = permits[a].consumed /\ row.accepted = permits[a].accepted
    BY <1>0, <2>1 DEF Permit
  <2> QED BY <2>2, CredNullAssumption
<1> QED BY <1>1, <1>2

\* Spend is released only for an outcome that was not charged, and evidence
\* that contradicts a resolved charge is refused.
LEMMA FinishedReceipt ==
    ASSUME NEW r \in Receipt, NEW o \in Outcomes, Finishable(r, StateAfter(o), o = "measured", o \in Answered),
           NEW f, f = Finished(r, StateAfter(o), o = "measured", o \in Answered)
    PROVE  /\ f \in Receipt /\ f.state \in {"unknown", "released", "settled"}
           /\ f.state = "released" => o \in Unsent
           /\ r.state # "unknown" => f.state = r.state
<1>1. /\ StateAfter(o) \in {"settled", "released", "unknown"}
      /\ StateAfter(o) = "released" => o \in Unsent
  <2>0. "measured" \notin Unsent
    BY DEF Unsent
  <2>1. CASE o = "measured"
    BY <2>0, <2>1 DEF StateAfter
  <2>2. CASE o \in Unsent
    BY <2>0, <2>2 DEF StateAfter
  <2>3. CASE o # "measured" /\ o \notin Unsent
    BY <2>3 DEF StateAfter
  <2> QED BY <2>1, <2>2, <2>3
<1>2. (o = "measured") \in BOOLEAN /\ (o \in Answered) \in BOOLEAN
  OBVIOUS
<1>3. f \in Receipt /\ f.state = StateAfter(o)
  BY <1>1, <1>2 DEF Finished, Receipt
<1>4. r.state # "unknown" => r.state = StateAfter(o)
  BY DEF Finishable
<1> QED BY <1>1, <1>3, <1>4

\* The end of a task, whether its completion was written or not.
LEMMA FinishInv == ASSUME CredInv, NEW a \in Attempts, Finish(a) PROVE CredInv'
<1>0. /\ CredTypeOK /\ Sound(a) /\ GatesInv /\ SendsInv /\ task[a] \in Task /\ task[a].pc = "finish"
      /\ ledger[a] \in Receipt
  BY DEF CredInv, CredTypeOK, Finish, At
<1>1. /\ UNCHANGED <<revision, clock, allowance, credential, sent, paid>>
      /\ task' = [task EXCEPT ![a] = Idle]
      /\ gates' = IF task[a].gate = NULL THEN gates ELSE RetiredGates(a)
      /\ troubles' \in Nat
  BY <1>0 DEF Finish, Trouble, CredTypeOK
<1>2. /\ Consumed(a) /\ Issued(a) /\ task[a].outcome \in Outcomes
      /\ ledger[a].state # "none" /\ task[a].path \in {"direct", "job"}
      /\ a \in paid => ledger[a].state # "released" /\ task[a].outcome \notin Unsent
  BY <1>0 DEF Sound, Consumed
<1>3. Replaces(a, Idle)
  BY <1>0, <1>1, IdleTask, TaskReplaced
<1>4. /\ task'[a] = Idle /\ Idle.gate = NULL /\ ~Idle.holds /\ ~Idle.debited /\ Idle.pc = "idle" /\ Idle.path = NULL
      /\ \A b \in Attempts : b # a => task'[b] = task[b]
  BY <1>3, IdleTask DEF Replaces, Idle
<1>5. GatesInv' /\ gates' \in [Keys -> Attempts \cup {NULL}]
  BY <1>0, <1>1, <1>3, GatesLeave
<1>6. CASE UNCHANGED <<tables, concluded, forgiven>>
  <2>1. CredTypeOK'
    BY <1>0, <1>1, <1>3, <1>5, <1>6 DEF CredTypeOK, Replaces, tables
  <2>2. Sound(a)'
    BY <1>0, <1>1, <1>2, <1>4, <1>6 DEF Sound, Consumed, Issued, Resolved, tables
  <2>3. Others(a)
    BY <1>1, <1>4, <1>6 DEF Others, Kept, SameRow, tables
  <2>4. SameHistory
    BY <1>6 DEF SameHistory, Issued, tables
  <2>5. SameSends
    BY <1>0, <1>1, <1>4, <1>6 DEF SameSends, tables, Consumed, Issued, Resolved
  <2>6. SameBudget
    BY <1>1, <1>4, <1>6 DEF SameBudget, tables
  <2> QED BY <1>5, <2>1, <2>2, <2>3, <2>4, <2>5, <2>6, OthersSound, HistoryKept, SendsKept, BudgetKept DEF CredInv
<1>7. CASE ~UNCHANGED <<tables, concluded, forgiven>>
  <2> DEFINE o == task[a].outcome
             r == Finished(ledger[a], StateAfter(o), o = "measured", o \in Answered)
             row == IF Direct(a) THEN Closed(a) ELSE Unbound(permits[a])
  <2>1. /\ Finishable(ledger[a], StateAfter(o), o = "measured", o \in Answered)
        /\ ledger' = [ledger EXCEPT ![a] = r]
        /\ permits' = [permits EXCEPT ![a] = row]
        /\ concluded' = concluded \cup {a}
        /\ IF task[a].debited
           THEN /\ failures' = [failures EXCEPT ![task[a].key] = AllowanceAfter(a)]
                /\ forgiven' = forgiven \cup ForgivenAfter(a)
           ELSE UNCHANGED <<failures, forgiven>>
    BY <1>7 DEF Finish
  <2>2. /\ r \in Receipt /\ r.state \in {"unknown", "released", "settled"}
        /\ r.state = "released" => o \in Unsent
        /\ ledger[a].state # "unknown" => r.state = ledger[a].state
    BY <1>0, <1>2, <2>1, FinishedReceipt
  <2>3. /\ row \in Permit /\ row # NULL /\ row.request = NULL
        /\ row.consumed = permits[a].consumed /\ row.accepted = permits[a].accepted
    BY <1>0, <1>2, CompletedRow
  <2> HIDE DEF r, row, o
  <2>4. /\ ledger' \in [Attempts -> Receipt] /\ ledger'[a] = r
        /\ permits' \in [Attempts -> Permit \cup {NULL}] /\ permits'[a] = row
        /\ \A b \in Attempts : b # a => ledger'[b] = ledger[b] /\ permits'[b] = permits[b]
    BY <1>0, <2>1, <2>2, <2>3 DEF CredTypeOK
  <2>5. Sound(a)'
    <3>1. Consumed(a)' /\ Issued(a)' /\ a \in concluded' /\ paid' = paid /\ permits'[a].request = NULL
      BY <1>1, <1>2, <2>1, <2>3, <2>4 DEF Consumed, Issued
    <3>2. ledger'[a].state # "none" /\ (a \in paid => ledger'[a].state # "released")
      BY <1>2, <2>2, <2>4 DEF o
    <3> QED BY <1>4, <3>1, <3>2 DEF Sound
  <2>6. Others(a)
    BY <1>1, <1>4, <2>1, <2>4 DEF Others, Kept, SameRow
  <2>7. SameHistory
    BY <1>2, <2>2, <2>3, <2>4 DEF SameHistory, Issued
  <2>8. SameSends
    <3>1. \A b \in Attempts : Consumed(b) => Consumed(b)'
      BY <2>3, <2>4 DEF Consumed, Issued
    <3>2. \A b \in Attempts : Resolved(b) => Resolved(b)'
      BY <2>2, <2>4 DEF Resolved
    <3>3. \A b \in Attempts : b \in concluded => b \in concluded'
      BY <2>1
    <3>4. \A b \in Attempts : task[b].pc \in {"idle", "finish"} =>
            \/ task'[b].pc = "idle"
            \/ /\ task'[b].pc = "finish" /\ task[b].pc = "finish"
               /\ task'[b].key = task[b].key /\ task'[b].path = task[b].path
      BY <1>4
    <3>5. a \in concluded' /\ permits'[a].request = NULL
      BY <2>1, <2>3, <2>4
    <3> QED BY <1>1, <2>4, <3>1, <3>2, <3>3, <3>4, <3>5 DEF SameSends
  <2>9. BudgetInv' /\ failures' \in [Keys -> Failure \cup {NULL}] /\ forgiven' \subseteq sent
    <3>1. CASE task[a].debited
      <4>1. RequestAttempts # NULL
        BY <1>0, <3>1 DEF GatesInv, Budgeted
      <4> QED BY <1>0, <1>1, <1>3, <2>1, <3>1, <4>1, SettleBudget
    <3>2. CASE ~task[a].debited
      <4>1. SameBudget
        BY <1>1, <1>4, <2>1, <3>2 DEF SameBudget
      <4>2. failures' = failures /\ forgiven' = forgiven
        BY <2>1, <3>2
      <4> QED BY <1>0, <4>1, <4>2, BudgetKept DEF CredInv, CredTypeOK
    <3> QED BY <3>1, <3>2
  <2>10. CredTypeOK'
    <3>1. concluded' \subseteq Attempts
      BY <1>0, <2>1 DEF CredTypeOK
    <3> QED BY <1>0, <1>1, <1>3, <1>5, <2>4, <2>9, <3>1 DEF CredTypeOK, Replaces
  <2> QED BY <1>5, <2>5, <2>6, <2>7, <2>8, <2>9, <2>10, OthersSound, HistoryKept, SendsKept DEF CredInv
<1> QED BY <1>6, <1>7

------------------------------------------------------------------------------
(* The theorems.                                                           *)

\* The empty database of a process that just started.
LEMMA InitCredInv == ASSUME CredInit PROVE CredInv
<1>1. /\ \A a \in Attempts : permits[a] = NULL /\ ledger[a] = NoReceipt /\ task[a] = Idle
      /\ sent = {} /\ paid = {} /\ concluded = {} /\ forgiven = {}
      /\ \A k \in Keys : gates[k] = NULL /\ failures[k] = NULL
  BY DEF CredInit
<1>2. NoReceipt \in Receipt /\ NoReceipt.state = "none"
  BY DEF NoReceipt, Receipt
<1>3. CredTypeOK
  BY <1>2, IdleTask DEF CredInit, CredTypeOK
<1>4. \A a \in Attempts : ~Issued(a) /\ ~Consumed(a)
  BY <1>1 DEF Issued, Consumed
<1>5. \A a \in Attempts : Sound(a)
  BY <1>1, <1>2, <1>4, IdleTask DEF Sound, Idle
<1>6. HistoryInv
  <2>1. {a \in Attempts : Issued(a)} = {}
    BY <1>4
  <2> QED BY <1>4, <2>1, FS_EmptySet DEF HistoryInv
<1>7. SendsInv
  BY <1>1, <1>4, FS_EmptySet DEF SendsInv
<1>8. GatesInv
  BY <1>1, IdleTask DEF GatesInv
<1>9. BudgetInv
  <2>1. \A k \in Keys : Owed(k) = {} /\ Failed(failures[k]) = 0
    BY <1>1 DEF Owed, SendsOf, Failed
  <2>2. RequestAttempts # NULL => RequestAttempts \in Nat
    BY AllowanceAssumption
  <2> QED BY <1>1, <2>1, <2>2, IdleTask, FS_EmptySet DEF BudgetInv
<1> QED BY <1>3, <1>5, <1>6, <1>7, <1>8, <1>9 DEF CredInv

\* Every operation, task step, crash and intervention keeps the invariant.
LEMMA NextCredInv == ASSUME CredInv, [CredNext]_credVars PROVE CredInv'
<1>1. CASE UNCHANGED credVars
  <2>1. UNCHANGED <<permits, failures, ledger, task, gates, seen, world, revision>>
    BY <1>1 DEF credVars, tables
  <2>2. Still
    BY <2>1 DEF Still, SameRow
  <2>3. CredTypeOK'
    BY <2>1 DEF CredInv, CredTypeOK, seen, world
  <2> QED BY <2>2, <2>3, StillInv
<1>2. ASSUME NEW a \in Attempts,
             IssuePermit(a) \/ Inject(a) \/ ClaimJob(a) \/ TaskStep(a) \/ Reconcile(a)
      PROVE  CredInv'
  BY <1>2, IssueInv, InjectHands, ClaimHands, HandsInv, ResolveInv, AdmitInv, AcquireInv, SendInv,
     FinishInv, ReconcileInv DEF TaskStep
<1>3. CASE CredNext
  BY <1>2, <1>3, QuietInv, RestartInv DEF CredNext
<1> QED BY <1>1, <1>3

\* The invariant that ties permits, receipts, tasks, sends and allowances
\* together holds for all attempts, configurations and interventions.
THEOREM CredentialInvariant == CredSpec => []CredInv
<1>1. CredInit => CredInv
  BY InitCredInv
<1>2. CredInv /\ [CredNext]_credVars => CredInv'
  BY NextCredInv
<1> QED BY <1>1, <1>2, PTL DEF CredSpec

\* issue_in, accept_in, finish: spend is released only when the provider did
\* not charge, a retry follows only released handoffs, and the carried count
\* is exact and within the allowance.
THEOREM RetriesFollowReleases == CredSpec => []RetryHistory
<1>1. ASSUME CredInv PROVE RetryHistory
  <2>1. \A a \in paid : ledger[a].state # "released"
    BY <1>1 DEF CredInv, CredTypeOK, Sound
  <2>2. ASSUME NEW a \in Attempts, Consumed(a)
        PROVE  LET before == {b \in Of(a.invocation) : Consumed(b) /\ b.ordinal < a.ordinal}
               IN  /\ \A b \in before : ledger[b].state = "released"
                   /\ permits[a].accepted = Cardinality(before) + 1
                   /\ permits[a].accepted <= Max(Allowances)
    BY <1>1, <2>2 DEF CredInv, HistoryInv, Before, Consumed
  <2> QED BY <1>1, <2>1, <2>2 DEF RetryHistory, CredInv
<1> QED BY <1>1, CredentialInvariant, PTL

\* admit_request_in: one unresolved send per request and credential, failed
\* sends covered by debits within the allowance, and no gate left behind.
THEOREM SendsAreAdmitted == CredSpec => []SendsAdmitted
<1>1. ASSUME CredInv PROVE SendsAdmitted
  <2>1. ASSUME NEW s \in sent, NEW t \in sent, s[2] = t[2], s[1] # t[1]
        PROVE  \E u \in {s, t} : u[1] \in concluded \/ Resolved(u[1])
    <3>1. /\ s[1] \in Attempts /\ t[1] \in Attempts /\ s[2] \in Keys /\ s[2] # NULL
          /\ Issued(s[1]) /\ Issued(t[1])
      BY <1>1, CredNullAssumption DEF CredInv, CredTypeOK, SendsInv, Consumed
    <3> QED BY <1>1, <2>1, <3>1 DEF CredInv, SendsInv
  <2>2. RequestAttempts # NULL => \A k \in Keys :
          /\ Cardinality({s \in SendsOf(k) \ forgiven : s[3] = "direct"}) <= Failed(failures[k])
          /\ Failed(failures[k]) <= RequestAttempts
    BY <1>1 DEF CredInv, BudgetInv, Owed
  <2>3. \A k \in Keys : gates[k] # NULL => Members(gates[k]) # {}
    BY <1>1 DEF CredInv, GatesInv
  <2> QED BY <2>1, <2>2, <2>3 DEF SendsAdmitted
<1> QED BY <1>1, CredentialInvariant, PTL

------------------------------------------------------------------------------
(* What a caller was told stands.                                          *)

\* The row of b: it stays, a handoff stays, what is finished stays until its
\* result is due, and only a live permit is handed off.
RowStands(b) ==
    /\ Issued(b) => permits'[b] # NULL
    /\ Consumed(b) => /\ permits'[b].consumed
                      /\ permits[b].finished # 0 =>
                            /\ permits'[b].finished = permits[b].finished
                            /\ permits'[b].status = permits[b].status
                            /\ clock < b.recovery => permits'[b].result = permits[b].result
    /\ Issued(b) /\ ~permits[b].consumed /\ permits'[b].consumed => Current(b) /\ ~Superseded(b)

\* A row that is only purged stands.
LEMMA PurgeStands ==
    ASSUME CredTypeOK, NEW S \in Purges, NEW b \in Attempts, permits'[b] = Purged(S)[b]
    PROVE  RowStands(b)
<1>1. /\ SameRow(permits[b], Purged(S)[b])
      /\ permits[b] # NULL /\ clock < b.recovery => Purged(S)[b].result = permits[b].result
  BY PurgedRows
<1> QED BY <1>1 DEF RowStands, SameRow, Issued, Consumed

\* So does one that is not touched.
LEMMA UntouchedStands ==
    ASSUME NEW b \in Attempts, permits'[b] = permits[b] PROVE RowStands(b)
BY DEF RowStands, Issued, Consumed

\* Issuing a permit leaves the rows that exist.
LEMMA IssueStands ==
    ASSUME CredInv, NEW a \in Attempts, IssuePermit(a) PROVE \A b \in Attempts : RowStands(b)
<1>0. CredTypeOK
  BY DEF CredInv
<1>1. PICK S \in Purges : permits' = [Purged(S) EXCEPT ![a] = NewRow(Accepted(a))]
  BY DEF IssuePermit
<1>2. \A b \in Attempts : b # a => permits'[b] = Purged(S)[b]
  BY <1>0, <1>1, PurgedRows
<1>3. RowStands(a)
  BY DEF IssuePermit, Issuable, RowStands, Consumed
<1> QED BY <1>0, <1>2, <1>3, PurgeStands

\* A handoff needs a permit that is current and has no successor.
LEMMA HandoffStands ==
    ASSUME CredInv, NEW a \in Attempts, Inject(a) \/ ClaimJob(a)
    PROVE  \A b \in Attempts : RowStands(b)
<1>0. CredTypeOK
  BY DEF CredInv
<1>1. CASE Inject(a)
  <2>1. PICK S \in Purges : permits' = [Purged(S) EXCEPT ![a].consumed = TRUE, ![a].accepted = @ + 1]
    BY <1>1 DEF Inject
  <2>2. Purged(S) \in [Attempts -> Permit \cup {NULL}]
    BY <1>0, PurgedRows
  <2>3. \A b \in Attempts : b # a => permits'[b] = Purged(S)[b]
    BY <2>1, <2>2
  <2>4. Issued(a) /\ ~permits[a].consumed /\ Current(a) /\ ~Superseded(a)
    BY <1>1 DEF Inject, Consumable, Acceptable
  <2>5. permits'[a] # NULL
    BY <1>1, InjectHands DEF Hands
  <2>6. RowStands(a)
    BY <2>4, <2>5 DEF RowStands, Consumed
  <2> QED BY <1>0, <2>3, <2>6, PurgeStands
<1>2. CASE ClaimJob(a)
  <2>1. \A b \in Attempts : b # a => permits'[b] = permits[b]
    BY <1>0, <1>2 DEF ClaimJob, CredTypeOK
  <2>2. Issued(a) => ~permits[a].consumed /\ Current(a) /\ ~Superseded(a)
    BY <1>2 DEF ClaimJob, Acceptable
  <2>3. permits'[a] # NULL
    BY <1>2, ClaimHands DEF Hands
  <2>4. RowStands(a)
    BY <2>2, <2>3 DEF RowStands, Consumed
  <2> QED BY <2>1, <2>4, UntouchedStands
<1> QED BY <1>1, <1>2

\* A task writes its row only while that is unfinished.
LEMMA TaskStands ==
    ASSUME CredInv, NEW a \in Attempts, TaskStep(a) PROVE \A b \in Attempts : RowStands(b)
<1>0. CredTypeOK /\ Sound(a) /\ (Issued(a) => permits[a] \in Permit)
  BY TypeFacts DEF CredInv
<1>1. CASE permits' = permits
  BY <1>1, UntouchedStands
<1>2. CASE Admit(a) /\ permits' # permits
  <2>1. permits' = [permits EXCEPT ![a].request = task[a].key] /\ permits[a].finished = 0
    BY <1>2 DEF Admit
  <2>2. Issued(a) /\ permits[a].consumed
    BY <1>0, <1>2 DEF Admit, At, Sound, Consumed
  <2>3. permits'[a] = [permits[a] EXCEPT !.request = task[a].key]
        /\ \A b \in Attempts : b # a => permits'[b] = permits[b]
    BY <1>0, <2>1 DEF CredTypeOK
  <2>4. permits'[a].consumed /\ permits'[a] # NULL
    BY <1>0, <1>2, <2>2, <2>3, AdmitInv, TypeFacts DEF Permit, Admit, At, Sound, CredInv, Consumed, Issued
  <2>5. RowStands(a)
    BY <2>1, <2>2, <2>4 DEF RowStands
  <2> QED BY <2>3, <2>5, UntouchedStands
<1>3. CASE Finish(a) /\ permits' # permits
  <2> DEFINE row == IF Direct(a) THEN Closed(a) ELSE Unbound(permits[a])
  <2>1. permits' = [permits EXCEPT ![a] = row] /\ permits[a].finished = 0
    BY <1>3 DEF Finish, tables
  <2>2. Consumed(a) /\ task[a].outcome \in Outcomes /\ task[a].path \in {"direct", "job"}
    BY <1>0, <1>3 DEF Finish, At, Sound
  <2>3. row # NULL /\ row.consumed = permits[a].consumed
    BY <1>0, <2>2, CompletedRow DEF Consumed
  <2> HIDE DEF row
  <2>4. permits'[a] = row /\ \A b \in Attempts : b # a => permits'[b] = permits[b]
    BY <1>0, <2>1 DEF CredTypeOK
  <2>5. RowStands(a)
    BY <2>1, <2>2, <2>3, <2>4 DEF RowStands, Consumed
  <2> QED BY <2>4, <2>5, UntouchedStands
<1>4. Admit(a) \/ Finish(a) \/ permits' = permits
  BY DEF TaskStep, Resolve, Acquire, Send, tables
<1> QED BY <1>1, <1>2, <1>3, <1>4

\* The ledger's trigger takes no more than the request of an unfinished row.
LEMMA ReconcileStands ==
    ASSUME CredInv, NEW a \in Attempts, Reconcile(a) PROVE \A b \in Attempts : RowStands(b)
<1>0. CredTypeOK /\ Sound(a) /\ (Issued(a) => permits[a] \in Permit)
  BY TypeFacts DEF CredInv
<1>1. PICK state \in {"settled", "released"} : permits' = [permits EXCEPT ![a] = Retired(@, state)]
  BY DEF Reconcile
<1>2. Consumed(a)
  BY <1>0 DEF Reconcile, Sound
<1>3. permits'[a] = Retired(permits[a], state) /\ \A b \in Attempts : b # a => permits'[b] = permits[b]
  BY <1>0, <1>1 DEF CredTypeOK
<1>4. CASE permits[a].finished = 0
  <2>1. permits'[a] = [permits[a] EXCEPT !.request = NULL]
    BY <1>2, <1>3, <1>4 DEF Retired, Consumed
  <2>2. permits'[a] \in Permit /\ permits'[a].consumed
    BY <1>0, <1>2, <2>1 DEF Permit, Consumed
  <2>3. RowStands(a)
    BY <1>0, <1>2, <1>4, <2>2, TypeFacts DEF RowStands, Consumed
  <2> QED BY <1>3, <2>3, UntouchedStands
<1>5. CASE permits[a].finished # 0
  BY <1>3, <1>5, UntouchedStands DEF Retired
<1> QED BY <1>4, <1>5

\* Every step leaves the rows standing and the published revision growing.
LEMMA NextStands ==
    ASSUME CredInv, [CredNext]_credVars
    PROVE  revision' >= revision /\ \A b \in Attempts : RowStands(b)
<1>0. CredTypeOK /\ revision \in Nat
  BY DEF CredInv, CredTypeOK
<1>1. revision' >= revision
  <2>1. CASE UNCHANGED revision
    BY <1>0, <2>1
  <2>2. CASE ~UNCHANGED revision
    BY <2>2 DEF CredNext, credVars, IssuePermit, Inject, ClaimJob, TaskStep, Resolve, Admit, Acquire, Send,
       Finish, Reconcile, PublishGrantRevision, PurgeExpired, Tick, SetBack, Restart, Rotate
  <2> QED BY <2>1, <2>2
<1>2. CASE UNCHANGED permits
  BY <1>1, <1>2, UntouchedStands
<1>3. ASSUME NEW S \in Purges, permits' = Purged(S) PROVE \A b \in Attempts : RowStands(b)
  BY <1>0, <1>3, PurgeStands
<1>4. ASSUME NEW a \in Attempts,
             IssuePermit(a) \/ Inject(a) \/ ClaimJob(a) \/ TaskStep(a) \/ Reconcile(a)
      PROVE  \A b \in Attempts : RowStands(b)
  BY <1>4, IssueStands, HandoffStands, TaskStands, ReconcileStands
<1>5. \/ \E a \in Attempts : IssuePermit(a) \/ Inject(a) \/ ClaimJob(a) \/ TaskStep(a) \/ Reconcile(a)
      \/ UNCHANGED permits
      \/ \E S \in Purges : permits' = Purged(S)
  BY DEF CredNext, credVars, tables, PublishGrantRevision, PurgeExpired, Tick, SetBack, Restart, Rotate
<1> QED BY <1>1, <1>2, <1>3, <1>4, <1>5

\* What attempt_status reads: whether the permit is live, its row and whether
\* the result is overdue.
Told(issued, row, live, overdue) ==
    IF ~issued THEN "NotIssued"
    ELSE IF ~row.consumed THEN (IF live THEN "Permitted" ELSE "Invalidated")
    ELSE IF row.finished = 0 THEN "Dispatched"
    ELSE IF row.finished = 2 THEN "FinishedWithoutAnswer"
    ELSE IF overdue THEN "Expired"
    ELSE IF ~row.result THEN "StateUnavailable"
    ELSE IF row.status = "Succeeded" THEN "Completed" ELSE "Failed"

\* The status is that, before the step and after it.
LEMMA StatusRead ==
    ASSUME CredTypeOK, NEW a \in Attempts
    PROVE  AttemptStatus(a) =
              Told(Issued(a), permits[a], ~Superseded(a) /\ Current(a) /\ clock < a.expires, clock >= a.recovery)
<1>1. /\ Issued(a) => permits[a] \in Permit
      /\ clock \in Nat /\ a.recovery \in Nat
  BY TypeFacts, BoundsAssumption DEF CredTypeOK
<1>2. Issued(a) => permits[a].finished \in {0, 1, 2}
  BY <1>1 DEF Permit
<1>3. CASE ~Issued(a)
  BY <1>3 DEF AttemptStatus, Told, Consumed
<1>4. CASE Issued(a) /\ ~permits[a].consumed
  BY <1>4 DEF AttemptStatus, Told, Consumed
<1>5. CASE Consumed(a) /\ permits[a].finished = 0
  BY <1>5 DEF AttemptStatus, Told, Consumed
<1>6. CASE Consumed(a) /\ permits[a].finished = 2
  BY <1>6 DEF AttemptStatus, Told, Consumed
<1>7. CASE Consumed(a) /\ permits[a].finished = 1
  <2>1. CASE clock >= a.recovery
    BY <1>1, <1>7, <2>1 DEF AttemptStatus, Told, Consumed
  <2>2. CASE clock < a.recovery /\ ~permits[a].result
    BY <1>1, <1>7, <2>2 DEF AttemptStatus, Told, Consumed
  <2>3. CASE clock < a.recovery /\ permits[a].result
    BY <1>1, <1>7, <2>3 DEF AttemptStatus, Told, Consumed
  <2> QED BY <1>1, <2>1, <2>2, <2>3
<1> QED BY <1>2, <1>3, <1>4, <1>5, <1>6, <1>7 DEF Consumed

\* attempt_status: a superseded or revoked permit stays invalid though the
\* clock goes back, a handoff is never permitted again, and a result stays
\* until its deadline.
THEOREM ReportedStatusStands == CredSpec => StatusStands
<1> DEFINE Stands(a) ==
        LET was == AttemptStatus(a)
            is == AttemptStatus(a)'
        IN  /\ was = "Invalidated" /\ (Superseded(a) \/ revision > a.revision) => is = "Invalidated"
            /\ was = "Dispatched" => is \notin {"NotIssued", "Permitted", "Invalidated"}
            /\ was \in {"Completed", "Failed"} => is \in {was, "Expired"}
            /\ was = "FinishedWithoutAnswer" => is = was
<1>1. CredTypeOK => \A a \in Attempts : AttemptStatus(a) =
          Told(Issued(a), permits[a], ~Superseded(a) /\ Current(a) /\ clock < a.expires, clock >= a.recovery)
  BY StatusRead
<1>2. (CredTypeOK => \A a \in Attempts : AttemptStatus(a) =
          Told(Issued(a), permits[a], ~Superseded(a) /\ Current(a) /\ clock < a.expires, clock >= a.recovery))'
  BY <1>1, PTL
<1>3. ASSUME CredInv, CredInv', [CredNext]_credVars, NEW a \in Attempts PROVE Stands(a)
  <2> DEFINE live == ~Superseded(a) /\ Current(a) /\ clock < a.expires
             alive == ~Superseded(a)' /\ Current(a)' /\ clock' < a.expires
  <2>1. revision' >= revision /\ \A b \in Attempts : RowStands(b)
    BY <1>3, NextStands
  <2>2. AttemptStatus(a) = Told(Issued(a), permits[a], live, clock >= a.recovery)
    BY <1>1, <1>3 DEF CredInv
  <2>3. AttemptStatus(a)' = Told(permits'[a] # NULL, permits'[a], alive, clock' >= a.recovery)
    BY <1>2, <1>3 DEF CredInv, Issued
  <2>4. /\ revision \in Nat /\ revision' \in Nat /\ clock \in Nat /\ clock' \in Nat
        /\ a.revision \in Nat /\ a.recovery \in Nat
    BY <1>3, BoundsAssumption DEF CredInv, CredTypeOK
  <2>5. Superseded(a) => Superseded(a)'
    BY <2>1 DEF Superseded, Of, RowStands, Issued
  <2>6. revision > a.revision => ~Current(a) /\ ~Current(a)'
    BY <2>1, <2>4 DEF Current
  <2>7. RowStands(a)
    BY <2>1
  <2> DEFINE was == AttemptStatus(a)
             is == AttemptStatus(a)'
  <2>8. was = "Invalidated" /\ (Superseded(a) \/ revision > a.revision) => is = "Invalidated"
    BY <2>2, <2>3, <2>5, <2>6, <2>7 DEF Told, RowStands
  <2>9. was = "Dispatched" => is \notin {"NotIssued", "Permitted", "Invalidated"}
    BY <2>2, <2>3, <2>7 DEF Told, RowStands, Consumed
  <2>10. was \in {"Completed", "Failed"} => is \in {was, "Expired"}
    BY <2>2, <2>3, <2>4, <2>7 DEF Told, RowStands, Consumed
  <2>11. was = "FinishedWithoutAnswer" => is = was
    BY <2>2, <2>3, <2>7 DEF Told, RowStands, Consumed
  <2> QED BY <2>8, <2>9, <2>10, <2>11
<1>4. CredInv /\ CredInv' /\ [CredNext]_credVars => [\A a \in Attempts : Stands(a)]_credVars
  BY <1>3
<1> QED BY <1>4, CredentialInvariant, PTL DEF CredSpec, StatusStands

=============================================================================
