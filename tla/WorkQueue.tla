----------------------------- MODULE WorkQueue -----------------------------
(***************************************************************************)
(* What the queue contract promises of its items, whichever backend keeps  *)
(* them.  An item waits, is leased to one worker, waits again or ends, and *)
(* leaves once it has ended.  One call may move several items, and move    *)
(* one item more than once (an expired lease returns and is granted again  *)
(* by the same claim), so a step is described item by item.                *)
(***************************************************************************)
EXTENDS Integers, FiniteSets

CONSTANTS Ids, NULL, Cap

VARIABLES
    work,       \* per id: NULL, or queue, key, phase, attempts and times
    cooldown,   \* per queue: until when no item of it is granted, or NULL
    clock

workVars == <<work, cooldown, clock>>

Over(b) == b.phase \in {"ended", "dead"}
Present == {i \in Ids : work[i] # NULL}
Cooling(q) == cooldown[q] # NULL /\ cooldown[q] > clock
Same(a, b) == a.queue = b.queue /\ a.key = b.key /\ a.max_attempts = b.max_attempts

WorkInit ==
    /\ work = [i \in Ids |-> NULL] /\ clock = 0
    /\ \A q \in DOMAIN cooldown : cooldown[q] = NULL

\* A new item has made no attempt.
Arrives(b) == b # NULL => b.phase = "waiting" /\ b.attempt = 0

\* A granted item used one more of its attempts, after its delay and while
\* its queue is not cooling down, and holds a lease.
Granted(a, b) ==
    /\ b.phase = "leased" /\ b.attempt = a.attempt + 1 /\ a.attempt < a.max_attempts
    /\ a.run_after <= clock /\ ~Cooling(a.queue)

\* A waiting item is granted, or ends without another attempt.
Waits(a, b) ==
    \/ b = a
    \/ /\ b # NULL /\ Same(a, b)
       /\ Granted(a, b) \/ (Over(b) /\ b.attempt = a.attempt)

\* While its lease runs an item changes only through its owner, who renews,
\* completes or fails it; it dies only with its last attempt.  Once the lease
\* ran out anyone may take it back: it waits, ends, ends and leaves, or is
\* granted to the next worker.
Leased(a, b) ==
    LET expired == a.deadline < clock
    IN  \/ b = NULL /\ expired
        \/ /\ b # NULL /\ Same(a, b)
           /\ \/ /\ b.attempt = a.attempt
                 /\ b.phase = "waiting" /\ b.reclaimed => expired
                 /\ b.phase = "dead" => expired \/ a.attempt >= a.max_attempts
              \/ expired /\ Granted(a, b)

\* An ended item never runs again.
Ended(a, b) == b = a \/ b = NULL

ItemMoves(a, b) ==
    /\ a = NULL => Arrives(b)
    /\ a # NULL /\ a.phase = "waiting" => Waits(a, b)
    /\ a # NULL /\ a.phase = "leased" => Leased(a, b)
    /\ a # NULL /\ Over(a) => Ended(a, b)

\* At most one unended item per key, at most Cap leases per queue, and an
\* attempt left for every item that waits.
Orderly ==
    /\ \A i, j \in {i \in Present : ~Over(work[i]) /\ work[i].key # NULL} :
          work[i].key = work[j].key /\ work[i].queue = work[j].queue => i = j
    /\ \A q \in DOMAIN cooldown :
          Cardinality({i \in Present : work[i].queue = q /\ work[i].phase = "leased"}) <= Cap
    /\ \A i \in Present : work[i].phase = "waiting" => work[i].attempt < work[i].max_attempts

CooldownGrows ==
    \A q \in DOMAIN cooldown :
        cooldown'[q] = cooldown[q]
            \/ (cooldown'[q] # NULL /\ (cooldown[q] = NULL \/ cooldown'[q] > cooldown[q]))

Step ==
    /\ \A i \in Ids : ItemMoves(work[i], work'[i])
    /\ Orderly' /\ UNCHANGED <<cooldown, clock>>

Cool == CooldownGrows /\ UNCHANGED <<work, clock>>
Pass == clock' > clock /\ UNCHANGED <<work, cooldown>>

WorkNext == Step \/ Cool \/ Pass
WorkSpec == WorkInit /\ [][WorkNext]_workVars
=============================================================================
