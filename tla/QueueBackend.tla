---------------------------- MODULE QueueBackend ----------------------------
(***************************************************************************)
(* What both queue backends are given: the calls they may receive and the  *)
(* limits they keep, as the QueueBackend trait passes them.                *)
(***************************************************************************)
EXTENDS Integers, FiniteSets

CONSTANTS
    Ids,            \* item identities (random UUIDs), each used once
    Queues, Keys, Workers,
    Requests,       \* the enqueue requests: queue, key and max_attempts
    NULL,
    Cap,            \* max_in_flight, one value per queue (ModelAdmission)
    Limit,          \* ClaimRequest::limit
    LeaseTime,      \* lease_seconds
    MaxLag,         \* bound on the wait for the lock
    MaxTime         \* bound on the model clock

ASSUME QueueAssumption ==
    /\ Ids \subseteq Nat /\ IsFiniteSet(Ids)
    /\ {Cap, Limit, LeaseTime} \subseteq Nat \ {0}
    /\ {MaxLag, MaxTime} \subseteq Nat
    /\ Requests \subseteq [queue : Queues, key : Keys \cup {NULL},
                           max_attempts : Nat \ {0}]

ActiveStatus == {"Pending", "Running", "Failed"}
TerminalStatus == {"Succeeded", "Dead", "Stopped"}
Active(item) == item.status \in ActiveStatus
Waiting(item) == item.status \in {"Pending", "Failed"}

\* An item; the row the persistent backend keeps also says when it changed,
\* which only that backend reads.
QueueItem ==
    [queue : Queues, key : Keys \cup {NULL}, status : ActiveStatus \cup TerminalStatus,
     attempt : Nat, max_attempts : Nat, run_after : Nat, lease_owner : Workers \cup {NULL},
     lease_until : Nat \cup {NULL}, lease_expired : BOOLEAN, created_at : Nat]
QueueRow ==
    [queue : Queues, key : Keys \cup {NULL}, status : ActiveStatus \cup TerminalStatus,
     attempt : Nat, max_attempts : Nat, run_after : Nat, lease_owner : Workers \cup {NULL},
     lease_until : Nat \cup {NULL}, lease_expired : BOOLEAN, created_at : Nat, updated_at : Nat]

\* An item as the contract sees it.
WorkItem ==
    [queue : Queues, key : Keys \cup {NULL}, attempt : Nat, max_attempts : Nat, run_after : Nat,
     deadline : Nat \cup {NULL}, reclaimed : BOOLEAN, phase : {"waiting", "leased", "dead", "ended"}]

\* The absent value is none of the values it stands in for.
ASSUME QueueNullAssumption ==
    /\ NULL \notin Nat /\ NULL \notin Keys /\ NULL \notin Workers
    /\ NULL \notin QueueItem /\ NULL \notin QueueRow /\ NULL \notin WorkItem
    /\ NULL \notin Queues \X (Keys \cup {NULL})

Phase(status) ==
    IF status \in {"Pending", "Failed"} THEN "waiting"
    ELSE IF status = "Running" THEN "leased"
    ELSE IF status = "Dead" THEN "dead" ELSE "ended"

\* How an item of either backend is seen by a caller of the trait.
Seen(item) ==
    IF item = NULL THEN NULL
    ELSE [queue |-> item.queue, key |-> item.key, attempt |-> item.attempt,
          max_attempts |-> item.max_attempts, run_after |-> item.run_after,
          deadline |-> item.lease_until, reclaimed |-> item.lease_expired,
          phase |-> Phase(item.status)]
=============================================================================
