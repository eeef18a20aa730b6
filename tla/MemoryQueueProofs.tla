------------------------- MODULE MemoryQueueProofs -------------------------
(***************************************************************************)
(* The in-process queue keeps its indexes in step with its items and       *)
(* implements the abstract queue.  The one delicate part is the terminal   *)
(* window: an item enters it exactly when it ends, so an evicted item has  *)
(* ended, and no unended item loses its key.  Every other operation moves  *)
(* an item as the contract lets it.                                        *)
(***************************************************************************)
EXTENDS MemoryQueue, SequenceTheorems, FiniteSetTheorems, TLAPS

\* What a held item satisfies: a running one has a deadline, a waiting one
\* has an attempt left.
Sound(item) ==
    item # NULL => /\ item.status = "Running" => item.lease_until \in Nat
                   /\ Waiting(item) => item.attempt < item.max_attempts

Table == [Ids -> QueueItem \cup {NULL}]
Leases(items, q) ==
    {i \in Ids : items[i] # NULL /\ items[i].queue = q /\ items[i].status = "Running"}
EndedIds(items) == {i \in Ids : items[i] # NULL /\ ~Active(items[i])}

\* The window w holds the ids of S, each once.
Window(w, S) ==
    /\ w \in Seq(Ids)
    /\ \A j, k \in 1..Len(w) : w[j] = w[k] => j = k
    /\ \A i \in Ids : i \in S <=> \E k \in 1..Len(w) : w[k] = i

KeysPoint(s) ==
    \A k \in Queues \X Keys : s.idempotency[k] # NULL =>
        /\ s.idempotency[k] \in Ids /\ s.items[s.idempotency[k]] # NULL
        /\ KeyOf(s.items[s.idempotency[k]]) = k
ActiveIndexed(s) ==
    \A i \in Ids : s.items[i] # NULL /\ Active(s.items[i]) /\ s.items[i].key # NULL =>
        s.idempotency[KeyOf(s.items[i])] = i

Good(s) ==
    /\ s \in State
    /\ \A i \in Ids : Sound(s.items[i])
    /\ \A q \in Queues : s.running[q] = Leases(s.items, q) /\ Cardinality(s.running[q]) <= Cap
    /\ Window(s.terminal, EndedIds(s.items)) /\ Len(s.terminal) <= Retain
    /\ KeysPoint(s) /\ ActiveIndexed(s)

\* The inductive invariant.
MemInv ==
    /\ Good(state) /\ now \in 0..MaxTime
    /\ issued \in [Ids -> (Queues \X (Keys \cup {NULL})) \cup {NULL}]
    /\ \A i \in Ids : state.items[i] # NULL => issued[i] # NULL

----------------------------------------------------------------------------
(* Items and sequences.                                                    *)

\* The absent value is no item.
LEMMA NullItem ==
    /\ NULL \notin QueueItem /\ NULL \notin Nat /\ NULL \notin WorkItem /\ NULL \notin Ids
    /\ \A item \in QueueItem : item # NULL /\ Seen(item) # NULL
<1>1. NULL \notin QueueItem /\ NULL \notin Nat /\ NULL \notin WorkItem /\ NULL \notin Ids
  BY QueueNullAssumption, QueueAssumption
<1>2. \A item \in QueueItem : item # NULL
  BY <1>1
<1>3. ASSUME NEW item \in QueueItem PROVE Seen(item) \in WorkItem
  BY <1>2 DEF Seen, WorkItem, QueueItem, Phase
<1> QED BY <1>1, <1>2, <1>3

\* The shape of an item, for the provers.
LEMMA ItemTypes ==
    ASSUME NEW item \in QueueItem
    PROVE  /\ item.queue \in Queues /\ item.key \in Keys \cup {NULL}
           /\ item.status \in ActiveStatus \cup TerminalStatus
           /\ item.attempt \in Nat /\ item.max_attempts \in Nat /\ item.run_after \in Nat
           /\ item.lease_owner \in Workers \cup {NULL} /\ item.lease_until \in Nat \cup {NULL}
           /\ item.lease_expired \in BOOLEAN /\ item.created_at \in Nat
BY DEF QueueItem

\* The shape of the queue's state, for the provers.
LEMMA StateTypes ==
    ASSUME NEW s \in State
    PROVE  /\ s.items \in Table /\ s.idempotency \in [Queues \X Keys -> Ids \cup {NULL}]
           /\ s.running \in [Queues -> SUBSET Ids] /\ s.terminal \in Seq(Ids)
           /\ s.cooldowns \in [Queues -> Nat \cup {NULL}]
           /\ \A i \in Ids : s.items[i] \in QueueItem \cup {NULL}
BY DEF State, Table

\* Two windows without a common id make one.
LEMMA WindowConcat ==
    ASSUME NEW v, NEW w, NEW S, NEW T, Window(v, S), Window(w, T), S \cap T = {}
    PROVE  Window(v \o w, S \cup T) /\ Len(v \o w) = Len(v) + Len(w)
<1>1. v \in Seq(Ids) /\ w \in Seq(Ids) /\ Len(v) \in Nat /\ Len(w) \in Nat
  BY LenProperties DEF Window
<1>2. /\ v \o w \in Seq(Ids) /\ Len(v \o w) = Len(v) + Len(w)
      /\ \A i \in 1..Len(v) + Len(w) :
            (v \o w)[i] = IF i <= Len(v) THEN v[i] ELSE w[i - Len(v)]
  BY <1>1, ConcatProperties
<1> DEFINE x == v \o w
<1> HIDE DEF x
<1>3. \A j \in 1..Len(v) : v[j] \in Ids /\ v[j] \in S BY <1>1, ElementOfSeq DEF Window
<1>4. \A j \in 1..Len(w) : w[j] \in Ids /\ w[j] \in T BY <1>1, ElementOfSeq DEF Window
<1>5. ASSUME NEW j \in 1..Len(x), NEW k \in 1..Len(x), x[j] = x[k] PROVE j = k
  <2>1. CASE j <= Len(v) /\ k <= Len(v)
    BY <1>1, <1>2, <1>5, <2>1 DEF x, Window
  <2>2. CASE j > Len(v) /\ k > Len(v)
    <3>1. w[j - Len(v)] = w[k - Len(v)] /\ j - Len(v) \in 1..Len(w) /\ k - Len(v) \in 1..Len(w)
      BY <1>1, <1>2, <1>5, <2>2 DEF x
    <3>2. j - Len(v) = k - Len(v) BY <3>1 DEF Window
    <3> QED BY <1>1, <3>2
  <2>3. ASSUME NEW a \in 1..Len(x), NEW b \in 1..Len(x), a <= Len(v), b > Len(v)
        PROVE  x[a] # x[b]
    <3>1. x[a] = v[a] /\ a \in 1..Len(v) BY <1>1, <1>2, <2>3 DEF x
    <3>2. x[b] = w[b - Len(v)] /\ b - Len(v) \in 1..Len(w) BY <1>1, <1>2, <2>3 DEF x
    <3> QED BY <1>3, <1>4, <3>1, <3>2
  <2> QED BY <1>1, <1>5, <2>1, <2>2, <2>3
<1>6. ASSUME NEW i \in Ids PROVE i \in S \cup T <=> \E k \in 1..Len(x) : x[k] = i
  <2>1. ASSUME i \in S PROVE \E k \in 1..Len(x) : x[k] = i
    <3>1. PICK k \in 1..Len(v) : v[k] = i BY <2>1 DEF Window
    <3> QED BY <1>1, <1>2, <3>1 DEF x
  <2>2. ASSUME i \in T PROVE \E k \in 1..Len(x) : x[k] = i
    <3>1. PICK k \in 1..Len(w) : w[k] = i BY <2>2 DEF Window
    <3>2. k + Len(v) \in 1..Len(x) /\ x[k + Len(v)] = w[k] BY <1>1, <1>2, <3>1 DEF x
    <3> QED BY <3>1, <3>2
  <2>3. ASSUME NEW k \in 1..Len(x), x[k] = i PROVE i \in S \cup T
    <3>1. CASE k <= Len(v) BY <1>1, <1>2, <1>3, <2>3, <3>1 DEF x
    <3>2. CASE k > Len(v)
      <4>1. k - Len(v) \in 1..Len(w) /\ x[k] = w[k - Len(v)] BY <1>1, <1>2, <3>2 DEF x
      <4> QED BY <1>4, <2>3, <4>1
    <3> QED BY <1>1, <3>1, <3>2
  <2> QED BY <2>1, <2>2, <2>3
<1> QED BY <1>2, <1>5, <1>6 DEF x, Window

\* The oldest n of a window leave it.
LEMMA WindowDrop ==
    ASSUME NEW w, NEW S, Window(w, S), NEW n \in 0..Len(w)
    PROVE  /\ Window(SubSeq(w, n + 1, Len(w)), S \ {w[k] : k \in 1..n})
           /\ Len(SubSeq(w, n + 1, Len(w))) = Len(w) - n
<1>1. w \in Seq(Ids) /\ Len(w) \in Nat /\ n \in Nat
  BY LenProperties DEF Window
<1>2. \A k \in 1..Len(w) : w[k] \in Ids BY <1>1, ElementOfSeq
<1> DEFINE x == SubSeq(w, n + 1, Len(w)) D == {w[k] : k \in 1..n}
<1>3. /\ x \in Seq(Ids) /\ Len(x) = Len(w) - n
      /\ \A k \in 1..Len(w) - n : x[k] = w[n + k]
  <2>1. n + 1 \in Int /\ Len(w) \in Int /\ \A k \in (n + 1)..Len(w) : w[k] \in Ids
    BY <1>1, <1>2
  <2>2. /\ x \in Seq(Ids) /\ Len(x) = IF n + 1 <= Len(w) THEN Len(w) - (n + 1) + 1 ELSE 0
        /\ \A k \in 1..(Len(w) - (n + 1) + 1) : x[k] = w[n + 1 + k - 1]
    BY <2>1, SubSeqProperties
  <2>3. \A k \in 1..Len(w) - n : k \in 1..(Len(w) - (n + 1) + 1) /\ n + 1 + k - 1 = n + k
    BY <1>1
  <2>4. Len(x) = Len(w) - n BY <1>1, <2>2
  <2> HIDE DEF x
  <2> QED BY <2>2, <2>3, <2>4
<1> HIDE DEF x
<1>4. ASSUME NEW j \in 1..Len(x), NEW k \in 1..Len(x), x[j] = x[k] PROVE j = k
  <2>1. n + j \in 1..Len(w) /\ n + k \in 1..Len(w) /\ w[n + j] = w[n + k]
    BY <1>1, <1>3, <1>4
  <2>2. n + j = n + k BY <2>1 DEF Window
  <2> QED BY <1>1, <2>2
<1>5. ASSUME NEW i \in Ids PROVE i \in S \ D <=> \E k \in 1..Len(x) : x[k] = i
  <2>1. ASSUME i \in S \ D PROVE \E k \in 1..Len(x) : x[k] = i
    <3>1. PICK k \in 1..Len(w) : w[k] = i BY <2>1 DEF Window
    <3>2. k > n BY <1>1, <2>1, <3>1
    <3>3. k - n \in 1..Len(x) /\ x[k - n] = w[n + (k - n)] /\ n + (k - n) = k
      BY <1>1, <1>3, <3>2
    <3> QED BY <3>1, <3>3
  <2>2. ASSUME NEW k \in 1..Len(x), x[k] = i PROVE i \in S \ D
    <3>1. n + k \in 1..Len(w) /\ w[n + k] = i BY <1>1, <1>3, <2>2
    <3>2. i \in S BY <3>1 DEF Window
    <3>3. ASSUME i \in D PROVE FALSE
      <4>1. PICK j \in 1..n : w[j] = i BY <3>3
      <4>2. j \in 1..Len(w) /\ j # n + k BY <1>1
      <4> QED BY <3>1, <4>1, <4>2 DEF Window
    <3> QED BY <3>2, <3>3
  <2> QED BY <2>1, <2>2
<1> QED BY <1>3, <1>4, <1>5 DEF x, Window

----------------------------------------------------------------------------
(* What an operation may do to one item, in the terms of the contract.     *)

Moves(a, b) == Contract!ItemMoves(Seen(a), Seen(b))

\* An item whose lease ran out by a sample of the clock.
Lapsed(a) == a.status = "Running" /\ a.lease_until \in Nat /\ a.lease_until < now
Same(a, b) == b.queue = a.queue /\ b.key = a.key /\ b.max_attempts = a.max_attempts

Leave(a) == ~Active(a) \/ Lapsed(a)
Lease(a, b) ==
    /\ Waiting(a) \/ Lapsed(a)
    /\ b.status = "Running" /\ b.attempt = a.attempt + 1 /\ a.attempt < a.max_attempts
    /\ a.run_after <= now /\ ~CoolingDown(a.queue)
Retire(a, b) == Waiting(a) /\ ~Active(b) /\ b.attempt = a.attempt
Release(a, b) ==
    /\ a.status = "Running" /\ b.attempt = a.attempt
    /\ b.status = "Failed" /\ b.lease_expired => Lapsed(a)
    /\ b.status = "Dead" => Lapsed(a) \/ a.attempt >= a.max_attempts
    /\ b.status # "Pending"

\* An item that is granted, retired or released moves as the contract says.
LEMMA SeenMoves ==
    ASSUME NEW a \in QueueItem, NEW b \in QueueItem, Same(a, b),
           a = b \/ Lease(a, b) \/ Retire(a, b) \/ Release(a, b)
    PROVE  Moves(a, b)
<1>1. Seen(a) # NULL /\ Seen(b) # NULL /\ a # NULL /\ b # NULL BY NullItem
<1>2. CASE a = b
  BY <1>1, <1>2 DEF Moves, Seen, Phase, Contract!ItemMoves, Contract!Waits, Contract!Leased, Contract!Same,
        Contract!Ended
<1>3. CASE Lease(a, b)
  BY <1>1, <1>3 DEF Lease, Lapsed, Same, CoolingDown, Waiting, Moves, Seen, Phase, Contract!ItemMoves,
        Contract!Waits, Contract!Leased, Contract!Same, Contract!Granted, Contract!Cooling, Contract!Over
<1>4. CASE Retire(a, b)
  BY <1>1, <1>4, ItemTypes DEF Retire, Same, Active, ActiveStatus, TerminalStatus, Waiting, Moves, Seen,
        Phase, Contract!ItemMoves, Contract!Waits, Contract!Same, Contract!Over
<1>5. CASE Release(a, b)
  BY <1>1, <1>5 DEF Release, Lapsed, Same, Moves, Seen, Phase, Contract!ItemMoves, Contract!Leased,
        Contract!Same, Contract!Over
<1> QED BY <1>2, <1>3, <1>4, <1>5

\* An item that arrives or leaves does so as the contract says.
LEMMA NullMoves ==
    /\ Moves(NULL, NULL)
    /\ \A a \in QueueItem : Leave(a) => Moves(a, NULL)
    /\ \A b \in QueueItem : b.status = "Pending" /\ b.attempt = 0 => Moves(NULL, b)
<1>1. Seen(NULL) = NULL BY DEF Seen
<1>2. Moves(NULL, NULL)
  BY <1>1 DEF Moves, Contract!ItemMoves, Contract!Arrives
<1>3. ASSUME NEW a \in QueueItem, Leave(a) PROVE Moves(a, NULL)
  <2>1. a # NULL /\ Seen(a) # NULL BY NullItem
  <2>2. CASE ~Active(a)
    BY <1>1, <2>1, <2>2, ItemTypes DEF Active, ActiveStatus, TerminalStatus, Moves, Seen, Phase,
          Contract!ItemMoves, Contract!Over, Contract!Ended
  <2>3. CASE Lapsed(a)
    BY <1>1, <2>1, <2>3 DEF Lapsed, Moves, Seen, Phase, Contract!ItemMoves, Contract!Over, Contract!Leased
  <2> QED BY <1>3, <2>2, <2>3 DEF Leave
<1>4. ASSUME NEW b \in QueueItem, b.status = "Pending", b.attempt = 0 PROVE Moves(NULL, b)
  BY <1>1, <1>4, NullItem DEF Moves, Seen, Phase, Contract!ItemMoves, Contract!Arrives
<1> QED BY <1>2, <1>3, <1>4

\* An item that is left alone.
LEMMA SameMoves == ASSUME NEW a \in QueueItem \cup {NULL} PROVE Moves(a, a)
BY SeenMoves, NullMoves DEF Same

----------------------------------------------------------------------------
(* set_status and evict_terminal.                                          *)

Drop(w) == IF Len(w) > Retain THEN Len(w) - Retain ELSE 0
Evicted(w) == {w[k] : k \in 1..Drop(w)}
Written(s, new) == [i \in Ids |-> IF i \in DOMAIN new THEN new[i] ELSE s.items[i]]

Evict(items, D) == [i \in Ids |-> IF i \in D THEN NULL ELSE items[i]]
Unindex(index, D) == [k \in Queues \X Keys |-> IF index[k] \in D THEN NULL ELSE index[k]]
MoveLeases(running, new) ==
    LET moved(q) == {i \in DOMAIN new : new[i].queue = q}
    IN  [q \in Queues |->
            (running[q] \ {i \in moved(q) : new[i].status # "Running"})
            \cup {i \in moved(q) : new[i].status = "Running"}]

\* What evict_terminal changes.
LEMMA EvictFields ==
    ASSUME NEW s, NEW w, w = s.terminal
    PROVE  EvictTerminal(s) =
               [s EXCEPT !.terminal = SubSeq(w, Drop(w) + 1, Len(w)),
                         !.items = Evict(s.items, Evicted(w)),
                         !.idempotency = Unindex(s.idempotency, Evicted(w))]
<1> DEFINE n == IF Len(s.terminal) > Retain THEN Len(s.terminal) - Retain ELSE 0
           evicted == {s.terminal[k] : k \in 1..n}
<1>1. n = Drop(w) /\ evicted = Evicted(w) BY DEF Drop, Evicted
<1>2. EvictTerminal(s) =
        [s EXCEPT !.terminal = SubSeq(s.terminal, n + 1, Len(s.terminal)),
                  !.items = Evict(s.items, evicted),
                  !.idempotency = Unindex(s.idempotency, evicted)]
  BY Zenon DEF EvictTerminal, Evict, Unindex
<1> HIDE DEF n, evicted
<1> QED BY <1>1, <1>2, Zenon

\* A state given by the sets its fields are in; with singletons, by its fields.
Fields(a, b, c, d, e) ==
    [items : a, idempotency : b, running : c, terminal : d, cooldowns : e]

\* The fields of a state after set_status.
LEMMA StoredFields ==
    ASSUME NEW s \in State, NEW new, NEW ended, NEW w, w = s.terminal \o ended
    PROVE  Stored(s, new, ended)
           = [items |-> Evict(Written(s, new), Evicted(w)),
              idempotency |-> Unindex(s.idempotency, Evicted(w)),
              running |-> MoveLeases(s.running, new),
              terminal |-> SubSeq(w, Drop(w) + 1, Len(w)), cooldowns |-> s.cooldowns]
<1> DEFINE x == [s EXCEPT !.items = Written(s, new), !.running = MoveLeases(s.running, new),
                          !.terminal = w]
<1>3. Stored(s, new, ended) =
        EvictTerminal([s EXCEPT !.items = Written(s, new), !.running = MoveLeases(s.running, new),
                                !.terminal = s.terminal \o ended])
  BY Zenon DEF Stored, Written, MoveLeases
<1>4. Stored(s, new, ended) = EvictTerminal(x) BY <1>3
<1> DEFINE a == Written(s, new)
           b == s.idempotency
           c == MoveLeases(s.running, new)
           e == s.cooldowns
           f == SubSeq(w, Drop(w) + 1, Len(w))
           g == Evict(a, Evicted(w))
           h == Unindex(b, Evicted(w))
           u == Stored(s, new, ended)
<1>5. s \in Fields({s.items}, {b}, {s.running}, {s.terminal}, {e})
  BY DEF State, Fields
<1> HIDE DEF a, b, c, e, f, g, h, u
<1>6. x \in Fields({a}, {b}, {c}, {w}, {e})
  BY <1>5 DEF Fields, a, c
<1> HIDE DEF x
<1>7. x.items = a /\ x.idempotency = b /\ x.terminal = w BY <1>6 DEF Fields
<1>8. u = [x EXCEPT !.terminal = f, !.items = g, !.idempotency = h]
  BY <1>4, <1>7, EvictFields DEF f, g, h, u
<1>9. u \in Fields({g}, {h}, {c}, {f}, {e})
  BY <1>6, <1>8 DEF Fields
<1>10. u = [items |-> g, idempotency |-> h, running |-> c, terminal |-> f, cooldowns |-> e]
  BY <1>9 DEF Fields
<1> QED BY <1>10 DEF a, b, c, e, f, g, h, u

\* What the items written at once must be.
Writes(s, new, ended) ==
    /\ DOMAIN new \subseteq Held(s)
    /\ \A i \in DOMAIN new :
          /\ new[i] \in QueueItem /\ Same(s.items[i], new[i]) /\ Active(s.items[i]) /\ Sound(new[i])
    /\ Window(ended, {i \in DOMAIN new : ~Active(new[i])})
    /\ \A q \in Queues : Cardinality(Leases(Written(s, new), q)) <= Cap

\* set_status keeps the indexes in step with the items.
LEMMA StoredGood ==
    ASSUME NEW s, Good(s), NEW new, NEW ended, Writes(s, new, ended)
    PROVE  Good(Stored(s, new, ended))
<1> DEFINE u == Stored(s, new, ended)
           w == s.terminal \o ended
           m == Written(s, new)
           D == Evicted(w)
<1>0. s \in State BY DEF Good
<1>1. /\ u.items = Evict(m, D) /\ u.idempotency = Unindex(s.idempotency, D)
      /\ u.running = MoveLeases(s.running, new)
      /\ u.terminal = SubSeq(w, Drop(w) + 1, Len(w)) /\ u.cooldowns = s.cooldowns
      /\ u = [items |-> u.items, idempotency |-> u.idempotency, running |-> u.running,
              terminal |-> u.terminal, cooldowns |-> u.cooldowns]
  <2> HIDE DEF u, m, D
  <2>1. u = [items |-> Evict(m, D), idempotency |-> Unindex(s.idempotency, D),
             running |-> MoveLeases(s.running, new),
             terminal |-> SubSeq(w, Drop(w) + 1, Len(w)), cooldowns |-> s.cooldowns]
    BY <1>0, StoredFields DEF u, m, D
  <2> QED BY <2>1
<1>2. /\ m \in [Ids -> QueueItem \cup {NULL}]
      /\ \A i \in Ids : m[i] = IF i \in DOMAIN new THEN new[i] ELSE s.items[i]
      /\ DOMAIN new \subseteq Ids
  BY <1>0, StateTypes DEF Writes, Written, Held, Table
<1>3. \A i \in Ids : Sound(m[i]) BY <1>2 DEF Writes, Good
<1>4. Window(w, EndedIds(m)) /\ Len(w) \in Nat
  <2> DEFINE T == {i \in DOMAIN new : ~Active(new[i])}
  <2>1. EndedIds(s.items) \cap T = {} BY DEF EndedIds, Writes
  <2>2. EndedIds(m) = EndedIds(s.items) \cup T
    BY <1>2, NullItem DEF EndedIds, Writes
  <2>3. Window(s.terminal, EndedIds(s.items)) /\ Window(ended, T) BY DEF Good, Writes
  <2>4. Window(w, EndedIds(s.items) \cup T) BY <2>1, <2>3, WindowConcat
  <2> QED BY <2>2, <2>4, LenProperties DEF Window
<1>5. Drop(w) \in 0..Len(w) /\ Len(w) - Drop(w) <= Retain /\ Retain \in Nat
  BY <1>4, MemoryAssumption DEF Drop
<1> HIDE DEF u, w, m, D
<1>6. Window(u.terminal, EndedIds(m) \ D) /\ Len(u.terminal) <= Retain
  BY <1>1, <1>4, <1>5, WindowDrop DEF D, Evicted
<1>7. \A i \in D : i \in EndedIds(m)
  <2>1. ASSUME NEW k \in 1..Drop(w) PROVE w[k] \in EndedIds(m)
    <3>1. k \in 1..Len(w) BY <1>4, <1>5
    <3>2. w[k] \in Ids BY <1>4, <3>1, ElementOfSeq DEF Window
    <3> QED BY <1>4, <3>1, <3>2 DEF Window
  <2> QED BY <2>1 DEF D, Evicted
<1>8. EndedIds(u.items) = EndedIds(m) \ D BY <1>1 DEF EndedIds, Evict
<1>9. \A i \in Ids : u.items[i] = IF i \in D THEN NULL ELSE m[i] BY <1>1 DEF Evict
<1>10. ASSUME NEW q \in Queues
       PROVE  u.running[q] = Leases(m, q) /\ Leases(u.items, q) = Leases(m, q)
              /\ Cardinality(u.running[q]) <= Cap
  <2>1. s.running[q] = Leases(s.items, q) BY DEF Good
  <2>2. \A i \in DOMAIN new : /\ new[i].queue = s.items[i].queue /\ i \in Ids
                              /\ m[i] = new[i] /\ new[i] # NULL
    BY <1>2, NullItem DEF Writes, Same
  <2>3. u.running[q] = Leases(m, q)
    BY <1>1, <1>2, <2>1, <2>2 DEF Leases, MoveLeases
  <2>4. Leases(u.items, q) = Leases(m, q)
    BY <1>7, <1>9 DEF Leases, EndedIds, Active, ActiveStatus
  <2> QED BY <2>3, <2>4 DEF Writes, m
<1>11. KeysPoint(u)
  <2> SUFFICES ASSUME NEW k \in Queues \X Keys, u.idempotency[k] # NULL
               PROVE  /\ u.idempotency[k] \in Ids /\ u.items[u.idempotency[k]] # NULL
                      /\ KeyOf(u.items[u.idempotency[k]]) = k
    BY DEF KeysPoint
  <2> DEFINE j == s.idempotency[k]
  <2>1. u.idempotency[k] = j /\ j \notin D /\ j # NULL BY <1>1 DEF Unindex
  <2>2. j \in Ids /\ s.items[j] # NULL /\ KeyOf(s.items[j]) = k BY <2>1 DEF Good, KeysPoint
  <2> HIDE DEF j
  <2>3. m[j] # NULL /\ KeyOf(m[j]) = KeyOf(s.items[j])
    BY <1>2, <2>2, NullItem DEF Writes, Same, KeyOf
  <2> QED BY <1>9, <2>1, <2>2, <2>3
<1>12. ActiveIndexed(u)
  <2> SUFFICES ASSUME NEW i \in Ids, u.items[i] # NULL, Active(u.items[i]), u.items[i].key # NULL
               PROVE  u.idempotency[KeyOf(u.items[i])] = i
    BY DEF ActiveIndexed
  <2>1. i \notin D /\ u.items[i] = m[i] /\ m[i] \in QueueItem BY <1>2, <1>9
  <2>2. s.items[i] # NULL /\ Active(s.items[i]) /\ KeyOf(s.items[i]) = KeyOf(m[i]) /\ s.items[i].key # NULL
    BY <1>2, <2>1, NullItem DEF Writes, Same, KeyOf, Held
  <2>3. s.idempotency[KeyOf(m[i])] = i BY <2>2 DEF Good, ActiveIndexed
  <2>4. KeyOf(m[i]) \in Queues \X Keys BY <2>1, ItemTypes DEF KeyOf
  <2> QED BY <1>1, <2>1, <2>3, <2>4 DEF Unindex
<1>13. u \in State
  <2>1. u.items \in [Ids -> QueueItem \cup {NULL}] BY <1>1, <1>2 DEF Evict
  <2>2. u.idempotency \in [Queues \X Keys -> Ids \cup {NULL}]
    BY <1>0, <1>1, StateTypes DEF Unindex
  <2>3. u.running \in [Queues -> SUBSET Ids]
    BY <1>1, <1>10 DEF Leases, MoveLeases
  <2>4. u.terminal \in Seq(Ids) BY <1>6 DEF Window
  <2>5. u.cooldowns \in [Queues -> Nat \cup {NULL}] BY <1>0, <1>1, StateTypes
  <2> QED BY <1>1, <2>1, <2>2, <2>3, <2>4, <2>5 DEF State
<1>14. \A i \in Ids : Sound(u.items[i]) BY <1>3, <1>9 DEF Sound
<1> QED BY <1>6, <1>8, <1>10, <1>11, <1>12, <1>13, <1>14 DEF Good, u

Joined(s, ended) == s.terminal \o ended

\* What set_status leaves behind: the written items, less the evicted ones,
\* which had all ended.
LEMMA StoredItems ==
    ASSUME NEW s, Good(s), NEW new, NEW ended, Writes(s, new, ended)
    PROVE  /\ \A i \in Ids : Stored(s, new, ended).items[i] =
                 IF i \in Evicted(Joined(s, ended)) THEN NULL ELSE Written(s, new)[i]
           /\ \A i \in Evicted(Joined(s, ended)) : i \in EndedIds(Written(s, new))
           /\ Stored(s, new, ended).cooldowns = s.cooldowns
<1> DEFINE u == Stored(s, new, ended)
           m == Written(s, new)
           w == Joined(s, ended)
<1>0. s \in State BY DEF Good
<1>1. u.items = Evict(m, Evicted(w)) /\ u.cooldowns = s.cooldowns
  <2> HIDE DEF u, m, w
  <2>1. u = [items |-> Evict(m, Evicted(w)), idempotency |-> Unindex(s.idempotency, Evicted(w)),
             running |-> MoveLeases(s.running, new),
             terminal |-> SubSeq(w, Drop(w) + 1, Len(w)), cooldowns |-> s.cooldowns]
    BY <1>0, StoredFields DEF u, m, w, Joined
  <2> QED BY <2>1
<1>2. /\ m \in [Ids -> QueueItem \cup {NULL}]
      /\ \A i \in Ids : m[i] = IF i \in DOMAIN new THEN new[i] ELSE s.items[i]
      /\ DOMAIN new \subseteq Ids
  BY <1>0, StateTypes DEF Writes, Written, Held, Table
<1>3. Window(w, EndedIds(m)) /\ Len(w) \in Nat
  <2> DEFINE T == {i \in DOMAIN new : ~Active(new[i])}
  <2>1. EndedIds(s.items) \cap T = {} BY DEF EndedIds, Writes
  <2>2. EndedIds(m) = EndedIds(s.items) \cup T
    BY <1>2, NullItem DEF EndedIds, Writes
  <2>3. Window(s.terminal, EndedIds(s.items)) /\ Window(ended, T) BY DEF Good, Writes
  <2>4. Window(w, EndedIds(s.items) \cup T) BY <2>1, <2>3, WindowConcat DEF Joined
  <2> QED BY <2>2, <2>4, LenProperties DEF Window
<1>4. Drop(w) \in 0..Len(w) BY <1>3, MemoryAssumption DEF Drop
<1> HIDE DEF u, m, w
<1>5. \A i \in Evicted(w) : i \in EndedIds(m)
  <2>1. ASSUME NEW k \in 1..Drop(w) PROVE w[k] \in EndedIds(m)
    <3>1. k \in 1..Len(w) BY <1>3, <1>4
    <3>2. w[k] \in Ids BY <1>3, <3>1, ElementOfSeq DEF Window
    <3> QED BY <1>3, <3>1, <3>2 DEF Window
  <2> QED BY <2>1 DEF Evicted
<1>6. \A i \in Ids : u.items[i] = IF i \in Evicted(w) THEN NULL ELSE m[i] BY <1>1 DEF Evict
<1> QED BY <1>1, <1>5, <1>6 DEF u, m, w

\* The window of one item and of none.
LEMMA SmallWindows ==
    /\ Window(<<>>, {}) /\ Len(<<>>) = 0
    /\ \A i \in Ids : Window(<<i>>, {i}) /\ Len(<<i>>) = 1
<1>1. Window(<<>>, {}) /\ Len(<<>>) = 0 BY EmptySeq DEF Window
<1>2. ASSUME NEW i \in Ids PROVE Window(<<i>>, {i}) /\ Len(<<i>>) = 1
  <2>1. <<i>> \in Seq(Ids) /\ Len(<<i>>) = 1 /\ <<i>>[1] = i OBVIOUS
  <2>2. 1..1 = {1} OBVIOUS
  <2> QED BY <2>1, <2>2 DEF Window
<1> QED BY <1>1, <1>2

\* Leases are finite sets.
LEMMA LeasesFinite ==
    ASSUME NEW items, NEW q
    PROVE  IsFiniteSet(Leases(items, q)) /\ Cardinality(Leases(items, q)) \in Nat
<1>1. Leases(items, q) \subseteq Ids BY DEF Leases
<1>2. IsFiniteSet(Ids) BY QueueAssumption
<1> QED BY <1>1, <1>2, FS_Subset, FS_CardinalityType

\* Items that start no lease leave the cap alone.
LEMMA NoLeaseCap ==
    ASSUME NEW s, Good(s), NEW m,
           \A i \in Ids : m[i] # NULL /\ m[i].status = "Running" =>
               s.items[i] # NULL /\ s.items[i].status = "Running" /\ s.items[i].queue = m[i].queue
    PROVE  \A q \in Queues : Cardinality(Leases(m, q)) <= Cap
<1> SUFFICES ASSUME NEW q \in Queues PROVE Cardinality(Leases(m, q)) <= Cap OBVIOUS
<1>1. Leases(m, q) \subseteq Leases(s.items, q) BY DEF Leases
<1>2. Cardinality(Leases(m, q)) <= Cardinality(Leases(s.items, q))
  BY <1>1, LeasesFinite, FS_Subset
<1>3. Cardinality(Leases(s.items, q)) <= Cap /\ Cap \in Nat BY QueueAssumption DEF Good
<1> QED BY <1>2, <1>3, LeasesFinite

\* A union is no larger than its parts together.
LEMMA UnionBound ==
    ASSUME NEW S, NEW T, IsFiniteSet(S), IsFiniteSet(T)
    PROVE  IsFiniteSet(S \cup T) /\ Cardinality(S \cup T) <= Cardinality(S) + Cardinality(T)
<1>1. S \cap T \subseteq S OBVIOUS
<1>2. IsFiniteSet(S \cap T) BY <1>1, FS_Subset
<1>3. /\ Cardinality(S) \in Nat /\ Cardinality(T) \in Nat /\ Cardinality(S \cap T) \in Nat
  BY <1>2, FS_CardinalityType
<1>4. /\ IsFiniteSet(S \cup T)
      /\ Cardinality(S \cup T) = Cardinality(S) + Cardinality(T) - Cardinality(S \cap T)
  BY FS_Union
<1> QED BY <1>3, <1>4

\* New leases of one queue that fit its free slots.
LEMMA LeaseCap ==
    ASSUME NEW s, Good(s), NEW m, NEW q \in Queues, NEW page \in SUBSET Ids,
           \A p \in Queues \ {q} : Leases(m, p) \subseteq Leases(s.items, p),
           Leases(m, q) \subseteq Leases(s.items, q) \cup page,
           Cardinality(s.running[q]) + Cardinality(page) <= Cap
    PROVE  \A p \in Queues : Cardinality(Leases(m, p)) <= Cap
<1>0. Cap \in Nat BY QueueAssumption
<1>1. ASSUME NEW p \in Queues \ {q} PROVE Cardinality(Leases(m, p)) <= Cap
  <2>1. Cardinality(Leases(m, p)) <= Cardinality(Leases(s.items, p))
    BY LeasesFinite, FS_Subset
  <2>2. Cardinality(Leases(s.items, p)) <= Cap BY DEF Good
  <2> QED BY <1>0, <2>1, <2>2, LeasesFinite
<1>2. Cardinality(Leases(m, q)) <= Cap
  <2>0. Cardinality(s.running[q]) = Cardinality(Leases(s.items, q)) BY DEF Good
  <2>1. IsFiniteSet(page) /\ Cardinality(page) \in Nat
    BY QueueAssumption, FS_Subset, FS_CardinalityType
  <2>2. /\ IsFiniteSet(Leases(s.items, q) \cup page)
        /\ Cardinality(Leases(s.items, q) \cup page)
              <= Cardinality(Leases(s.items, q)) + Cardinality(page)
    BY <2>1, LeasesFinite, UnionBound
  <2>3. Cardinality(Leases(m, q)) <= Cardinality(Leases(s.items, q) \cup page)
    BY <2>2, FS_Subset
  <2>4. Cardinality(Leases(s.items, q) \cup page) \in Nat BY <2>2, FS_CardinalityType
  <2> QED BY <1>0, <2>0, <2>1, <2>2, <2>3, <2>4, LeasesFinite
<1> QED BY <1>1, <1>2

\* Writing items none of which ends evicts nothing.
LEMMA PlainStored ==
    ASSUME NEW s, Good(s), NEW new, Writes(s, new, <<>>), NEW u, u = Stored(s, new, <<>>)
    PROVE  /\ Good(u) /\ u.cooldowns = s.cooldowns
           /\ \A i \in Ids : u.items[i] = IF i \in DOMAIN new THEN new[i] ELSE s.items[i]
<1> DEFINE w == Joined(s, <<>>)
<1>1. w = s.terminal /\ Len(s.terminal) \in Nat /\ Len(s.terminal) <= Retain /\ Retain \in Nat
  BY StateTypes, ConcatEmptySeq, LenProperties, MemoryAssumption DEF Good, Joined
<1>2. Evicted(w) = {} BY <1>1 DEF Evicted, Drop
<1>3. /\ \A i \in Ids : u.items[i] = IF i \in Evicted(w) THEN NULL ELSE Written(s, new)[i]
      /\ u.cooldowns = s.cooldowns
  BY StoredItems
<1>4. Good(u) BY StoredGood
<1> QED BY <1>2, <1>3, <1>4 DEF Written

\* Writing one item: it stays, whatever the window evicts.
LEMMA PutGood ==
    ASSUME NEW s, Good(s), NEW i \in Ids, s.items[i] # NULL, Active(s.items[i]),
           NEW item \in QueueItem, Same(s.items[i], item), Sound(item),
           item.status = "Running" =>
               s.items[i].status = "Running" \/ Cardinality(s.running[item.queue]) < Cap,
           NEW u, u = Put(s, i, item)
    PROVE  /\ Good(u) /\ u.cooldowns = s.cooldowns /\ u.items[i] = item
           /\ \A j \in Ids \ {i} : \/ u.items[j] = s.items[j]
                                   \/ u.items[j] = NULL /\ s.items[j] # NULL /\ ~Active(s.items[j])
<1> DEFINE new == [j \in {i} |-> item]
           ended == IF item.status \in TerminalStatus THEN <<i>> ELSE <<>>
           w == Joined(s, ended)
           m == Written(s, new)
<1>0. s \in State /\ s.terminal \in Seq(Ids) /\ Len(s.terminal) \in Nat /\ Len(s.terminal) <= Retain
      /\ Retain \in Nat \ {0}
  BY StateTypes, LenProperties, MemoryAssumption DEF Good
<1>1. u = Stored(s, new, ended) BY DEF Put
<1>2. DOMAIN new = {i} /\ new[i] = item OBVIOUS
<1>3. Active(item) <=> item.status \notin TerminalStatus
  BY ItemTypes DEF Active, ActiveStatus, TerminalStatus
<1>4. Window(ended, {j \in DOMAIN new : ~Active(new[j])})
  <2>1. CASE Active(item)
    <3>1. {j \in DOMAIN new : ~Active(new[j])} = {} BY <1>2, <2>1
    <3> QED BY <1>3, <2>1, <3>1, SmallWindows
  <2>2. CASE ~Active(item)
    <3>1. {j \in DOMAIN new : ~Active(new[j])} = {i} BY <1>2, <2>2
    <3> QED BY <1>3, <2>2, <3>1, SmallWindows
  <2> QED BY <2>1, <2>2
<1>5. \A j \in Ids : m[j] = IF j = i THEN item ELSE s.items[j] BY <1>2 DEF Written
<1> HIDE DEF m, new, ended, w
<1>6. \A q \in Queues : Cardinality(Leases(m, q)) <= Cap
  <2>1. CASE item.status = "Running" => s.items[i].status = "Running"
    <3>1. \A j \in Ids : m[j] # NULL /\ m[j].status = "Running" =>
             s.items[j] # NULL /\ s.items[j].status = "Running" /\ s.items[j].queue = m[j].queue
      BY <1>5, <2>1 DEF Same
    <3> QED BY <3>1, NoLeaseCap
  <2>2. CASE item.status = "Running" /\ Cardinality(s.running[item.queue]) < Cap
    <3> DEFINE q == item.queue
    <3>1. q \in Queues BY ItemTypes
    <3>2. \A p \in Queues \ {q} : Leases(m, p) \subseteq Leases(s.items, p)
      BY <1>5 DEF Leases
    <3>3. Leases(m, q) \subseteq Leases(s.items, q) \cup {i} BY <1>5 DEF Leases
    <3>4. Cardinality({i}) = 1 BY FS_Singleton
    <3>5. Cardinality(s.running[q]) \in Nat /\ Cap \in Nat
      BY <3>1, LeasesFinite, QueueAssumption DEF Good
    <3>6. Cardinality(s.running[q]) + Cardinality({i}) <= Cap BY <2>2, <3>4, <3>5
    <3>7. {i} \in SUBSET Ids OBVIOUS
    <3> HIDE DEF q
    <3> QED BY <3>1, <3>2, <3>3, <3>6, <3>7, LeaseCap
  <2> QED BY <2>1, <2>2
<1>7. Writes(s, new, ended)
  BY <1>2, <1>4, <1>6 DEF Writes, Held, m
<1>8. Good(u) BY <1>1, <1>7, StoredGood
<1>9. /\ \A j \in Ids : u.items[j] = IF j \in Evicted(w) THEN NULL ELSE m[j]
      /\ \A j \in Evicted(w) : j \in EndedIds(m)
      /\ u.cooldowns = s.cooldowns
  BY <1>1, <1>7, StoredItems DEF m, w
<1>10. i \notin Evicted(w)
  <2>1. CASE Active(item) BY <1>5, <1>9, <2>1 DEF EndedIds
  <2>2. CASE ~Active(item)
    <3>1. ended = <<i>> BY <1>3, <2>2 DEF ended
    <3>2. /\ Len(w) = Len(s.terminal) + 1
          /\ \A k \in 1..Len(s.terminal) : w[k] = s.terminal[k]
      <4>1. <<i>> \in Seq(Ids) /\ Len(<<i>>) = 1 OBVIOUS
      <4> QED BY <1>0, <3>1, <4>1, ConcatProperties DEF w, Joined
    <3>3. Drop(w) <= Len(s.terminal) /\ Drop(w) \in Nat BY <1>0, <3>2 DEF Drop
    <3>4. \A k \in 1..Len(s.terminal) : s.terminal[k] \in EndedIds(s.items)
      BY <1>0, ElementOfSeq DEF Good, Window
    <3>5. \A k \in 1..Drop(w) : w[k] # i
      BY <1>0, <3>2, <3>3, <3>4 DEF EndedIds
    <3> QED BY <3>5 DEF Evicted
  <2> QED BY <2>1, <2>2
<1>11. \A j \in Ids \ {i} : \/ u.items[j] = s.items[j]
                            \/ u.items[j] = NULL /\ s.items[j] # NULL /\ ~Active(s.items[j])
  BY <1>5, <1>9 DEF EndedIds
<1>12. u.items[i] = item BY <1>5, <1>9, <1>10
<1> QED BY <1>8, <1>9, <1>11, <1>12

----------------------------------------------------------------------------
(* Reclaiming.                                                             *)

\* What the invariant says, for the provers.
LEMMA InvFacts ==
    ASSUME MemInv
    PROVE  /\ Good(state) /\ state \in State /\ now \in Nat /\ MaxTime \in Nat
           /\ \A i \in Ids : state.items[i] \in QueueItem \cup {NULL} /\ Sound(state.items[i])
           /\ \A t \in Samples : t \in Nat /\ t <= now
<1>1. now \in Nat /\ MaxTime \in Nat BY QueueAssumption DEF MemInv
<1>2. Good(state) /\ state \in State BY DEF MemInv, Good
<1>3. \A i \in Ids : state.items[i] \in QueueItem \cup {NULL} /\ Sound(state.items[i])
  BY <1>2, StateTypes DEF Good
<1> QED BY <1>1, <1>2, <1>3 DEF Samples

\* The state s differs from the current one by reclaimed leases and by the
\* items that left the window for them.
Reclaims(s) ==
    /\ Good(s) /\ s.cooldowns = state.cooldowns
    /\ \A i \in Ids :
          \/ s.items[i] = state.items[i]
          \/ state.items[i] # NULL /\ s.items[i] = NULL /\ Leave(state.items[i])
          \/ state.items[i] # NULL /\ Lapsed(state.items[i]) /\ s.items[i] = Reclaimed(state.items[i])

\* A reclaimed item waits again, or is dead with its last attempt.
LEMMA ReclaimedItem ==
    ASSUME NEW a \in QueueItem, NEW b, b = Reclaimed(a)
    PROVE  /\ b \in QueueItem /\ Same(a, b) /\ b.attempt = a.attempt /\ b.run_after = a.run_after
           /\ b.status = IF a.attempt >= a.max_attempts THEN "Dead" ELSE "Failed"
           /\ Sound(b)
<1> DEFINE st == IF a.attempt >= a.max_attempts THEN "Dead" ELSE "Failed"
<1>1. st \in {"Dead", "Failed"} /\ (st = "Failed" => a.attempt < a.max_attempts)
  BY ItemTypes
<1>2. b = [[a EXCEPT !.status = st, !.lease_owner = NULL, !.lease_until = NULL]
              EXCEPT !.lease_expired = TRUE]
  BY DEF Reclaimed, Unleased
<1> HIDE DEF st
<1>3. b \in QueueItem BY <1>1, <1>2 DEF QueueItem, ActiveStatus, TerminalStatus
<1>4. /\ b.queue = a.queue /\ b.key = a.key /\ b.max_attempts = a.max_attempts
      /\ b.attempt = a.attempt /\ b.run_after = a.run_after /\ b.status = st
  BY <1>2 DEF QueueItem
<1>5. Sound(b) BY <1>1, <1>4 DEF Sound, Waiting
<1> QED BY <1>3, <1>4, <1>5 DEF Same, st

\* An order of the ended items is a window of them.
LEMMA OrderWindow ==
    ASSUME NEW S \in SUBSET Ids, NEW o \in Orders(S) PROVE Window(o, S)
<1> DEFINE n == Cardinality(S)
<1>1. IsFiniteSet(S) /\ n \in Nat BY QueueAssumption, FS_Subset, FS_CardinalityType
<1>2. o \in [1..n -> S] /\ \A i \in S : \E k \in 1..n : o[k] = i BY DEF Orders
<1> HIDE DEF n
<1>3. o \in Seq(Ids) /\ Len(o) = n
  <2>1. o \in [1..n -> Ids] BY <1>2
  <2> QED BY <1>1, <2>1, SeqDef
<1>4. o \in Surjection(1..n, S)
  BY <1>2 DEF Surjection
<1>5. IsFiniteSet(1..n) /\ Cardinality(1..n) = n BY <1>1, FS_Interval
<1>6. o \in Injection(1..n, S) BY <1>4, <1>5, FS_SurjSameCardinalityImpliesInj DEF n
<1>7. \A j, k \in 1..n : o[j] = o[k] => j = k
  BY <1>6 DEF Injection, IsInjective
<1> QED BY <1>2, <1>3, <1>7 DEF Window

\* reclaim_expired takes back leases that ran out and nothing else.
LEMMA ReclaimStep ==
    ASSUME MemInv, NEW q \in Queues, NEW t \in Nat, t <= now,
           NEW s \in ReclaimExpired(state, q, t)
    PROVE  Reclaims(s)
<1> DEFINE E == Expired(state, q, t)
           new == [i \in E |-> Reclaimed(state.items[i])]
           T == {i \in DOMAIN new : new[i].status = "Dead"}
<1>1. PICK ended \in Orders(T) : s = Stored(state, new, ended)
  BY DEF ReclaimExpired
<1>2. ASSUME NEW i \in E
      PROVE  /\ i \in Ids /\ state.items[i] # NULL /\ state.items[i] \in QueueItem
             /\ Lapsed(state.items[i]) /\ Active(state.items[i])
  <2>1. state.running[q] = Leases(state.items, q) BY InvFacts DEF Good
  <2>2. i \in Leases(state.items, q) /\ state.items[i].lease_until < t BY <2>1 DEF Expired
  <2>3. /\ i \in Ids /\ state.items[i] # NULL /\ state.items[i] \in QueueItem
        /\ state.items[i].status = "Running" /\ state.items[i].lease_until \in Nat
    BY <2>2, InvFacts DEF Leases, Sound
  <2> QED BY <2>2, <2>3, InvFacts DEF Lapsed, Active, ActiveStatus
<1>3. DOMAIN new = E /\ \A i \in E : new[i] = Reclaimed(state.items[i]) OBVIOUS
<1> HIDE DEF E, new
<1>4. \A i \in DOMAIN new :
         /\ new[i] \in QueueItem /\ Same(state.items[i], new[i]) /\ Sound(new[i])
         /\ new[i].status \in {"Dead", "Failed"}
  BY <1>2, <1>3, ReclaimedItem
<1>5. T = {i \in DOMAIN new : ~Active(new[i])}
  BY <1>4 DEF Active, ActiveStatus
<1>6. T \in SUBSET Ids BY <1>2, <1>3
<1> HIDE DEF T
<1>7. Window(ended, T) BY <1>6, OrderWindow
<1> DEFINE m == Written(state, new)
<1>8. \A i \in Ids : m[i] = IF i \in DOMAIN new THEN new[i] ELSE state.items[i] BY DEF Written
<1> HIDE DEF m
<1>9. \A p \in Queues : Cardinality(Leases(m, p)) <= Cap
  <2>1. \A i \in Ids : m[i] # NULL /\ m[i].status = "Running" =>
           state.items[i] # NULL /\ state.items[i].status = "Running" /\ state.items[i].queue = m[i].queue
    BY <1>4, <1>8
  <2> QED BY <2>1, NoLeaseCap, InvFacts
<1>10. Writes(state, new, ended)
  BY <1>2, <1>3, <1>4, <1>5, <1>7, <1>9 DEF Writes, Held, m
<1>11. Good(s) BY <1>1, <1>10, InvFacts, StoredGood
<1>12. /\ \A i \in Ids : s.items[i] = IF i \in Evicted(Joined(state, ended)) THEN NULL ELSE m[i]
       /\ \A i \in Evicted(Joined(state, ended)) : i \in EndedIds(m)
       /\ s.cooldowns = state.cooldowns
  BY <1>1, <1>10, InvFacts, StoredItems DEF m
<1>13. ASSUME NEW i \in Ids
       PROVE  \/ s.items[i] = state.items[i]
              \/ state.items[i] # NULL /\ s.items[i] = NULL /\ Leave(state.items[i])
              \/ state.items[i] # NULL /\ Lapsed(state.items[i]) /\ s.items[i] = Reclaimed(state.items[i])
  <2>1. CASE i \in Evicted(Joined(state, ended))
    BY <1>2, <1>3, <1>8, <1>12, <2>1 DEF EndedIds, Leave
  <2>2. CASE i \notin Evicted(Joined(state, ended))
    BY <1>2, <1>3, <1>8, <1>12, <2>2
  <2> QED BY <2>1, <2>2
<1> QED BY <1>11, <1>12, <1>13 DEF Reclaims

----------------------------------------------------------------------------
(* One lemma per operation.                                                *)

\* A step of the items.
Moved ==
    /\ Good(state') /\ state'.cooldowns = state.cooldowns /\ now' = now
    /\ \A i \in Ids : Moves(state.items[i], state'.items[i])
    /\ issued' \in [Ids -> (Queues \X (Keys \cup {NULL})) \cup {NULL}]
    /\ \A i \in Ids : state'.items[i] # NULL => issued'[i] # NULL

\* A call that inserts nothing.
LEMMA WriteMoved ==
    ASSUME MemInv, Good(state'), state'.cooldowns = state.cooldowns, UNCHANGED <<issued, now>>,
           \A i \in Ids : /\ Moves(state.items[i], state'.items[i])
                          /\ state'.items[i] # NULL => state.items[i] # NULL
    PROVE  Moved
BY DEF MemInv, Moved

\* Reclaiming moves items as the contract says.
LEMMA ReclaimMoves ==
    ASSUME MemInv, NEW s, Reclaims(s), NEW i \in Ids
    PROVE  /\ Moves(state.items[i], s.items[i])
           /\ s.items[i] # NULL => state.items[i] # NULL
<1> DEFINE a == state.items[i] b == s.items[i]
<1>1. a \in QueueItem \cup {NULL} BY InvFacts
<1>2. CASE b = a BY <1>1, <1>2, SameMoves
<1>3. CASE a # NULL /\ b = NULL /\ Leave(a) BY <1>1, <1>3, NullMoves
<1>4. CASE a # NULL /\ Lapsed(a) /\ b = Reclaimed(a)
  <2>1. a \in QueueItem BY <1>1, <1>4
  <2> HIDE DEF a, b
  <2>2. /\ b \in QueueItem /\ Same(a, b) /\ b.attempt = a.attempt
        /\ b.status = IF a.attempt >= a.max_attempts THEN "Dead" ELSE "Failed"
    BY <1>4, <2>1, ReclaimedItem
  <2>3. Release(a, b) BY <1>4, <2>2 DEF Release, Lapsed
  <2>4. Moves(a, b) BY <2>1, <2>2, <2>3, SeenMoves
  <2> QED BY <1>4, <2>4 DEF a, b
<1> QED BY <1>2, <1>3, <1>4 DEF Reclaims

\* An explicit reclaim.
LEMMA ReclaimMoved ==
    ASSUME MemInv, NEW q \in Queues, ReclaimExpiredLeases(q) PROVE Moved
<1>1. state' \in ReclaimExpired(state, q, now) /\ UNCHANGED <<issued, now>> BY DEF ReclaimExpiredLeases
<1>2. now \in Nat /\ now <= now BY InvFacts
<1>3. Reclaims(state') BY <1>1, <1>2, ReclaimStep
<1> QED BY <1>1, <1>3, ReclaimMoves, WriteMoved DEF Reclaims

\* A lease granted to an item that waits, perhaps because its own was just
\* reclaimed.
LEMMA GrantedItem ==
    ASSUME MemInv, NEW s, Reclaims(s), NEW i \in Ids, NEW m, m = s.items[i], m # NULL, Waiting(m),
           NEW w \in Workers, NEW t \in Nat, t <= now, m.run_after <= t, ~CoolingDown(m.queue),
           NEW b, b = Leased(m, w, t)
    PROVE  /\ m \in QueueItem /\ b \in QueueItem /\ Same(m, b) /\ Sound(b) /\ b.status = "Running"
           /\ Moves(state.items[i], b) /\ state.items[i] # NULL
<1> DEFINE a == state.items[i]
<1>1. a \in QueueItem \cup {NULL} /\ now \in Nat BY InvFacts
<1>2. s \in State /\ Sound(m) BY DEF Reclaims, Good
<1>3. m \in QueueItem /\ m.attempt < m.max_attempts BY <1>2, StateTypes DEF Sound
<1>4. a # NULL /\ a \in QueueItem
  BY <1>1 DEF Reclaims
<1>5. /\ Same(a, m) /\ m.attempt = a.attempt /\ m.run_after = a.run_after
      /\ Waiting(a) \/ Lapsed(a)
  <2>1. CASE m = a BY <2>1 DEF Same
  <2>2. CASE Lapsed(a) /\ m = Reclaimed(a)
    <3> HIDE DEF a
    <3> QED BY <1>4, <2>2, ReclaimedItem
  <2> QED BY <2>1, <2>2 DEF Reclaims
<1>6. t + LeaseTime \in Nat /\ m.attempt + 1 \in Nat BY <1>3, ItemTypes, QueueAssumption
<1> HIDE DEF a
<1>7. b \in QueueItem BY <1>3, <1>6 DEF Leased, QueueItem, ActiveStatus, TerminalStatus
<1>8. /\ b.queue = m.queue /\ b.key = m.key /\ b.max_attempts = m.max_attempts
      /\ b.attempt = m.attempt + 1 /\ b.status = "Running" /\ b.lease_until \in Nat
  BY <1>3, <1>6 DEF Leased, QueueItem
<1>9. Sound(b) BY <1>8 DEF Sound, Waiting
<1>10. a.run_after <= now BY <1>1, <1>3, <1>5, ItemTypes
<1>11. Lease(a, b) BY <1>3, <1>5, <1>8, <1>10 DEF Lease, Same
<1>12. Same(a, b) BY <1>5, <1>8 DEF Same
<1>13. Moves(a, b) BY <1>4, <1>7, <1>11, <1>12, SeenMoves
<1> QED BY <1>3, <1>4, <1>7, <1>8, <1>9, <1>13 DEF a, Same

\* The first items of a claim fit its slots: the rank of an item among the
\* ready ones tells it from the others.
LEMMA FirstFits ==
    ASSUME NEW s, Good(s), NEW R \in SUBSET Ids, \A i \in R : s.items[i] \in QueueItem, NEW n \in Nat
    PROVE  Cardinality({i \in R : Cardinality({j \in R : ClaimOrder(s, j, i)}) < n}) <= n
<1> DEFINE Prior(i) == {j \in R : ClaimOrder(s, j, i)}
           first == {i \in R : Cardinality(Prior(i)) < n}
           f == [i \in first |-> Cardinality(Prior(i))]
<1>1. IsFiniteSet(R) BY QueueAssumption, FS_Subset
<1>2. \A i \in R : IsFiniteSet(Prior(i)) /\ Cardinality(Prior(i)) \in Nat
  BY <1>1, FS_Subset, FS_CardinalityType
<1>3. \A i \in R : /\ s.items[i].run_after \in Nat /\ s.items[i].created_at \in Nat /\ i \in Nat
  BY ItemTypes, QueueAssumption
<1>4. ASSUME NEW i \in R, NEW j \in R, ClaimOrder(s, i, j)
      PROVE  Cardinality(Prior(i)) # Cardinality(Prior(j))
  <2>1. Prior(i) \subseteq Prior(j) BY <1>3, <1>4 DEF ClaimOrder
  <2>2. i \in Prior(j) /\ i \notin Prior(i) BY <1>3, <1>4 DEF ClaimOrder
  <2>3. Prior(i) # Prior(j) BY <2>2
  <2> HIDE DEF Prior
  <2> QED BY <1>2, <2>1, <2>3, FS_Subset
<1>5. \A i, j \in R : i = j \/ ClaimOrder(s, i, j) \/ ClaimOrder(s, j, i)
  BY <1>3 DEF ClaimOrder
<1>6. \A i, j \in R : Cardinality(Prior(i)) = Cardinality(Prior(j)) => i = j
  BY <1>4, <1>5
<1> HIDE DEF Prior
<1>7. f \in [first -> 0..(n - 1)] BY <1>2
<1>8. f \in Injection(first, 0..(n - 1))
  BY <1>6, <1>7 DEF Injection, IsInjective
<1>9. IsFiniteSet(0..(n - 1)) /\ Cardinality(0..(n - 1)) = n
  <2>1. 0 \in Int /\ n - 1 \in Int OBVIOUS
  <2>2. IsFiniteSet(0..(n - 1)) /\ Cardinality(0..(n - 1)) = IF 0 > n - 1 THEN 0 ELSE (n - 1) - 0 + 1
    BY <2>1, FS_Interval
  <2> QED BY <2>2
<1> HIDE DEF f, first
<1>10. Cardinality(first) <= n BY <1>8, <1>9, FS_Injection
<1> QED BY <1>10 DEF first, Prior

\* claim.
LEMMA ClaimMoved ==
    ASSUME MemInv, NEW q \in Queues, NEW w \in Workers, NEW t \in Samples, Claim(q, w, t)
    PROVE  Moved
<1>0. t \in Nat /\ t <= now /\ now \in Nat BY InvFacts
<1>1. PICK s \in ReclaimExpired(state, q, t) :
         LET first == {i \in Ready(s, q, t) :
                 Cardinality({j \in Ready(s, q, t) : ClaimOrder(s, j, i)}) < Slots(s, q)}
         IN  state' = Stored(s, [i \in first |-> Leased(s.items[i], w, t)], <<>>)
  BY DEF Claim
<1>2. ~CoolingDown(q) /\ UNCHANGED <<issued, now>> BY DEF Claim
<1>3. Reclaims(s) /\ Good(s) BY <1>0, ReclaimStep DEF Reclaims
<1> DEFINE R == Ready(s, q, t)
           first == {i \in R : Cardinality({j \in R : ClaimOrder(s, j, i)}) < Slots(s, q)}
           new == [i \in first |-> Leased(s.items[i], w, t)]
<1>4. state' = Stored(s, new, <<>>) BY <1>1
<1>5. R \in SUBSET Ids /\ \A i \in R :
         /\ s.items[i] # NULL /\ s.items[i] \in QueueItem /\ s.items[i].queue = q
         /\ Waiting(s.items[i]) /\ s.items[i].run_after <= t
  BY <1>3, StateTypes DEF Ready, Held, Good
<1>6. /\ Cardinality(s.running[q]) \in Nat /\ Cardinality(s.running[q]) <= Cap
      /\ Cap \in Nat /\ Limit \in Nat
  BY <1>3, LeasesFinite, QueueAssumption DEF Good
<1>7. Slots(s, q) \in Nat /\ Slots(s, q) <= Cap - Cardinality(s.running[q])
  BY <1>6 DEF Slots
<1> HIDE DEF R
<1>8. Cardinality(first) <= Slots(s, q) BY <1>3, <1>5, <1>7, FirstFits
<1>9. first \in SUBSET Ids /\ IsFiniteSet(first) /\ Cardinality(first) \in Nat
  <2>1. first \in SUBSET Ids BY <1>5
  <2> HIDE DEF first
  <2> QED BY <2>1, QueueAssumption, FS_Subset, FS_CardinalityType
<1>10. first \subseteq R /\ DOMAIN new = first /\ \A i \in first : new[i] = Leased(s.items[i], w, t)
  OBVIOUS
<1> HIDE DEF first, new
<1>11. ASSUME NEW i \in first
       PROVE  /\ s.items[i] # NULL /\ s.items[i] \in QueueItem /\ new[i] \in QueueItem
              /\ Same(s.items[i], new[i]) /\ Sound(new[i]) /\ new[i].status = "Running"
              /\ Moves(state.items[i], new[i]) /\ state.items[i] # NULL
              /\ s.items[i].queue = q /\ Active(s.items[i]) /\ i \in Ids
  <2>1. /\ s.items[i] # NULL /\ s.items[i].queue = q /\ Waiting(s.items[i])
        /\ s.items[i].run_after <= t /\ i \in Ids
    BY <1>5, <1>9, <1>10
  <2>2. Active(s.items[i]) BY <2>1 DEF Waiting, Active, ActiveStatus
  <2> QED BY <1>0, <1>2, <1>3, <1>10, <2>1, <2>2, GrantedItem
<1> DEFINE m == Written(s, new)
<1>12. \A i \in Ids : m[i] = IF i \in first THEN new[i] ELSE s.items[i] BY <1>10 DEF Written
<1> HIDE DEF m
<1>13. \A p \in Queues : Cardinality(Leases(m, p)) <= Cap
  <2>1. \A p \in Queues \ {q} : Leases(m, p) \subseteq Leases(s.items, p)
    BY <1>11, <1>12 DEF Leases, Same
  <2>2. Leases(m, q) \subseteq Leases(s.items, q) \cup first BY <1>12 DEF Leases
  <2>3. Cardinality(s.running[q]) + Cardinality(first) <= Cap BY <1>6, <1>7, <1>8, <1>9
  <2> QED BY <1>3, <1>9, <2>1, <2>2, <2>3, LeaseCap
<1>14. Window(<<>>, {i \in DOMAIN new : ~Active(new[i])})
  <2>1. {i \in DOMAIN new : ~Active(new[i])} = {} BY <1>10, <1>11 DEF Active, ActiveStatus
  <2> QED BY <2>1, SmallWindows
<1>15. Writes(s, new, <<>>)
  BY <1>10, <1>11, <1>13, <1>14 DEF Writes, Held, m
<1>16. /\ Good(state') /\ state'.cooldowns = s.cooldowns
       /\ \A i \in Ids : state'.items[i] = IF i \in first THEN new[i] ELSE s.items[i]
  BY <1>3, <1>4, <1>10, <1>15, PlainStored
<1>17. \A i \in Ids : /\ Moves(state.items[i], state'.items[i])
                      /\ state'.items[i] # NULL => state.items[i] # NULL
  BY <1>3, <1>11, <1>16, ReclaimMoves
<1> QED BY <1>2, <1>3, <1>16, <1>17, WriteMoved DEF Reclaims

\* claim_item.
LEMMA ClaimItemMoved ==
    ASSUME MemInv, NEW i \in Ids, NEW w \in Workers, NEW t \in Samples, ClaimItem(i, w, t)
    PROVE  Moved
<1>0. t \in Nat /\ t <= now /\ now \in Nat /\ UNCHANGED <<issued, now>> BY InvFacts DEF ClaimItem
<1>1. state.items[i] # NULL /\ state.items[i].queue \in Queues
  BY InvFacts, ItemTypes DEF ClaimItem, Held
<1>2. PICK s \in ReclaimExpired(state, state.items[i].queue, t) :
          state' = IF i \notin Held(s) THEN s
                   ELSE LET u == RetireIfExhausted(s, i)
                        IN  IF Claimable(u, i, t) THEN Put(u, i, Leased(u.items[i], w, t)) ELSE u
  BY DEF ClaimItem
<1>3. Reclaims(s) /\ Good(s) /\ s \in State BY <1>0, <1>1, ReclaimStep DEF Reclaims, Good
<1>4. CASE state' = s
  BY <1>0, <1>3, <1>4, ReclaimMoves, WriteMoved DEF Reclaims
<1>5. CASE state' # s
  <2> DEFINE m == s.items[i] b == Leased(m, w, t)
  <2>1. m # NULL BY <1>2, <1>5 DEF Held
  <2>2. m \in QueueItem /\ (Waiting(m) => m.attempt < m.max_attempts)
    BY <1>3, <2>1, StateTypes DEF Good, Sound
  <2>3. RetireIfExhausted(s, i) = s
    BY <2>2, ItemTypes DEF RetireIfExhausted
  <2>4. Claimable(s, i, t) /\ state' = Put(s, i, b)
    BY <1>2, <1>5, <2>3
  <2>5. /\ Waiting(m) /\ m.run_after <= t /\ ~CoolingDown(m.queue)
        /\ Cardinality(s.running[m.queue]) < Cap
    BY <2>4 DEF Claimable
  <2> HIDE DEF b
  <2>6. /\ b \in QueueItem /\ Same(m, b) /\ Sound(b) /\ b.status = "Running"
        /\ Moves(state.items[i], b)
    BY <1>0, <1>3, <2>1, <2>5, GrantedItem DEF b
  <2>7. Active(m) BY <2>5 DEF Waiting, Active, ActiveStatus
  <2>8. Cardinality(s.running[b.queue]) < Cap BY <2>5, <2>6 DEF Same
  <2>9. /\ Good(state') /\ state'.cooldowns = s.cooldowns /\ state'.items[i] = b
        /\ \A j \in Ids \ {i} : \/ state'.items[j] = s.items[j]
                                \/ state'.items[j] = NULL /\ s.items[j] # NULL /\ ~Active(s.items[j])
    BY <1>3, <2>1, <2>4, <2>6, <2>7, <2>8, PutGood
  <2>10. ASSUME NEW j \in Ids \ {i}
         PROVE  /\ Moves(state.items[j], state'.items[j])
                /\ state'.items[j] # NULL => state.items[j] # NULL
    <3>1. CASE state'.items[j] = s.items[j] BY <1>3, <3>1, ReclaimMoves
    <3>2. CASE state'.items[j] = NULL /\ s.items[j] # NULL /\ ~Active(s.items[j])
      <4>1. state.items[j] # NULL /\ state.items[j] \in QueueItem
        BY <1>3, <3>2, InvFacts DEF Reclaims
      <4>2. Leave(state.items[j])
        BY <1>3, <3>2 DEF Reclaims, Leave
      <4> QED BY <3>2, <4>1, <4>2, NullMoves
    <3> QED BY <2>9, <3>1, <3>2
  <2>11. \A j \in Ids : /\ Moves(state.items[j], state'.items[j])
                        /\ state'.items[j] # NULL => state.items[j] # NULL
    BY <1>1, <2>6, <2>9, <2>10
  <2> QED BY <1>0, <1>3, <2>9, <2>11, WriteMoved DEF Reclaims
<1> QED BY <1>4, <1>5

\* The owner of a lease gives its item back, with a result or without.
LEMMA PutMoved ==
    ASSUME MemInv, NEW i \in Ids, state.items[i] # NULL, state.items[i].status = "Running",
           NEW b \in QueueItem, Same(state.items[i], b), b.attempt = state.items[i].attempt,
           b.status \in {"Succeeded", "Stopped", "Dead", "Failed"},
           b.status = "Failed" => ~b.lease_expired /\ b.attempt < b.max_attempts,
           b.status = "Dead" => b.attempt >= b.max_attempts,
           state' = Put(state, i, b), UNCHANGED <<issued, now>>
    PROVE  Moved
<1> DEFINE a == state.items[i]
<1>1. a \in QueueItem /\ Good(state) BY InvFacts
<1>2. Sound(b) /\ Active(a) BY DEF Sound, Waiting, Active, ActiveStatus
<1>3. Release(a, b) BY DEF Release, Same
<1>4. Moves(a, b) BY <1>1, <1>3, SeenMoves
<1>5. /\ Good(state') /\ state'.cooldowns = state.cooldowns /\ state'.items[i] = b
      /\ \A j \in Ids \ {i} :
            \/ state'.items[j] = state.items[j]
            \/ state'.items[j] = NULL /\ state.items[j] # NULL /\ ~Active(state.items[j])
  BY <1>1, <1>2, PutGood
<1>6. \A j \in Ids : /\ Moves(state.items[j], state'.items[j])
                     /\ state'.items[j] # NULL => state.items[j] # NULL
  BY <1>4, <1>5, InvFacts, SameMoves, NullMoves DEF Leave
<1> QED BY <1>5, <1>6, WriteMoved

\* complete and fail_with.
LEMMA ReleaseMoved ==
    ASSUME MemInv, NEW i \in Ids, NEW w \in Workers, NEW t \in Samples,
           Complete(i, w, t) \/ \E retry \in {NULL, t + 1} : FailWith(i, w, retry, t)
    PROVE  Moved
<1> DEFINE a == state.items[i]
<1>1. OwnsLease(i, w, t) /\ UNCHANGED <<issued, now>> BY DEF Complete, FailWith
<1>2. a # NULL /\ a.status = "Running" /\ a \in QueueItem BY <1>1, InvFacts DEF OwnsLease, Held
<1>3. t \in Nat /\ t + 1 \in Nat /\ t + 1 # NULL BY InvFacts, NullItem
<1> HIDE DEF a
<1>4. CASE Complete(i, w, t)
  <2> DEFINE b == [Unleased(a, "Succeeded") EXCEPT !.lease_expired = FALSE]
  <2>1. state' = Put(state, i, b) BY <1>4 DEF Complete, a
  <2>2. b \in QueueItem BY <1>2 DEF Unleased, QueueItem, ActiveStatus, TerminalStatus
  <2>3. /\ b.queue = a.queue /\ b.key = a.key /\ b.max_attempts = a.max_attempts
        /\ b.attempt = a.attempt /\ b.status = "Succeeded"
    BY <1>2 DEF Unleased, QueueItem
  <2> HIDE DEF b
  <2>4. Same(a, b) BY <2>3 DEF Same
  <2> QED BY <1>1, <1>2, <2>1, <2>2, <2>3, <2>4, PutMoved DEF a
<1>5. ASSUME NEW retry \in {NULL, t + 1}, FailWith(i, w, retry, t) PROVE Moved
  <2> DEFINE st == FailStatus(a, retry)
             r == IF retry = NULL THEN t + 1 ELSE retry
             b == [Unleased(a, st) EXCEPT !.lease_expired = FALSE, !.run_after = r]
  <2>1. state' = Put(state, i, b) BY <1>5 DEF FailWith, a
  <2>2. /\ st \in {"Stopped", "Dead", "Failed"} /\ r \in Nat
        /\ st = "Failed" => a.attempt < a.max_attempts
        /\ st = "Dead" => a.attempt >= a.max_attempts
    BY <1>2, <1>3, ItemTypes DEF FailStatus
  <2> HIDE DEF st, r
  <2>3. b \in QueueItem BY <1>2, <2>2 DEF Unleased, QueueItem, ActiveStatus, TerminalStatus
  <2>4. /\ b.queue = a.queue /\ b.key = a.key /\ b.max_attempts = a.max_attempts
        /\ b.attempt = a.attempt /\ b.status = st /\ b.lease_expired = FALSE
    BY <1>2 DEF Unleased, QueueItem
  <2> HIDE DEF b
  <2>5. Same(a, b) BY <2>4 DEF Same
  <2> QED BY <1>1, <1>2, <2>1, <2>2, <2>3, <2>4, <2>5, PutMoved DEF a
<1> QED BY <1>4, <1>5

\* heartbeat, which writes the item in place.
LEMMA HeartbeatMoved ==
    ASSUME MemInv, NEW i \in Ids, NEW w \in Workers, NEW t \in Samples, Heartbeat(i, w, t)
    PROVE  Moved
<1> DEFINE a == state.items[i]
           b == [a EXCEPT !.lease_until = t + LeaseTime]
           items == [state.items EXCEPT ![i] = b]
<1>0. state \in State /\ Good(state) BY InvFacts
<1>1. /\ a # NULL /\ a.status = "Running" /\ a \in QueueItem /\ UNCHANGED <<issued, now>>
      /\ state.items \in Table
  BY <1>0, InvFacts, StateTypes DEF Heartbeat, OwnsLease, Held
<1>2. t + LeaseTime \in Nat BY InvFacts, QueueAssumption
<1>3. state' = [state EXCEPT !.items = items]
  BY Zenon DEF Heartbeat
<1> HIDE DEF a
<1>4. b \in QueueItem BY <1>1, <1>2 DEF QueueItem
<1>5. /\ b.queue = a.queue /\ b.key = a.key /\ b.max_attempts = a.max_attempts
      /\ b.attempt = a.attempt /\ b.status = "Running" /\ b.lease_until \in Nat
  BY <1>1, <1>2 DEF QueueItem
<1> HIDE DEF b
<1>6. b # NULL /\ Sound(b) /\ Same(a, b) /\ Moves(a, b)
  <2>1. Same(a, b) BY <1>5 DEF Same
  <2>2. Release(a, b) BY <1>1, <1>5 DEF Release
  <2>3. Moves(a, b) BY <1>1, <1>4, <2>1, <2>2, SeenMoves
  <2> QED BY <1>4, <1>5, <2>1, <2>3, NullItem DEF Sound, Waiting
<1>7. \A j \in Ids : items[j] = IF j = i THEN b ELSE state.items[j] BY <1>1 DEF Table
<1>8. items \in Table BY <1>1, <1>4 DEF Table
<1> HIDE DEF items
<1>9. /\ state'.items = items /\ state'.idempotency = state.idempotency
      /\ state'.running = state.running /\ state'.terminal = state.terminal
      /\ state'.cooldowns = state.cooldowns /\ state' \in State
  BY <1>0, <1>3, <1>8 DEF State, Table
<1>10. /\ EndedIds(items) = EndedIds(state.items)
       /\ \A q \in Queues : Leases(items, q) = Leases(state.items, q)
  BY <1>1, <1>5, <1>6, <1>7 DEF EndedIds, Leases, Active, a
<1>11. KeysPoint(state')
  BY <1>0, <1>5, <1>6, <1>7, <1>9 DEF Good, KeysPoint, KeyOf, a
<1>12. ActiveIndexed(state')
  BY <1>0, <1>1, <1>5, <1>7, <1>9 DEF Good, ActiveIndexed, KeyOf, Active, a
<1>13. \A j \in Ids : Sound(state'.items[j])
  BY <1>0, <1>6, <1>7, <1>9 DEF Good
<1>14. Good(state')
  BY <1>0, <1>9, <1>10, <1>11, <1>12, <1>13 DEF Good
<1>15. \A j \in Ids : /\ Moves(state.items[j], state'.items[j])
                      /\ state'.items[j] # NULL => state.items[j] # NULL
  BY <1>1, <1>6, <1>7, <1>9, InvFacts, SameMoves DEF a
<1> QED BY <1>1, <1>9, <1>14, <1>15, WriteMoved

\* A new item takes the index of its key, which no unended item holds.
LEMMA InsertGood ==
    ASSUME NEW s, Good(s), NEW i \in Ids, s.items[i] = NULL, NEW r \in Requests,
           NEW delay \in 0..1, NEW t \in Nat,
           \A j \in Ids : s.items[j] # NULL /\ Active(s.items[j]) /\ r.key # NULL =>
               KeyOf(s.items[j]) # KeyOf(r),
           NEW u, u = Insert(s, i, r, delay, t)
    PROVE  /\ Good(u) /\ u.cooldowns = s.cooldowns
           /\ \A j \in Ids \ {i} : u.items[j] = s.items[j]
           /\ u.items[i] \in QueueItem /\ u.items[i].status = "Pending" /\ u.items[i].attempt = 0
<1> DEFINE b == NewItem(r, delay, t)
           items == [s.items EXCEPT ![i] = b]
           index == [k \in Queues \X Keys |->
                        IF r.key # NULL /\ k = KeyOf(r) THEN i ELSE s.idempotency[k]]
<1>0. s \in State BY DEF Good
<1>1. u = [s EXCEPT !.items = items, !.idempotency = index]
  BY Zenon DEF Insert
<1>2. /\ s.items \in Table /\ s.idempotency \in [Queues \X Keys -> Ids \cup {NULL}]
  BY <1>0, StateTypes
<1>3. /\ r.queue \in Queues /\ r.key \in Keys \cup {NULL} /\ r.max_attempts \in Nat \ {0}
  BY QueueAssumption
<1>4. b \in QueueItem
  <2>1. t + delay \in Nat OBVIOUS
  <2> QED BY <1>3, <2>1 DEF NewItem, QueueItem, ActiveStatus, TerminalStatus
<1>5. /\ b.status = "Pending" /\ b.attempt = 0 /\ b.attempt < b.max_attempts
      /\ b.queue = r.queue /\ b.key = r.key
  BY <1>3 DEF NewItem
<1> HIDE DEF b
<1>6. b # NULL /\ Sound(b) /\ KeyOf(b) = KeyOf(r) /\ Active(b)
  BY <1>4, <1>5, NullItem DEF Sound, KeyOf, Active, ActiveStatus
<1>7. \A j \in Ids : items[j] = IF j = i THEN b ELSE s.items[j] BY <1>2 DEF Table
<1>8. items \in Table BY <1>2, <1>4 DEF Table
<1>9. index \in [Queues \X Keys -> Ids \cup {NULL}] BY <1>2
<1>10. \A k \in Queues \X Keys : index[k] = IF r.key # NULL /\ k = KeyOf(r) THEN i ELSE s.idempotency[k]
  OBVIOUS
<1> HIDE DEF items, index
<1>11. /\ u.items = items /\ u.idempotency = index /\ u.running = s.running
       /\ u.terminal = s.terminal /\ u.cooldowns = s.cooldowns /\ u \in State
  BY <1>0, <1>1, <1>8, <1>9 DEF State, Table
<1>12. /\ EndedIds(items) = EndedIds(s.items)
       /\ \A q \in Queues : Leases(items, q) = Leases(s.items, q)
  BY <1>5, <1>6, <1>7 DEF EndedIds, Leases
<1>13. KeysPoint(u)
  <2> SUFFICES ASSUME NEW k \in Queues \X Keys, index[k] # NULL
               PROVE  index[k] \in Ids /\ items[index[k]] # NULL /\ KeyOf(items[index[k]]) = k
    BY <1>11 DEF KeysPoint
  <2>1. CASE r.key # NULL /\ k = KeyOf(r) BY <1>6, <1>7, <1>10, <2>1
  <2>2. CASE ~(r.key # NULL /\ k = KeyOf(r))
    <3>1. index[k] = s.idempotency[k] BY <1>10, <2>2
    <3>2. index[k] \in Ids /\ s.items[index[k]] # NULL /\ KeyOf(s.items[index[k]]) = k
      BY <3>1 DEF Good, KeysPoint
    <3> QED BY <1>7, <3>2
  <2> QED BY <2>1, <2>2
<1>14. ActiveIndexed(u)
  <2> SUFFICES ASSUME NEW j \in Ids, items[j] # NULL, Active(items[j]), items[j].key # NULL
               PROVE  index[KeyOf(items[j])] = j
    BY <1>11 DEF ActiveIndexed
  <2>1. CASE j = i
    <3>1. items[j] = b /\ r.key # NULL /\ KeyOf(b) \in Queues \X Keys BY <1>3, <1>5, <1>7, <2>1 DEF KeyOf
    <3> QED BY <1>6, <1>10, <2>1, <3>1
  <2>2. CASE j # i
    <3>1. items[j] = s.items[j] /\ s.items[j] \in QueueItem BY <1>2, <1>7, <2>2 DEF Table
    <3>2. s.idempotency[KeyOf(s.items[j])] = j BY <3>1 DEF Good, ActiveIndexed
    <3>3. KeyOf(s.items[j]) \in Queues \X Keys BY <3>1, ItemTypes DEF KeyOf
    <3>4. ~(r.key # NULL /\ KeyOf(s.items[j]) = KeyOf(r)) BY <3>1
    <3> QED BY <1>10, <3>1, <3>2, <3>3, <3>4
  <2> QED BY <2>1, <2>2
<1>15. \A j \in Ids : Sound(u.items[j]) BY <1>6, <1>7, <1>11 DEF Good
<1>16. Good(u) BY <1>11, <1>12, <1>13, <1>14, <1>15 DEF Good
<1> QED BY <1>4, <1>5, <1>7, <1>11, <1>16

\* A new item joins a state that moved as the contract lets it.
LEMMA InsertMoved ==
    ASSUME MemInv, NEW s, Good(s), s.cooldowns = state.cooldowns,
           \A j \in Ids : /\ Moves(state.items[j], s.items[j])
                          /\ s.items[j] # NULL => state.items[j] # NULL,
           NEW i \in Unused, NEW r \in Requests, NEW delay \in 0..1, NEW t \in Samples,
           \A j \in Ids : s.items[j] # NULL /\ Active(s.items[j]) /\ r.key # NULL =>
               KeyOf(s.items[j]) # KeyOf(r),
           state' = Insert(s, i, r, delay, t), issued' = [issued EXCEPT ![i] = KeyOf(r)], now' = now
    PROVE  Moved
<1>1. i \in Ids /\ issued[i] = NULL BY DEF Unused
<1>2. state.items[i] = NULL /\ s.items[i] = NULL BY <1>1 DEF MemInv
<1>3. t \in Nat BY InvFacts
<1>4. /\ Good(state') /\ state'.cooldowns = s.cooldowns
      /\ \A j \in Ids \ {i} : state'.items[j] = s.items[j]
      /\ state'.items[i] \in QueueItem /\ state'.items[i].status = "Pending" /\ state'.items[i].attempt = 0
  BY <1>1, <1>2, <1>3, InsertGood
<1>5. \A j \in Ids : Moves(state.items[j], state'.items[j])
  BY <1>1, <1>2, <1>4, NullMoves
<1>6. KeyOf(r) \in Queues \X (Keys \cup {NULL}) /\ KeyOf(r) # NULL
  <2>1. KeyOf(r) \in Queues \X (Keys \cup {NULL}) BY QueueAssumption DEF KeyOf
  <2> QED BY <2>1, QueueNullAssumption
<1>7. /\ issued' \in [Ids -> (Queues \X (Keys \cup {NULL})) \cup {NULL}]
      /\ \A j \in Ids : state'.items[j] # NULL => issued'[j] # NULL
  <2>1. issued \in [Ids -> (Queues \X (Keys \cup {NULL})) \cup {NULL}] BY DEF MemInv
  <2>2. \A j \in Ids : s.items[j] # NULL => issued[j] # NULL BY DEF MemInv
  <2>3. \A j \in Ids : issued'[j] = IF j = i THEN KeyOf(r) ELSE issued[j] BY <1>1, <2>1
  <2>4. issued' \in [Ids -> (Queues \X (Keys \cup {NULL})) \cup {NULL}] BY <1>6, <2>1
  <2> QED BY <1>4, <1>6, <2>2, <2>3, <2>4
<1> QED BY <1>4, <1>5, <1>7 DEF Moved

\* An unended item of a key is the one the index gives.
LEMMA ActiveNewest ==
    ASSUME MemInv, NEW r \in Requests, r.key # NULL, NEW j \in Ids, state.items[j] # NULL,
           Active(state.items[j]), KeyOf(state.items[j]) = KeyOf(r)
    PROVE  j \in Newest(r)
<1>1. state.items[j].key # NULL BY DEF KeyOf
<1>2. state.idempotency[KeyOf(state.items[j])] = j BY <1>1, InvFacts DEF Good, ActiveIndexed
<1> QED BY <1>2 DEF Newest, Held

\* enqueue.
LEMMA EnqueueMoved ==
    ASSUME MemInv, NEW r \in Requests, NEW force \in BOOLEAN, NEW delay \in 0..1, NEW t \in Samples,
           Enqueue(r, force, delay, t)
    PROVE  Moved
<1>1. PICK i \in Unused :
         /\ \A j \in Newest(r) : ~Active(state.items[j]) /\ force
         /\ state' = Insert(state, i, r, delay, t)
         /\ issued' = [issued EXCEPT ![i] = KeyOf(r)] /\ UNCHANGED now
  BY DEF Enqueue
<1>2. \A j \in Ids : state.items[j] # NULL /\ Active(state.items[j]) /\ r.key # NULL =>
         KeyOf(state.items[j]) # KeyOf(r)
  BY <1>1, ActiveNewest
<1>3. \A j \in Ids : Moves(state.items[j], state.items[j]) BY InvFacts, SameMoves
<1> QED BY <1>1, <1>2, <1>3, InvFacts, InsertMoved

\* A Failed item is stopped before it is replaced.
LEMMA StopCurrentGood ==
    ASSUME MemInv, NEW current \in Ids, NEW s, s = StopCurrent(current)
    PROVE  /\ Good(s) /\ s.cooldowns = state.cooldowns
           /\ \A j \in Ids : /\ Moves(state.items[j], s.items[j])
                             /\ s.items[j] # NULL => state.items[j] # NULL
                             /\ s.items[j] # NULL /\ Active(s.items[j]) => s.items[j] = state.items[j]
           /\ s.items[current] # NULL => s.items[current].status # "Failed"
<1> DEFINE a == state.items[current] b == [a EXCEPT !.status = "Stopped"]
<1>1. CASE ~(current \in Held(state) /\ a.status = "Failed")
  <2>1. s = state BY <1>1 DEF StopCurrent
  <2> QED BY <1>1, <2>1, InvFacts, SameMoves DEF Held
<1>2. CASE current \in Held(state) /\ a.status = "Failed"
  <2>1. s = Put(state, current, b) BY <1>2 DEF StopCurrent
  <2>2. a # NULL /\ a \in QueueItem /\ a.status = "Failed" /\ Good(state) BY <1>2, InvFacts DEF Held
  <2>3. Active(a) /\ Waiting(a) BY <2>2 DEF Active, ActiveStatus, Waiting
  <2>4. b \in QueueItem BY <2>2 DEF QueueItem, ActiveStatus, TerminalStatus
  <2>5. /\ b.queue = a.queue /\ b.key = a.key /\ b.max_attempts = a.max_attempts
        /\ b.attempt = a.attempt /\ b.status = "Stopped"
    BY <2>2 DEF QueueItem
  <2> HIDE DEF b
  <2>6. Same(a, b) /\ Sound(b) /\ ~Active(b)
    BY <2>5 DEF Same, Sound, Waiting, Active, ActiveStatus
  <2>7. Moves(a, b) BY <2>2, <2>3, <2>4, <2>5, <2>6, SeenMoves DEF Retire
  <2>8. /\ Good(s) /\ s.cooldowns = state.cooldowns /\ s.items[current] = b
        /\ \A j \in Ids \ {current} :
              \/ s.items[j] = state.items[j]
              \/ s.items[j] = NULL /\ state.items[j] # NULL /\ ~Active(state.items[j])
    BY <2>1, <2>2, <2>3, <2>4, <2>5, <2>6, PutGood
  <2>9. ASSUME NEW j \in Ids
        PROVE  /\ Moves(state.items[j], s.items[j])
               /\ s.items[j] # NULL => state.items[j] # NULL
               /\ s.items[j] # NULL /\ Active(s.items[j]) => s.items[j] = state.items[j]
    <3>1. CASE j = current BY <2>2, <2>6, <2>7, <2>8, <3>1
    <3>2. CASE j # current BY <2>8, <3>2, InvFacts, SameMoves, NullMoves DEF Leave
    <3> QED BY <3>1, <3>2
  <2> QED BY <2>5, <2>8, <2>9
<1> QED BY <1>1, <1>2

\* enqueue_replacing.
LEMMA EnqueueReplacingMoved ==
    ASSUME MemInv, NEW r \in Requests, NEW current \in Ids, NEW delay \in 0..1, NEW t \in Samples,
           EnqueueReplacing(r, current, delay, t)
    PROVE  Moved
<1> DEFINE s == StopCurrent(current)
<1>1. PICK i \in Unused :
         /\ r.key # NULL
         /\ \A j \in Newest(r) : /\ j = current
                                 /\ ~Active(state.items[j])
                                       \/ (state.items[j].status = "Failed" /\ state.items[j].lease_expired)
         /\ state' = Insert(s, i, r, delay, t)
         /\ issued' = [issued EXCEPT ![i] = KeyOf(r)] /\ UNCHANGED now
  BY DEF EnqueueReplacing
<1> HIDE DEF s
<1>2. /\ Good(s) /\ s.cooldowns = state.cooldowns
      /\ \A j \in Ids : /\ Moves(state.items[j], s.items[j])
                        /\ s.items[j] # NULL => state.items[j] # NULL
                        /\ s.items[j] # NULL /\ Active(s.items[j]) => s.items[j] = state.items[j]
      /\ s.items[current] # NULL => s.items[current].status # "Failed"
  BY StopCurrentGood DEF s
<1>3. ASSUME NEW j \in Ids, s.items[j] # NULL, Active(s.items[j]), KeyOf(s.items[j]) = KeyOf(r)
      PROVE  FALSE
  <2>1. s.items[j] = state.items[j] BY <1>2, <1>3
  <2>2. j \in Newest(r) BY <1>1, <1>3, <2>1, ActiveNewest
  <2> QED BY <1>1, <1>2, <1>3, <2>1, <2>2
<1> QED BY <1>1, <1>2, <1>3, InsertMoved

----------------------------------------------------------------------------
(* The invariant and the refinement.                                       *)

\* The empty queue.
LEMMA InitMemInv == MemInit => MemInv /\ Contract!WorkInit
<1> SUFFICES ASSUME MemInit PROVE MemInv /\ Contract!WorkInit OBVIOUS
<1>1. /\ state.items = [i \in Ids |-> NULL] /\ state.idempotency = [k \in Queues \X Keys |-> NULL]
      /\ state.running = [q \in Queues |-> {}] /\ state.terminal = <<>>
      /\ state.cooldowns = [q \in Queues |-> NULL]
      /\ issued = [i \in Ids |-> NULL] /\ now = 0
  BY DEF MemInit
<1>2. state \in State
  <2>1. <<>> \in Seq(Ids) OBVIOUS
  <2> QED BY <2>1 DEF MemInit, State
<1>3. \A i \in Ids : state.items[i] = NULL /\ Sound(state.items[i]) BY <1>1 DEF Sound
<1>4. \A q \in Queues : state.running[q] = Leases(state.items, q) /\ Cardinality(state.running[q]) <= Cap
  <2>1. \A q \in Queues : state.running[q] = {} /\ Leases(state.items, q) = {} BY <1>1, <1>3 DEF Leases
  <2> QED BY <2>1, FS_EmptySet, QueueAssumption
<1>5. Window(state.terminal, EndedIds(state.items)) /\ Len(state.terminal) <= Retain
  <2>1. EndedIds(state.items) = {} BY <1>3 DEF EndedIds
  <2>2. state.terminal = <<>> BY <1>1
  <2>3. Window(state.terminal, EndedIds(state.items)) BY <2>1, <2>2, SmallWindows, Zenon
  <2>4. Len(state.terminal) = 0 BY <2>2, SmallWindows
  <2> QED BY <2>3, <2>4, MemoryAssumption
<1>6. KeysPoint(state) /\ ActiveIndexed(state) BY <1>1, <1>3 DEF KeysPoint, ActiveIndexed
<1>7. MemInv
  <2>1. Good(state) BY <1>2, <1>3, <1>4, <1>5, <1>6 DEF Good
  <2>2. now \in 0..MaxTime BY <1>1, QueueAssumption
  <2>3. issued \in [Ids -> (Queues \X (Keys \cup {NULL})) \cup {NULL}] BY <1>1
  <2> QED BY <1>3, <2>1, <2>2, <2>3 DEF MemInv
<1>8. Contract!WorkInit BY <1>1 DEF Contract!WorkInit, Seen
<1> QED BY <1>7, <1>8

\* The instance counts as this module does.
LEMMA SameCardinality == ASSUME NEW S PROVE Contract!Cardinality(S) = Cardinality(S)
BY Zenon DEF Contract!Cardinality, Cardinality

\* The contract's view of the items is orderly whenever the invariant holds.
LEMMA InvOrderly == MemInv => Contract!Orderly
<1> SUFFICES ASSUME MemInv PROVE Contract!Orderly OBVIOUS
<1> DEFINE work == [i \in Ids |-> Seen(state.items[i])]
<1>1. \A i \in Ids : work[i] # NULL =>
         state.items[i] \in QueueItem /\ state.items[i] # NULL /\ Sound(state.items[i])
  BY InvFacts DEF Seen
<1>2. Contract!Present = {i \in Ids : work[i] # NULL} BY DEF Contract!Present
<1>3. ASSUME NEW i \in Ids, work[i] # NULL
      PROVE  /\ work[i].key = state.items[i].key /\ work[i].queue = state.items[i].queue
             /\ work[i].attempt = state.items[i].attempt
             /\ work[i].max_attempts = state.items[i].max_attempts
             /\ work[i].phase = Phase(state.items[i].status)
  BY <1>1, <1>3 DEF Seen
<1>4. ASSUME NEW i \in Ids, work[i] # NULL
      PROVE  /\ ~Contract!Over(work[i]) => Active(state.items[i])
             /\ work[i].phase = "leased" => state.items[i].status = "Running"
             /\ work[i].phase = "waiting" => Waiting(state.items[i])
  BY <1>1, <1>3, <1>4, ItemTypes
     DEF Contract!Over, Active, Waiting, Phase, ActiveStatus, TerminalStatus
<1>5. ASSUME NEW i \in Contract!Present, NEW j \in Contract!Present,
             ~Contract!Over(work[i]), ~Contract!Over(work[j]), work[i].key # NULL,
             work[i].key = work[j].key, work[i].queue = work[j].queue
      PROVE  i = j
  <2>1. /\ i \in Ids /\ j \in Ids /\ state.items[i] # NULL /\ state.items[j] # NULL
        /\ Active(state.items[i]) /\ Active(state.items[j])
        /\ state.items[i].key # NULL /\ state.items[j].key # NULL
        /\ KeyOf(state.items[i]) = KeyOf(state.items[j])
    BY <1>1, <1>2, <1>3, <1>4, <1>5 DEF KeyOf
  <2> QED BY <2>1, InvFacts DEF Good, ActiveIndexed
<1>6. ASSUME NEW q \in DOMAIN state.cooldowns
      PROVE  Cardinality({i \in Contract!Present : work[i].queue = q /\ work[i].phase = "leased"}) <= Cap
  <2> DEFINE L == {i \in Contract!Present : work[i].queue = q /\ work[i].phase = "leased"}
  <2>1. q \in Queues BY InvFacts, StateTypes
  <2>2. L \subseteq Leases(state.items, q) BY <1>1, <1>2, <1>3, <1>4 DEF Leases
  <2>3. Cardinality(L) <= Cardinality(Leases(state.items, q)) /\ Cardinality(L) \in Nat
    BY <2>2, LeasesFinite, FS_Subset, FS_CardinalityType
  <2>4. Cardinality(Leases(state.items, q)) <= Cap BY <2>1, InvFacts DEF Good
  <2> QED BY <2>3, <2>4, LeasesFinite, QueueAssumption
<1>7. ASSUME NEW i \in Contract!Present, work[i].phase = "waiting"
      PROVE  work[i].attempt < work[i].max_attempts
  BY <1>1, <1>2, <1>3, <1>4, <1>7 DEF Sound
<1> QED BY <1>5, <1>6, <1>7, SameCardinality DEF Contract!Orderly, work

\* A step of the items is a step of the contract.
LEMMA MovedStep ==
    ASSUME MemInv, Moved
    PROVE  MemInv' /\ Contract!Step
<1>1. MemInv' BY DEF Moved, MemInv
<1>2. Contract!Orderly' BY <1>1, InvOrderly, PTL
<1>3. \A i \in Ids : Contract!ItemMoves(Seen(state.items[i]), Seen(state'.items[i]))
  BY DEF Moved, Moves
<1>4. UNCHANGED <<state.cooldowns, now>> BY DEF Moved
<1> QED BY <1>1, <1>2, <1>3, <1>4 DEF Contract!Step, Seen

\* Every operation keeps the invariant and is a step of the contract.
LEMMA NextMemInv ==
    ASSUME MemInv, [MemNext]_memVars
    PROVE  MemInv' /\ [Contract!WorkNext]_(Contract!workVars)
<1>1. ASSUME Moved PROVE MemInv' /\ Contract!WorkNext
  BY <1>1, MovedStep DEF Contract!WorkNext
<1>2. ASSUME NEW r \in Requests, NEW delay \in 0..1, NEW t \in Samples,
             \/ \E force \in BOOLEAN : Enqueue(r, force, delay, t)
             \/ \E current \in Ids : EnqueueReplacing(r, current, delay, t)
      PROVE  MemInv' /\ Contract!WorkNext
  BY <1>1, <1>2, EnqueueMoved, EnqueueReplacingMoved
<1>3. ASSUME NEW w \in Workers, NEW t \in Samples,
             \/ \E q \in Queues : Claim(q, w, t)
             \/ \E i \in Ids : \/ ClaimItem(i, w, t) \/ Heartbeat(i, w, t) \/ Complete(i, w, t)
                              \/ \E retry \in {NULL, t + 1} : FailWith(i, w, retry, t)
      PROVE  MemInv' /\ Contract!WorkNext
  BY <1>1, <1>3, ClaimMoved, ClaimItemMoved, HeartbeatMoved, ReleaseMoved
<1>4. ASSUME NEW q \in Queues, ReclaimExpiredLeases(q) PROVE MemInv' /\ Contract!WorkNext
  BY <1>1, <1>4, ReclaimMoved
<1>5. ASSUME NEW q \in Queues, NEW until \in now..MaxTime, NoteCooldown(q, until)
      PROVE  MemInv' /\ Contract!WorkNext
  <2> DEFINE c == state.cooldowns
             d == [c EXCEPT ![q] = IF c[q] = NULL \/ c[q] < until THEN until ELSE c[q]]
  <2>1. now \in Nat /\ MaxTime \in Nat /\ until \in Nat /\ until # NULL
    BY InvFacts, NullItem
  <2>2. state' = [state EXCEPT !.cooldowns = d] /\ UNCHANGED <<issued, now>>
    BY <1>5, Zenon DEF NoteCooldown
  <2>3. c \in [Queues -> Nat \cup {NULL}] /\ state \in State BY InvFacts, StateTypes
  <2>4. d \in [Queues -> Nat \cup {NULL}] BY <2>1, <2>3
  <2>5. \A p \in Queues : d[p] = c[p] \/ (d[p] # NULL /\ (c[p] = NULL \/ d[p] > c[p]))
    BY <2>1, <2>3
  <2> HIDE DEF d
  <2>6. /\ state'.items = state.items /\ state'.idempotency = state.idempotency
        /\ state'.running = state.running /\ state'.terminal = state.terminal
        /\ state'.cooldowns = d /\ state' \in State
    BY <2>2, <2>3, <2>4 DEF State
  <2>7. MemInv'
    BY <2>2, <2>6 DEF MemInv, Good, KeysPoint, ActiveIndexed
  <2>8. Contract!Cool
    BY <2>2, <2>3, <2>5, <2>6 DEF Contract!Cool, Contract!CooldownGrows
  <2> QED BY <2>7, <2>8 DEF Contract!WorkNext
<1>6. ASSUME MemTick PROVE MemInv' /\ Contract!WorkNext
  <2>1. now < MaxTime /\ now' = now + 1 /\ UNCHANGED <<state, issued>> /\ now \in Nat /\ MaxTime \in Nat
    BY <1>6, InvFacts DEF MemTick
  <2>2. MemInv' BY <2>1 DEF MemInv, Good, KeysPoint, ActiveIndexed
  <2>3. Contract!Pass BY <2>1 DEF Contract!Pass
  <2> QED BY <2>2, <2>3 DEF Contract!WorkNext
<1>7. CASE UNCHANGED memVars
  <2>1. MemInv' BY <1>7 DEF memVars, MemInv, Good, KeysPoint, ActiveIndexed
  <2>2. UNCHANGED Contract!workVars BY <1>7 DEF memVars, Contract!workVars
  <2> QED BY <2>1, <2>2
<1> QED BY <1>2, <1>3, <1>4, <1>5, <1>6, <1>7 DEF MemNext

\* The items, the running index, the terminal window and the key index of
\* the in-process queue agree after any sequence of calls, and no queue has
\* more than Cap leases.
THEOREM MemoryInvariant == MemSpec => []MemInv
<1>1. MemInv /\ [MemNext]_memVars => MemInv' BY NextMemInv
<1> QED BY <1>1, InitMemInv, PTL DEF MemSpec

\* set_status and evict_terminal keep the three indexes in step with the
\* items: the running index is exactly the leased items, the window holds
\* each ended item once, and a key points at the item duplicates are given.
THEOREM IndexesAgree == MemSpec => []IndexesConsistent
<1>1. MemInv => IndexesConsistent
  <2> SUFFICES ASSUME MemInv PROVE IndexesConsistent OBVIOUS
  <2>1. MemTypeOK BY InvFacts DEF MemInv, MemTypeOK
  <2>2. \A q \in Queues : state.running[q] =
           {i \in Held(state) : state.items[i].queue = q /\ state.items[i].status = "Running"}
    BY InvFacts DEF Good, Leases, Held
  <2>3. ASSUME NEW i \in Ids
        PROVE  Cardinality({k \in DOMAIN state.terminal : state.terminal[k] = i}) =
                  IF i \in Held(state) /\ ~Active(state.items[i]) THEN 1 ELSE 0
    <3> DEFINE w == state.terminal P == {k \in DOMAIN w : w[k] = i}
    <3>1. Window(w, EndedIds(state.items)) /\ DOMAIN w = 1..Len(w)
      BY InvFacts, LenProperties DEF Good, Window
    <3>2. i \in EndedIds(state.items) <=> i \in Held(state) /\ ~Active(state.items[i])
      BY DEF EndedIds, Held
    <3>3. CASE i \in EndedIds(state.items)
      <4>1. PICK k \in 1..Len(w) : w[k] = i BY <3>1, <3>3 DEF Window
      <4>2. P = {k} BY <3>1, <4>1 DEF Window
      <4> QED BY <3>2, <3>3, <4>2, FS_Singleton
    <3>4. CASE i \notin EndedIds(state.items)
      <4>1. P = {} BY <3>1, <3>4 DEF Window
      <4> QED BY <3>2, <3>4, <4>1, FS_EmptySet
    <3> QED BY <3>3, <3>4
  <2>4. Len(state.terminal) <= Retain BY InvFacts DEF Good
  <2>5. \A k \in Queues \X Keys : state.idempotency[k] # NULL =>
           /\ state.idempotency[k] \in Held(state)
           /\ KeyOf(state.items[state.idempotency[k]]) = k
    BY InvFacts DEF Good, KeysPoint, Held
  <2>6. \A i \in Held(state) : Active(state.items[i]) /\ state.items[i].key # NULL =>
           state.idempotency[KeyOf(state.items[i])] = i
    BY InvFacts DEF Good, ActiveIndexed, Held
  <2> QED BY <2>1, <2>2, <2>3, <2>4, <2>5, <2>6 DEF IndexesConsistent
<1> QED BY <1>1, MemoryInvariant, PTL

\* The in-process queue implements the queue contract: every call is a step
\* of WorkQueue that moves each item as its state allows and keeps the cap
\* and the one unended item per key.
THEOREM MemoryImplementsContract == MemSpec => MemoryKeepsContract
<1>1. MemInv /\ [MemNext]_memVars => [Contract!WorkNext]_(Contract!workVars)
  BY NextMemInv
<1>2. MemInit => Contract!WorkInit BY InitMemInv
<1> QED BY <1>1, <1>2, MemoryInvariant, PTL
     DEF MemSpec, MemoryKeepsContract, Contract!WorkSpec
=============================================================================
