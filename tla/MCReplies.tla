----------------------------- MODULE MCReplies -----------------------------
(* What becomes of a provider's reply: the classifier turns it into answers *)
(* and decisions, the response cache keeps it.  The two share no state; a   *)
(* behaviour exercises one of them while the other rests.                   *)
EXTENDS Classification, ResponseCache

CONSTANTS a, b, c, d, q1, q2, o1, o2, e1, e2, w1, w2

VARIABLE part

RepliesInit ==
    \/ part = "classifier" /\ ClassificationInit /\ CacheInit /\ disk = [e \in Entries |-> Nothing]
    \/ part = "cache" /\ ClassificationInit /\ CacheInit
RepliesNext ==
    /\ UNCHANGED part
    /\ \/ part = "classifier" /\ ClassificationNext /\ UNCHANGED vars
       \/ part = "cache" /\ CacheNext /\ UNCHANGED call
RepliesSpec == RepliesInit /\ [][RepliesNext]_<<part, call, vars>>

(* Replies and requests.                                                    *)

Choice(id, options, bytes) ==
    [id |-> id, kind |-> "choice", options |-> options, levels |-> 0, bytes |-> bytes]
Score(id, levels, bytes) ==
    [id |-> id, kind |-> "score", options |-> <<>>, levels |-> levels, bytes |-> bytes]
Noul(id, bytes) ==
    [id |-> id, kind |-> "noul", options |-> <<>>, levels |-> 0, bytes |-> bytes]

\* Requests that are answered, and some of each way to be refused.
Asked ==
    {<<Choice(q1, <<a, b, c>>, 1)>>, <<Choice(q1, <<a>>, 1)>>,
     <<Score(q1, 3, 1)>>, <<Noul(q1, 1), Noul(q2, 1)>>}

Malformed ==
    {<<>>, <<Noul(Unnamed, 1)>>, <<Noul(q1, 1), Noul(q1, 1)>>,
     <<Choice(q1, <<>>, 1)>>, <<Choice(q1, <<a, a>>, 1)>>,
     <<Choice(q1, <<a, Unnamed>>, 1)>>, <<Score(q1, 1, 1)>>,
     <<Choice(q1, <<a, b, c, d>>, 1)>>, <<Score(q1, 4, 1)>>}

\* Every state and up to three questions around the two budgets.
Sized ==
    {[state |-> s, questions |-> [i \in DOMAIN n |-> Noul(<<q1, q2, d>>[i], n[i])]] :
       s \in 0 .. 4,
       n \in {<<x>> : x \in 1 .. 4} \cup {<<x, y>> : x, y \in 1 .. 4}
             \cup {<<x, y, z>> : x, y, z \in 2 .. 3}}

MCAnswering == {[state |-> 0, questions |-> qs] : qs \in Asked}

MCRequests ==
    MCAnswering \cup Sized \cup {[state |-> 0, questions |-> qs] : qs \in Malformed}

\* Out of range and just within it, thirds and halves that tie or nearly so.
MCValues == {-3, -2, 0, 33, 34, 50, 100}

MCMinimums == {0, 33, 34, 50, 51, 100}

(* Entry files, which are interchangeable, and responses of two lengths.    *)

MCBytes == [o \in Owners |-> IF o = o1 THEN 1 ELSE 2]

Symmetry == Permutations({e1, e2}) \cup Permutations({w1, w2})
=============================================================================
