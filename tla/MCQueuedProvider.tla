-------------------------- MODULE MCQueuedProvider --------------------------
EXTENDS QueuedProvider, TLC

CONSTANTS c1, c2, c3, explicit, implicit, p1

\* Every call makes the same request, of each kind in turn.
SameRequest == {[c \in Calls |-> r] : r \in Requests}
OneProcess == [c \in Calls |-> p1]

\* Calls of the same request and process are interchangeable.
Symmetry == Permutations(Calls)
=============================================================================
