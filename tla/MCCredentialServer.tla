------------------------ MODULE MCCredentialServer ------------------------
(* Two instances on one socket path, sharing the state directory or not. *)
EXTENDS CredentialServer, TLC

CONSTANTS d1, d2, c1, c2
Pair == {c1, c2}
EnqueueAndAny == c1 :> {"enqueue"} @@ c2 :> {"enqueue", "completions"}
TwoThenOne == 1 :> 2 @@ 2 :> 1
Two == {d1, d2}
SharedOrNot == {[i \in Instances |-> d1], [i \in Instances |-> IF i = 1 THEN d1 ELSE d2]}
==============================================================================
