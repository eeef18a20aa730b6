---------------------------- MODULE MCSupervise ----------------------------
(* Two supervisors: one may restart once in the window, one never. *)
EXTENDS Supervise, TLC

CONSTANTS s1, s2
Pair == {s1, s2}
OneRestart == s1 :> 1 @@ s2 :> 0
==============================================================================
