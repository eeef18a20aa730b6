---------------------------- MODULE MCJobRunner ----------------------------
(* Small instances of JobRunner: results are claim generations, and the    *)
(* second generation's result is too large for a completion page.          *)
EXTENDS JobRunner

CONSTANTS payA, k1, w1, hk, v1, v2

One(x) == 1
MCEncodedSize(o) == IF o = 2 THEN 4 ELSE 1

RunnerJob(k, max) ==
    [key |-> k, group |-> NULL, owners |-> {w1}, kind |-> hk,
     execution |-> "Handler", payload |-> payA, admission |-> NULL,
     max_attempts |-> max, recovery_until |-> NULL]

\* One job, with one attempt or two.
OneJob == {RunnerJob(k1, 1), RunnerJob(k1, 2)}
=============================================================================
