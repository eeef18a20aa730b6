---------------------------- MODULE MCModelJobs ----------------------------
(* One paid job, a worker and a direct caller of its invocation.    *)
EXTENDS ModelJobs, TLC

CONSTANTS k1, pay, w1, mk, a1, r1, r2, acc, b1, use, ans, big, v1, c1

One(x) == 1
PaidJob(a, until) ==
    [key |-> k1, group |-> NULL, owners |-> {w1}, kind |-> mk, execution |-> "Model",
     payload |-> pay, admission |-> a, max_attempts |-> 2, recovery_until |-> until]
AnyJob == {PaidJob(NULL, NULL), PaidJob(a1, 1)}
=============================================================================
