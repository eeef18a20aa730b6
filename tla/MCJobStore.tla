----------------------------- MODULE MCJobStore -----------------------------
(* Small instances of JobStore.                                            *)
EXTENDS JobStore

CONSTANTS payA, payB, k1, k2, g1, w1, hk, mk, a1, a2, small, large, rc1

MCInputSize(x) == IF x \in {payB, a2} THEN 2 ELSE 1
MCRawSize(o) == IF o = large THEN 2 ELSE 1
MCEncodedSize(o) == IF o = large THEN 3 ELSE IF o = a2 THEN 6 ELSE 1
\* The second ordinal is one digit longer than the first, and so is the
\* timestamp of a lease that does not end on a round second.
MCOrdinalBytes(g) == IF g < 2 THEN 1 ELSE 2
MCLeaseBytes(t) == IF t = 1 THEN 1 ELSE 2

HandlerSpec(k, pl, max, until) ==
    [key |-> k, group |-> g1, owners |-> {w1}, kind |-> hk,
     execution |-> "Handler", payload |-> pl, admission |-> NULL,
     max_attempts |-> max, recovery_until |-> until]
ModelSpec(k, adm, max) ==
    [key |-> k, group |-> g1, owners |-> {w1}, kind |-> mk,
     execution |-> "Model", payload |-> payA, admission |-> adm,
     max_attempts |-> max, recovery_until |-> NULL]

ModelSpecs == {ModelSpec(k1, NULL, 2), ModelSpec(k2, a1, 1)}
MixedSpecs == {HandlerSpec(k1, payA, 2, 1), HandlerSpec(k1, payA, 2, 2),
               ModelSpec(k2, a1, 2)}
=============================================================================
