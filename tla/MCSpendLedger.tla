--------------------------- MODULE MCSpendLedger ---------------------------
(* Small instances of SpendLedger: one account, explicit and implicit      *)
(* attempts of one or two invocations.                                     *)
EXTENDS SpendLedger

CONSTANTS acc, i1, i2, b1, b2, r1, r2, measured, blank, ansX, in1, o1

Attempt(ref, inv, binding, limit) ==
    [reference |-> ref, account |-> acc, invocation |-> inv, binding |-> binding,
     request_limit |-> limit]

\* The second receipt repeats the invocation, rebinds it or is another one
\* under a limit that only a released first attempt leaves room for.
Rebinding == {Attempt(r1, i1, b1, 2), Attempt(r2, i1, b1, 2), Attempt(r2, i1, b2, 2),
              Attempt(r2, i2, b1, 1)}
=============================================================================
