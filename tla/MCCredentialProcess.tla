------------------------ MODULE MCCredentialProcess ------------------------
(* Two attempts of one invocation and one of another with the same input.  *)
EXTENDS CredentialProcess

Attempt(i, n, r, e, u) == [invocation |-> i, ordinal |-> n, sequence |-> n, revision |-> r,
                           expires |-> e, recovery |-> u, input |-> "input", binding |-> i]
SignedAttempts == {Attempt("i", 1, 1, 1, 1), Attempt("i", 2, 1, 2, 2), Attempt("j", 1, 1, 2, 2)}
QueueAttempts == {Attempt("j", 1, 1, 2, 2)}
=============================================================================
