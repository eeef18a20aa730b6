------------------------- MODULE SpendLedgerProofs -------------------------
(***************************************************************************)
(* Theorems about SpendLedger.  Every step of the ledger is one of three:  *)
(* it rewrites rows without touching what is charged or counted, it gives  *)
(* one unknown charge back, or it appends an accepted reservation.  The    *)
(* invariant is kept by each of the three.                                 *)
(***************************************************************************)
EXTENDS SpendLedger, FiniteSetTheorems, WellFoundedInduction, TLAPS

\* What one row must satisfy at time t.
RowOK(r, t) ==
    /\ r.recovery = NULL <=> r.expires = NULL
    /\ r.recovery # NULL => Explicit(r) /\ r.output
    /\ r.state = "Released" => ~r.output
    /\ r.expires # NULL => r.expires <= t + Retention
    /\ r.pre_dispatch_released => r.state = "Released"
    /\ IF Explicit(r) THEN r.attempts_used <= r.attempt_limit ELSE r.attempts_used = 0
    /\ Explicit(r) /\ ~r.pre_dispatch_released => r.attempts_used > 0

\* Evidence is final, and an answer only shrinks.
EvidenceStep(a, b) ==
    /\ a.state # "Unknown" =>
          /\ b.state = a.state /\ b.usage = a.usage /\ b.output = a.output
          /\ b.attempts_used = a.attempts_used
    /\ a.dispatch_owner # NULL => b.dispatch_owner = a.dispatch_owner
    /\ a.output => b.output /\ b.state # "Released"
ShrinkStep(a, b) ==
    a.output => \/ b.recovery = NULL
                \/ b.recovery = a.recovery /\ b.expires <= a.expires

\* A legal rewriting of one row.
RowStep(r, s) ==
    /\ s \in Receipt /\ RowOK(s, now)
    /\ s.reservation = r.reservation /\ s.attempt_limit = r.attempt_limit
    /\ s.state = "Unknown" => r.state = "Unknown"
    /\ EvidenceStep(r, s) /\ ShrinkStep(r, s)
\* One that leaves the charge and the counters alone.
PureStep(r, s) ==
    /\ RowStep(r, s) /\ (Charged(s) <=> Charged(r))
    /\ s.attempts_used = r.attempts_used
    /\ s.pre_dispatch_released = r.pre_dispatch_released

PureWrite ==
    /\ receipts' \in Seq(Receipt) /\ Len(receipts') = Len(receipts)
    /\ \A n \in Rows : PureStep(receipts[n], receipts'[n])
    /\ used' = used

\* The unknown charge of row n is given back, and perhaps its attempt.
GivesBack(n) ==
    /\ n \in Rows /\ receipts[n].state = "Unknown"
    /\ receipts' \in Seq(Receipt) /\ Len(receipts') = Len(receipts)
    /\ \A m \in Rows : m # n => receipts'[m] = receipts[m]
    /\ RowStep(receipts[n], receipts'[n]) /\ receipts'[n].state = "Released"
    /\ \/ /\ receipts'[n].attempts_used = receipts[n].attempts_used
          /\ ~receipts'[n].pre_dispatch_released
       \/ /\ receipts'[n].pre_dispatch_released
          /\ Explicit(receipts[n]) =>
                receipts'[n].attempts_used = receipts[n].attempts_used - 1
    /\ used[receipts[n].reservation.account] > 0
    /\ used' = [used EXCEPT ![receipts[n].reservation.account] = @ - 1]

Accepts == \E r \in Reservations, limit \in AttemptLimits \cup {NULL},
                input \in Inputs \cup {NULL} : Reserve(r, limit, input)

\* One binding per invocation; explicit attempts are its suffix, share one
\* ceiling, and only the last of them can be charged.
OneBinding ==
    \A n, m \in Rows : SameChain(n, m) =>
        receipts[n].reservation.binding = receipts[m].reservation.binding
ExplicitSuffix ==
    \A n, m \in Rows : SameChain(n, m) /\ n < m /\ Explicit(receipts[n]) =>
        receipts[m].attempt_limit = receipts[n].attempt_limit
ChargedIsLatest ==
    \A n, m \in Rows :
        SameChain(n, m) /\ Explicit(receipts[n]) /\ Charged(receipts[n]) => m <= n

ChainInv == UnknownBlocks /\ OneBinding /\ ExplicitSuffix /\ ChargedIsLatest
LedgerInv ==
    /\ SpendTypeOK /\ ChainInv
    /\ \A n \in Rows : RowOK(receipts[n], now)

----------------------------------------------------------------------------
(* Rows.                                                                   *)

\* What the operators on one row keep of it.
SameCharge(r, s) ==
    /\ s.reservation = r.reservation /\ s.attempt_limit = r.attempt_limit
    /\ s.attempts_used = r.attempts_used
    /\ s.pre_dispatch_released = r.pre_dispatch_released
SameEvidence(r, s) ==
    s.state = r.state /\ s.usage = r.usage /\ s.output = r.output
Shorter(r, s) ==
    \/ s.recovery = NULL /\ s.expires = NULL
    \/ s.recovery = r.recovery /\ s.expires = r.expires
    \/ /\ s.recovery = r.recovery /\ s.recovery # NULL /\ r.expires # NULL
       /\ s.expires \in Nat /\ s.expires <= r.expires

\* The types of a row's fields.
LEMMA RowTypes ==
    ASSUME NEW r \in Receipt
    PROVE  /\ r.state \in SpendState /\ r.output \in BOOLEAN
           /\ r.pre_dispatch_released \in BOOLEAN
           /\ r.attempt_limit \in Nat \cup {NULL} /\ r.attempts_used \in Nat
           /\ r.recovery \in Answers \cup {NULL} /\ r.expires \in Nat \cup {NULL}
           /\ r.reservation \in Reservation
BY DEF Receipt

\* Shortening an answer's life, or naming a dispatcher, charges nothing.
LEMMA QuietPure ==
    ASSUME NEW r \in Receipt, NEW s \in Receipt, RowOK(r, now), now \in Nat,
           SameCharge(r, s), SameEvidence(r, s), Shorter(r, s),
           r.dispatch_owner # NULL => s.dispatch_owner = r.dispatch_owner
    PROVE  PureStep(r, s)
<1>1. /\ r.expires \in Nat \cup {NULL} /\ s.expires \in Nat \cup {NULL}
      /\ r.output \in BOOLEAN /\ r.state \in SpendState
  BY RowTypes
<1>2. /\ s.recovery = NULL <=> s.expires = NULL
      /\ s.recovery # NULL => r.recovery # NULL
      /\ s.expires # NULL => s.expires <= now + Retention
  BY <1>1, LedgerNullAssumption, LedgerConfigAssumption DEF Shorter, RowOK
<1>3. RowOK(s, now)
  BY <1>1, <1>2 DEF RowOK, SameCharge, SameEvidence, Explicit
<1>4. EvidenceStep(r, s)
  BY <1>1 DEF EvidenceStep, RowOK, SameCharge, SameEvidence
<1>5. ShrinkStep(r, s)
  BY <1>1, LedgerNullAssumption DEF ShrinkStep, Shorter, RowOK
<1> QED
  BY <1>3, <1>4, <1>5 DEF PureStep, RowStep, Charged, SameCharge, SameEvidence

\* Deleting a saved answer.
LEMMA ClearedPure ==
    ASSUME NEW r \in Receipt, RowOK(r, now), now \in Nat
    PROVE  PureStep(r, Cleared(r))
<1>1. Cleared(r) \in Receipt
  BY DEF Receipt, Cleared
<1>2. /\ SameCharge(r, Cleared(r)) /\ SameEvidence(r, Cleared(r))
      /\ Shorter(r, Cleared(r)) /\ Cleared(r).dispatch_owner = r.dispatch_owner
  BY DEF Receipt, Cleared, SameCharge, SameEvidence, Shorter
<1> QED BY <1>1, <1>2, QuietPure

\* Leaving a row alone.
LEMMA SamePure ==
    ASSUME NEW r \in Receipt, RowOK(r, now), now \in Nat
    PROVE  PureStep(r, r)
BY QuietPure DEF SameCharge, SameEvidence, Shorter

\* Naming the dispatcher of a handoff.
LEMMA OwnerPure ==
    ASSUME NEW r \in Receipt, RowOK(r, now), now \in Nat,
           r.dispatch_owner = NULL, NEW owner \in Owners
    PROVE  PureStep(r, [r EXCEPT !.dispatch_owner = owner])
<1> DEFINE s == [r EXCEPT !.dispatch_owner = owner]
<1>1. s \in Receipt
  BY DEF Receipt
<1>2. SameCharge(r, s) /\ SameEvidence(r, s) /\ Shorter(r, s)
  BY DEF Receipt, SameCharge, SameEvidence, Shorter
<1> QED BY <1>1, <1>2, QuietPure

\* Every policy a caller can reach has a deadline or none.
LEMMA PolicyTypes ==
    ASSUME policy \in [Invocations -> Policy \cup {NULL}], NEW r \in Receipt, NEW job
    PROVE  PolicyFor(job, r).deadline \in Nat \cup {NULL}
<1>1. CASE job # NULL /\ job = r.reservation.invocation /\ policy[job] # NULL
  <2>1. job \in Invocations
    BY <1>1 DEF Receipt, Reservation
  <2> QED BY <1>1, <2>1 DEF PolicyFor, Policy
<1>2. CASE ~(job # NULL /\ job = r.reservation.invocation /\ policy[job] # NULL)
  BY <1>2 DEF PolicyFor, NoPolicy
<1> QED BY <1>1, <1>2

\* The earlier of two deadlines.
LEMMA EarlierBounds ==
    ASSUME NEW t \in Nat \cup {NULL}, NEW u \in Nat \cup {NULL}
    PROVE  /\ Earlier(t, u) \in Nat \cup {NULL}
           /\ t # NULL => Earlier(t, u) \in Nat /\ Earlier(t, u) <= t
           /\ u # NULL => Earlier(t, u) \in Nat /\ Earlier(t, u) <= u
BY LedgerNullAssumption DEF Earlier

\* Narrowing a saved answer to its job's deadline.
LEMMA ConstrainedPure ==
    ASSUME NEW r \in Receipt, RowOK(r, now), now \in Nat, NEW job,
           policy \in [Invocations -> Policy \cup {NULL}]
    PROVE  PureStep(r, Constrained(r, job))
<1> DEFINE d == PolicyFor(job, r).deadline
           until == IF r.expires = NULL THEN NULL ELSE Earlier(r.expires, d)
           s == [r EXCEPT !.expires = until]
<1>1. d \in Nat \cup {NULL} /\ r.expires \in Nat \cup {NULL}
  BY PolicyTypes, RowTypes
<1>2. /\ until \in Nat \cup {NULL}
      /\ r.expires # NULL => until \in Nat /\ until <= r.expires
      /\ r.expires = NULL => until = NULL
  BY <1>1, EarlierBounds
<1>3. Constrained(r, job) \in {Cleared(r), s}
  BY DEF Constrained
<1>4. PureStep(r, s)
  <2> HIDE DEF until
  <2>1. s \in Receipt /\ s.expires = until /\ s.recovery = r.recovery
    BY <1>2 DEF Receipt
  <2>2. /\ SameCharge(r, s) /\ SameEvidence(r, s)
        /\ s.dispatch_owner = r.dispatch_owner
    BY DEF Receipt, SameCharge, SameEvidence
  <2>3. Shorter(r, s)
    BY <1>1, <1>2, <2>1, LedgerNullAssumption DEF Shorter, RowOK
  <2> QED BY <2>1, <2>2, <2>3, QuietPure
<1> QED BY <1>3, <1>4, ClearedPure

\* Saving an answer changes nothing but the answer, and only that of an
\* attempt that is not yet complete.
LEMMA SavedRow ==
    ASSUME NEW r \in Receipt, now \in Nat, NEW job, NEW output,
           NEW deadline \in Nat \cup {NULL},
           policy \in [Invocations -> Policy \cup {NULL}]
    PROVE  LET s == Saved(r, output, deadline, job) IN
           /\ s \in Receipt /\ SameCharge(r, s) /\ SameEvidence(r, s)
           /\ s.dispatch_owner = r.dispatch_owner
           /\ \/ s.recovery = r.recovery /\ s.expires = r.expires
              \/ /\ output \in Answers /\ Explicit(r) /\ ~r.output
                 /\ s.recovery = output
                 /\ s.expires \in Nat /\ s.expires <= now + Retention
<1> DEFINE until == Earlier(deadline, PolicyFor(job, r).deadline)
           e == Earlier(until, now + Retention)
           s == Saved(r, output, deadline, job)
           t == [r EXCEPT !.recovery = output, !.expires = e]
<1>1. until \in Nat \cup {NULL}
  BY PolicyTypes, EarlierBounds
<1>2. now + Retention \in Nat /\ now + Retention # NULL
  BY LedgerConfigAssumption, LedgerNullAssumption
<1>3. e \in Nat /\ e <= now + Retention
  <2> HIDE DEF until
  <2> QED BY <1>1, <1>2, EarlierBounds
<1> HIDE DEF e
<1>4. s = r \/ (s = t /\ output \in Answers /\ Explicit(r) /\ ~r.output)
  BY DEF Saved, e
<1>5. CASE s = r
  BY <1>5 DEF SameCharge, SameEvidence
<1>6. CASE s = t /\ output \in Answers /\ Explicit(r) /\ ~r.output
  <2>1. t \in Receipt /\ t.recovery = output /\ t.expires = e
    BY <1>3, <1>6 DEF Receipt
  <2>2. /\ SameCharge(r, t) /\ SameEvidence(r, t)
        /\ t.dispatch_owner = r.dispatch_owner
    BY DEF Receipt, SameCharge, SameEvidence
  <2> QED BY <1>3, <1>6, <2>1, <2>2
<1> QED BY <1>4, <1>5, <1>6

\* Recording evidence on an unresolved row.
LEMMA FinishedRow ==
    ASSUME NEW r \in Receipt, RowOK(r, now), now \in Nat, NEW job,
           NEW state \in SpendState, NEW usage \in Usages \cup {NULL},
           NEW output, NEW deadline \in Nat \cup {NULL},
           policy \in [Invocations -> Policy \cup {NULL}],
           r.state = "Unknown", FinishAllowed(r, state, usage, output)
    PROVE  LET s == Finished(Saved(r, output, deadline, job), state, usage, output) IN
           /\ RowStep(r, s) /\ SameCharge(r, s)
           /\ s.state = state /\ ~r.pre_dispatch_released
<1> DEFINE v == Saved(r, output, deadline, job)
           s == Finished(v, state, usage, output)
<1>1. /\ v \in Receipt /\ SameCharge(r, v) /\ SameEvidence(r, v)
      /\ v.dispatch_owner = r.dispatch_owner
      /\ \/ v.recovery = r.recovery /\ v.expires = r.expires
         \/ /\ output \in Answers /\ Explicit(r) /\ ~r.output
            /\ v.recovery = output
            /\ v.expires \in Nat /\ v.expires <= now + Retention
  BY SavedRow
<1> HIDE DEF v
<1>2. s \in Receipt
  <2> DEFINE b == v.output \/ output # NULL
  <2>1. b \in BOOLEAN
    OBVIOUS
  <2>2. s = [v EXCEPT !.state = state, !.usage = usage, !.output = b]
    BY <1>1 DEF Finished, Receipt
  <2> HIDE DEF b, s
  <2> QED BY <1>1, <2>1, <2>2 DEF Receipt
<1>3. /\ s.state = state /\ s.recovery = v.recovery /\ s.expires = v.expires
      /\ SameCharge(v, s) /\ s.dispatch_owner = v.dispatch_owner
  BY <1>1 DEF Finished, Receipt, SameCharge
<1>4. s.output = (v.output \/ output # NULL)
  BY <1>1 DEF Finished, Receipt
<1>5. s.output <=> (r.output \/ output # NULL)
  BY <1>1, <1>4 DEF SameEvidence
<1>6. SameCharge(r, s) /\ s.dispatch_owner = r.dispatch_owner
  BY <1>1, <1>3 DEF SameCharge
<1> HIDE DEF s
<1>7. ~r.pre_dispatch_released
  BY DEF RowOK
<1>8. s.state = "Released" => ~s.output /\ ~r.output
  BY <1>3, <1>5 DEF FinishAllowed
<1>9. /\ s.recovery = NULL <=> s.expires = NULL
      /\ s.recovery # NULL => Explicit(s) /\ s.output
      /\ s.expires # NULL => s.expires <= now + Retention
  BY <1>1, <1>3, <1>5, <1>6, LedgerNullAssumption DEF RowOK, Explicit, SameCharge
<1>10. RowOK(s, now)
  BY <1>6, <1>7, <1>8, <1>9 DEF RowOK, Explicit, SameCharge
<1>11. EvidenceStep(r, s)
  BY <1>5, <1>6, <1>8 DEF EvidenceStep
<1>12. ShrinkStep(r, s)
  <2>1. r.expires \in Nat \cup {NULL}
    BY RowTypes
  <2> QED BY <1>1, <1>3, <2>1 DEF ShrinkStep, RowOK
<1>13. RowStep(r, s)
  BY <1>2, <1>6, <1>10, <1>11, <1>12 DEF RowStep, SameCharge
<1> QED BY <1>3, <1>6, <1>7, <1>13 DEF s, v

\* Releasing an unresolved row before its dispatch.
LEMMA ReleasedRow ==
    ASSUME NEW r \in Receipt, RowOK(r, now), now \in Nat,
           r.state = "Unknown", ~r.output
    PROVE  /\ RowStep(r, Released(r)) /\ Released(r).state = "Released"
           /\ Released(r).pre_dispatch_released
           /\ Explicit(r) => Released(r).attempts_used = r.attempts_used - 1
<1> DEFINE s == Released(r)
           k == IF Explicit(r) /\ ~r.pre_dispatch_released
                THEN r.attempts_used - 1 ELSE r.attempts_used
<1>1. r.attempts_used \in Nat /\ r.attempt_limit \in Nat \cup {NULL}
  BY RowTypes
<1>2. ~r.pre_dispatch_released
  BY DEF RowOK
<1>3. k \in Nat
  BY <1>1 DEF RowOK
<1>4. /\ s = [r EXCEPT !.state = "Released", !.usage = NULL, !.output = r.output \/ FALSE,
                      !.pre_dispatch_released = TRUE, !.attempts_used = k]
  BY DEF Released, Finished, Receipt
<1> HIDE DEF s, k
<1>5. s \in Receipt
  BY <1>3, <1>4 DEF Receipt, SpendState
<1>6. /\ s.state = "Released" /\ s.attempts_used = k
      /\ s.reservation = r.reservation /\ s.attempt_limit = r.attempt_limit
      /\ s.recovery = r.recovery /\ s.expires = r.expires
      /\ s.dispatch_owner = r.dispatch_owner
  BY <1>4 DEF Receipt
<1>7. s.pre_dispatch_released = TRUE /\ s.output = (r.output \/ FALSE)
  BY <1>4 DEF Receipt
<1>8. RowOK(s, now)
  <2>1. IF Explicit(s) THEN s.attempts_used <= s.attempt_limit ELSE s.attempts_used = 0
    BY <1>1, <1>6, LedgerNullAssumption DEF RowOK, Explicit, k
  <2> QED BY <1>6, <1>7, <2>1 DEF RowOK, Explicit
<1>9. EvidenceStep(r, s) /\ ShrinkStep(r, s)
  BY <1>6 DEF EvidenceStep, ShrinkStep
<1>10. RowStep(r, s)
  BY <1>5, <1>6, <1>8, <1>9 DEF RowStep
<1> QED BY <1>2, <1>6, <1>7, <1>10 DEF s, k

----------------------------------------------------------------------------
(* The table.  Every step writes purely, gives back, accepts or leaves the *)
(* ledger alone.                                                           *)

\* What the invariant gives for the receipts table.
LEMMA TableTypes ==
    ASSUME LedgerInv
    PROVE  /\ receipts \in Seq(Receipt) /\ Len(receipts) \in Nat
           /\ Rows = 1..Len(receipts) /\ now \in Nat
           /\ \A n \in Rows : receipts[n] \in Receipt /\ RowOK(receipts[n], now)
BY DEF LedgerInv, SpendTypeOK, Rows

\* Rewriting one row of the table.
LEMMA OneRow ==
    ASSUME LedgerInv, NEW n \in Rows, NEW s \in Receipt,
           receipts' = [receipts EXCEPT ![n] = s]
    PROVE  /\ receipts' \in Seq(Receipt) /\ Len(receipts') = Len(receipts)
           /\ receipts'[n] = s
           /\ \A m \in Rows : m # n => receipts'[m] = receipts[m]
BY TableTypes

\* Replacing one receipt by a step that leaves its charge alone is a pure write.
LEMMA OnePure ==
    ASSUME LedgerInv, NEW n \in Rows, NEW s, PureStep(receipts[n], s),
           receipts' = [receipts EXCEPT ![n] = s], used' = used
    PROVE  PureWrite
<1>1. s \in Receipt
  BY DEF PureStep, RowStep
<1>2. \A m \in Rows : PureStep(receipts[m], receipts[m])
  BY TableTypes, SamePure
<1> QED BY <1>1, <1>2, OneRow DEF PureWrite

\* Deleting answers from any set of rows.
LEMMA ClearingPure ==
    ASSUME LedgerInv, NEW S, used' = used,
           receipts' = [n \in Rows |-> IF n \in S THEN Cleared(receipts[n])
                                                  ELSE receipts[n]]
    PROVE  PureWrite
<1>1. \A n \in Rows : PureStep(receipts[n], receipts'[n])
  BY TableTypes, SamePure, ClearedPure
<1>2. \A n \in Rows : receipts'[n] \in Receipt
  BY <1>1 DEF PureStep, RowStep
<1>3. receipts' \in Seq(Receipt) /\ Len(receipts') = Len(receipts)
  BY <1>2, TableTypes
<1> QED BY <1>1, <1>3 DEF PureWrite

\* Releasing an unknown attempt, before its dispatch or after, gives its charge back.
LEMMA GivesBackRow ==
    ASSUME LedgerInv, NEW n \in Rows, NEW s, receipts[n].state = "Unknown",
           RowStep(receipts[n], s), s.state = "Released",
           \/ /\ s.attempts_used = receipts[n].attempts_used
              /\ ~s.pre_dispatch_released
           \/ /\ s.pre_dispatch_released
              /\ Explicit(receipts[n]) => s.attempts_used = receipts[n].attempts_used - 1,
           receipts' = [receipts EXCEPT ![n] = s],
           used[receipts[n].reservation.account] > 0,
           Balance(receipts[n], "Released")
    PROVE  GivesBack(n)
<1>1. s \in Receipt
  BY DEF RowStep
<1> QED BY <1>1, OneRow DEF GivesBack, Balance

\* Finishing an attempt either keeps its charge or gives it back.
LEMMA FinishSteps ==
    ASSUME LedgerInv, NEW n \in Rows, NEW state \in SpendState,
           NEW usage \in Usages \cup {NULL}, NEW output,
           NEW deadline \in Nat \cup {NULL}, NEW job,
           Finish(n, state, usage, output, deadline, job)
    PROVE  PureWrite \/ GivesBack(n)
<1> DEFINE r == receipts[n]
           s == Finished(Saved(r, output, deadline, job), state, usage, output)
<1>1. r \in Receipt /\ RowOK(r, now) /\ now \in Nat
  BY TableTypes
<1>2. policy \in [Invocations -> Policy \cup {NULL}] /\ used \in [Accounts -> Nat]
  BY DEF LedgerInv, SpendTypeOK
<1>3. /\ r.state = "Unknown" /\ FinishAllowed(r, state, usage, output)
      /\ state = "Released" => used[r.reservation.account] > 0
      /\ receipts' = [receipts EXCEPT ![n] = s]
      /\ Balance(r, state)
  BY DEF Finish, Resolvable
<1>4. /\ RowStep(r, s) /\ SameCharge(r, s)
      /\ s.state = state /\ ~r.pre_dispatch_released
  BY <1>1, <1>2, <1>3, FinishedRow
<1> HIDE DEF s
<1>5. CASE state = "Released"
  <2>1. s.attempts_used = r.attempts_used /\ ~s.pre_dispatch_released
    BY <1>4 DEF SameCharge
  <2> HIDE DEF r
  <2> QED BY <1>3, <1>4, <1>5, <2>1, GivesBackRow DEF r
<1>6. CASE state # "Released"
  <2>1. used' = used
    <3>1. r.reservation.account \in Accounts
      BY <1>1 DEF Receipt, Reservation
    <3> QED BY <1>2, <1>3, <1>6, <3>1 DEF Balance
  <2>2. PureStep(r, s)
    BY <1>3, <1>4, <1>6 DEF PureStep, SameCharge, Charged
  <2> QED BY <1>3, <2>1, <2>2, OnePure
<1> QED BY <1>5, <1>6

\* Releasing a reservation gives its charge back.
LEMMA ReleaseSteps ==
    ASSUME LedgerInv, NEW n \in Rows, Release(n)
    PROVE  GivesBack(n)
<1> DEFINE r == receipts[n]
<1>1. r \in Receipt /\ RowOK(r, now) /\ now \in Nat
  BY TableTypes
<1>2. /\ r.state = "Unknown" /\ ~r.output
      /\ used[r.reservation.account] > 0
      /\ receipts' = [receipts EXCEPT ![n] = Released(r)]
      /\ Balance(r, "Released")
  BY DEF Release, Resolvable, FinishAllowed
<1>3. /\ RowStep(r, Released(r)) /\ Released(r).state = "Released"
      /\ Released(r).pre_dispatch_released
      /\ Explicit(r) => Released(r).attempts_used = r.attempts_used - 1
  BY <1>1, <1>2, ReleasedRow
<1> HIDE DEF r
<1> QED BY <1>2, <1>3, GivesBackRow DEF r

Passes ==
    /\ UNCHANGED ledgerVars /\ now' \in Nat /\ now <= now'
    /\ policy' \in [Invocations -> Policy \cup {NULL}]

\* Every operation is a pure write, an accepted attempt, a charge given back or the passing of time.
LEMMA StepKinds ==
    ASSUME LedgerInv, SpendNext
    PROVE  \/ (PureWrite \/ Accepts \/ \E n \in Rows : GivesBack(n))
              /\ UNCHANGED <<policy, now>>
           \/ Passes
<1>1. /\ \A n \in Rows : receipts[n] \in Receipt /\ RowOK(receipts[n], now)
      /\ now \in Nat /\ policy \in [Invocations -> Policy \cup {NULL}]
  BY TableTypes DEF LedgerInv, SpendTypeOK
<1>2. ASSUME ReserveStep PROVE Accepts
  BY <1>2 DEF ReserveStep, Accepts
<1>3. ASSUME ReceiptStep PROVE PureWrite \/ \E n \in Rows : GivesBack(n)
  <2> PICK n \in Rows :
        \/ \E input \in Inputs, owner \in Owners : AcquireHandoff(n, input, owner)
        \/ Release(n)
        \/ \E job \in {NULL, receipts[n].reservation.invocation} :
              \/ Constrain(n, job)
              \/ \E state \in SpendState, usage \in Usages \cup {NULL},
                    output \in Answers \cup {Received, NULL}, deadline \in {NULL, now + 1} :
                    Finish(n, state, usage, output, deadline, job)
    BY <1>3 DEF ReceiptStep
  <2>1. ASSUME NEW input \in Inputs, NEW owner \in Owners,
               AcquireHandoff(n, input, owner)
        PROVE  PureWrite
    <3>1. PureStep(receipts[n], [receipts[n] EXCEPT !.dispatch_owner = owner])
      BY <1>1, <2>1, OwnerPure DEF AcquireHandoff
    <3>2. /\ receipts' = [receipts EXCEPT ![n] =
                            [receipts[n] EXCEPT !.dispatch_owner = owner]]
          /\ used' = used
      BY <2>1 DEF AcquireHandoff
    <3> QED BY <3>1, <3>2, OnePure
  <2>2. ASSUME NEW job, Constrain(n, job) PROVE PureWrite
    <3>1. PureStep(receipts[n], Constrained(receipts[n], job))
      BY <1>1, ConstrainedPure
    <3> QED BY <2>2, <3>1, OnePure DEF Constrain
  <2>3. ASSUME NEW job, NEW state \in SpendState, NEW usage \in Usages \cup {NULL},
               NEW output, NEW deadline \in {NULL, now + 1},
               Finish(n, state, usage, output, deadline, job)
        PROVE  PureWrite \/ GivesBack(n)
    <3>1. deadline \in Nat \cup {NULL}
      BY <1>1
    <3> QED BY <2>3, <3>1, FinishSteps
  <2> QED BY <2>1, <2>2, <2>3, ReleaseSteps
<1>4. ASSUME AnswerStep PROVE PureWrite
  <2>1. ASSUME NEW a, NEW i, DiscardRecovery(a, i) PROVE PureWrite
    <3> HIDE DEF Latest
    <3> QED BY <2>1, ClearingPure DEF DiscardRecovery
  <2>2. ASSUME NEW matching, PurgeRecovery(matching) PROVE PureWrite
    <3> DEFINE S == {n \in Rows : receipts[n].recovery \in matching}
    <3>1. receipts' = [n \in Rows |-> IF n \in S THEN Cleared(receipts[n])
                                                 ELSE receipts[n]]
      BY <2>2 DEF PurgeRecovery
    <3> HIDE DEF S
    <3> QED BY <2>2, <3>1, ClearingPure DEF PurgeRecovery
  <2>3. ASSUME NEW batch, ExpireRecovery(batch) PROVE PureWrite
    BY <2>3, ClearingPure DEF ExpireRecovery
  <2> QED BY <1>4, <2>1, <2>2, <2>3 DEF AnswerStep, Sweep
<1>5. ASSUME NEW i \in Invocations, NEW erased \in BOOLEAN,
             NEW deadline \in JobDeadlines \cup {NULL},
             JobChanges(i, [erased |-> erased, deadline |-> deadline])
      PROVE  Passes
  <2>1. [erased |-> erased, deadline |-> deadline] \in Policy
    BY LedgerConfigAssumption DEF Policy
  <2> QED BY <1>1, <1>5, <2>1 DEF JobChanges, Passes, ledgerVars
<1>6. ASSUME SpendTick PROVE Passes
  BY <1>1, <1>6 DEF SpendTick, Passes, ledgerVars
<1> QED BY <1>2, <1>3, <1>4, <1>5, <1>6 DEF SpendNext

----------------------------------------------------------------------------
(* The invariant.                                                          *)

\* Writing rows by legal steps keeps the chains.
Rewrites ==
    /\ receipts' \in Seq(Receipt) /\ Len(receipts') = Len(receipts)
    /\ \A n \in Rows : RowStep(receipts[n], receipts'[n])

\* Writes that add no receipt rewrite rows along the row transitions.
LEMMA RewritesSteps ==
    ASSUME LedgerInv, PureWrite \/ \E n \in Rows : GivesBack(n)
    PROVE  Rewrites
<1>1. ASSUME PureWrite PROVE Rewrites
  BY <1>1 DEF PureWrite, PureStep, Rewrites
<1>2. ASSUME NEW n \in Rows, GivesBack(n) PROVE Rewrites
  <2>1. \A m \in Rows : RowStep(receipts[m], receipts[m])
    BY TableTypes, SamePure DEF PureStep
  <2> QED BY <1>2, <2>1 DEF GivesBack, Rewrites
<1> QED BY <1>1, <1>2

\* Rewriting rows keeps the chains of attempts.
LEMMA RewritesChain ==
    ASSUME LedgerInv, Rewrites
    PROVE  ChainInv'
<1>1. Rows' = Rows
  BY TableTypes DEF Rewrites, Rows
<1>2. \A n \in Rows : /\ receipts'[n].reservation = receipts[n].reservation
                      /\ receipts'[n].attempt_limit = receipts[n].attempt_limit
                      /\ receipts'[n].state = "Unknown" => receipts[n].state = "Unknown"
                      /\ Charged(receipts'[n]) => Charged(receipts[n])
  BY DEF Rewrites, RowStep, EvidenceStep, Charged
<1>3. \A n, m \in Rows : SameChain(n, m)' <=> SameChain(n, m)
  BY <1>2 DEF SameChain
<1>4. UnknownBlocks'
  BY <1>1, <1>2, <1>3 DEF LedgerInv, ChainInv, UnknownBlocks
<1>5. OneBinding'
  BY <1>1, <1>2, <1>3 DEF LedgerInv, ChainInv, OneBinding
<1>6. ExplicitSuffix'
  BY <1>1, <1>2, <1>3 DEF LedgerInv, ChainInv, ExplicitSuffix, Explicit
<1>7. ChargedIsLatest'
  BY <1>1, <1>2, <1>3 DEF LedgerInv, ChainInv, ChargedIsLatest, Explicit
<1> QED BY <1>4, <1>5, <1>6, <1>7 DEF ChainInv

\* A chain that is not empty has one latest receipt.
LEMMA LatestExists ==
    ASSUME LedgerInv, NEW a, NEW i, Chain(a, i) # {}
    PROVE  \E p \in Chain(a, i) : /\ Latest(a, i) = {p}
                                  /\ \A m \in Chain(a, i) : m <= p
<1> DEFINE C == Chain(a, i)
           L == Len(receipts)
           T == {L - n : n \in C}
<1>1. L \in Nat /\ C \subseteq 1..L
  BY TableTypes DEF Chain
<1>2. T \subseteq Nat /\ T # {}
  <2> HIDE DEF C, L
  <2> QED BY <1>1 DEF C
<1>3. PICK x \in T : \A y \in T : ~(<<y, x>> \in OpToRel(<, Nat))
  <2> HIDE DEF T
  <2> QED BY <1>2, NatLessThanWellFounded, WFMin, Zenon
<1>4. PICK p \in C : x = L - p
  OBVIOUS
<1> HIDE DEF C, L
<1>5. \A m \in C : m <= p
  <2> TAKE m \in C
  <2>1. L - m \in T /\ L - m \in Nat /\ x \in Nat
    BY <1>1, <1>2
  <2>2. ~(L - m < x)
    BY <1>3, <2>1 DEF OpToRel
  <2> QED BY <1>1, <1>4, <2>2
<1>6. \A n \in C : (\A m \in C : m <= n) => n = p
  <2> SUFFICES ASSUME NEW n \in C, \A m \in C : m <= n PROVE n = p
    OBVIOUS
  <2>1. n <= p /\ p <= n /\ n \in Nat /\ p \in Nat
    BY <1>1, <1>5
  <2> QED BY <2>1
<1> QED BY <1>5, <1>6 DEF C, Latest

\* What an accepted reservation appends.
Accepted(r, frozen, attempts, input) ==
    /\ receipts' = Append(receipts, NewReceipt(r, frozen, attempts, input))
    /\ used' = [used EXCEPT ![r.account] = @ + 1]
    /\ r \in Reservation /\ input \in Inputs \cup {NULL}
    /\ frozen \in Nat \cup {NULL} /\ attempts \in Nat
    /\ frozen # NULL => attempts < frozen
\* How it fits the chain it extends: nothing in it is unresolved, and its
\* explicit attempts end with one that set the ceiling and was not charged.
Extends(r, frozen, attempts) ==
    LET C == Chain(r.account, r.invocation) IN
    /\ \A n \in C : /\ receipts[n].state # "Unknown"
                    /\ receipts[n].reservation.binding = r.binding
                    /\ Explicit(receipts[n]) =>
                          /\ receipts[n].attempt_limit = frozen
                          /\ ~Charged(receipts[n])
    /\ \/ attempts = 0 /\ \A n \in C : ~Explicit(receipts[n])
       \/ \E p \in C : /\ \A m \in C : m <= p
                       /\ Explicit(receipts[p])
                       /\ attempts = receipts[p].attempts_used

\* An accepted attempt extends the chain of its invocation.
LEMMA AcceptsExtends ==
    ASSUME LedgerInv, Accepts
    PROVE  \E r, frozen, attempts, input :
              Accepted(r, frozen, attempts, input) /\ Extends(r, frozen, attempts)
<1> PICK r \in Reservations, limit \in AttemptLimits \cup {NULL},
         input \in Inputs \cup {NULL} : Reserve(r, limit, input)
  BY DEF Accepts
<1> DEFINE C == Chain(r.account, r.invocation)
           previous == Latest(r.account, r.invocation)
           frozen == Frozen(previous, limit)
           attempts == AttemptsUsed(previous)
<1>1. limit \in Nat \cup {NULL} /\ r \in Reservation
  BY LedgerConfigAssumption, ReservationsAssumption
<1>2. /\ \A p \in previous : receipts[p].reservation.binding = r.binding
      /\ MayFollow(previous, frozen # NULL, input # NULL)
      /\ Idle(r)
      /\ frozen # NULL => attempts < frozen
      /\ used' = [used EXCEPT ![r.account] = @ + 1]
      /\ receipts' = Append(receipts, NewReceipt(r, frozen, attempts, input))
  BY DEF Reserve
<1>3. \A n \in C : n \in Rows /\ receipts[n] \in Receipt /\ RowOK(receipts[n], now)
  BY TableTypes DEF Chain
<1>4. CASE C = {}
  <2>1. previous = {}
    BY <1>4 DEF Latest
  <2>2. frozen = limit /\ attempts = 0
    BY <2>1 DEF Frozen, AttemptsUsed
  <2>3. Accepted(r, frozen, attempts, input)
    BY <1>1, <1>2, <2>2 DEF Accepted
  <2>4. Extends(r, frozen, attempts)
    BY <1>4, <2>2 DEF Extends
  <2> QED BY <2>3, <2>4
<1>5. CASE C # {}
  <2>1. PICK p \in C : previous = {p} /\ \A m \in C : m <= p
    BY <1>5, LatestExists
  <2> HIDE DEF C, previous
  <2>2. /\ frozen = IF Explicit(receipts[p]) THEN receipts[p].attempt_limit ELSE limit
        /\ attempts = receipts[p].attempts_used
    BY <2>1 DEF Frozen, AttemptsUsed
  <2>3. receipts[p].attempt_limit \in Nat \cup {NULL} /\ attempts \in Nat
    BY <1>3, <2>2, RowTypes
  <2> HIDE DEF frozen, attempts
  <2>4. Accepted(r, frozen, attempts, input)
    BY <1>1, <1>2, <2>2, <2>3 DEF Accepted
  <2>5. \A n \in C : SameChain(n, p) /\ SameChain(p, n)
    BY DEF C, Chain, SameChain
  <2>6. ASSUME NEW n \in C
        PROVE  /\ receipts[n].state # "Unknown"
               /\ receipts[n].reservation.binding = r.binding
    BY <1>2, <1>3, <2>1, <2>5 DEF Idle, C, LedgerInv, ChainInv, OneBinding
  <2>7. ASSUME NEW n \in C, Explicit(receipts[n])
        PROVE  Explicit(receipts[p]) /\ receipts[n].attempt_limit = frozen
    <3>1. receipts[p].attempt_limit = receipts[n].attempt_limit
      <4>1. n = p \/ n < p
        BY <1>3, <2>1, TableTypes
      <4> QED BY <1>3, <2>5, <2>7, <4>1 DEF LedgerInv, ChainInv, ExplicitSuffix
    <3> QED BY <2>2, <2>7, <3>1 DEF Explicit
  <2>8. ASSUME NEW n \in C, Explicit(receipts[n]) PROVE ~Charged(receipts[n])
    <3>1. ASSUME Charged(receipts[n]) PROVE n = p
      <4>1. p <= n /\ n <= p
        BY <1>3, <2>1, <2>5, <2>8, <3>1 DEF LedgerInv, ChainInv, ChargedIsLatest
      <4> QED BY <1>3, <4>1, TableTypes
    <3>2. frozen # NULL
      BY <2>2, <2>7, <2>8 DEF Explicit
    <3>3. receipts[p].state # "Settled" /\ receipts[p].state # "Unknown"
      BY <1>2, <2>1, <2>6, <3>2 DEF MayFollow
    <3>4. receipts[p].state \in SpendState
      BY <1>3, RowTypes
    <3> QED BY <3>1, <3>3, <3>4 DEF Charged, SpendState
  <2>9. \/ attempts = 0 /\ \A n \in C : ~Explicit(receipts[n])
        \/ /\ \A m \in C : m <= p
           /\ Explicit(receipts[p])
           /\ attempts = receipts[p].attempts_used
    BY <1>3, <2>1, <2>2, <2>7 DEF RowOK
  <2>10. Extends(r, frozen, attempts)
    BY <2>6, <2>7, <2>8, <2>9 DEF Extends, C
  <2> QED BY <2>4, <2>10
<1> QED BY <1>4, <1>5

\* What an accepted attempt appends, and that it changes nothing else.
LEMMA AcceptedTable ==
    ASSUME LedgerInv, NEW r, NEW frozen, NEW attempts, NEW input,
           Accepted(r, frozen, attempts, input)
    PROVE  LET N == Len(receipts) + 1
               x == NewReceipt(r, frozen, attempts, input)
           IN  /\ x \in Receipt /\ RowOK(x, now)
               /\ receipts' \in Seq(Receipt) /\ Rows' = Rows \cup {N}
               /\ receipts'[N] = x /\ N \notin Rows /\ \A n \in Rows : n < N
               /\ \A n \in Rows : receipts'[n] = receipts[n]
<1> DEFINE x == NewReceipt(r, frozen, attempts, input)
           k == IF frozen = NULL THEN 0 ELSE attempts + 1
<1>1. k \in Nat
  BY DEF Accepted
<1>2. x = [reservation |-> r, state |-> "Unknown", usage |-> NULL, output |-> FALSE,
           pre_dispatch_released |-> FALSE, attempt_limit |-> frozen,
           attempts_used |-> k, recovery |-> NULL, expires |-> NULL,
           handoff_input |-> input, dispatch_owner |-> NULL]
  BY DEF NewReceipt
<1> HIDE DEF x, k
<1>3. x \in Receipt
  BY <1>1, <1>2 DEF Receipt, SpendState, Accepted
<1>4. RowOK(x, now)
  <2>1. /\ x.attempt_limit = frozen /\ x.attempts_used = k /\ x.state = "Unknown"
        /\ x.recovery = NULL /\ x.expires = NULL
    BY <1>2
  <2>2. x.pre_dispatch_released = FALSE
    BY <1>2
  <2>3. IF frozen # NULL THEN k <= frozen /\ k > 0 ELSE k = 0
    BY LedgerNullAssumption DEF k, Accepted
  <2> QED BY <2>1, <2>2, <2>3 DEF RowOK, Explicit
<1>5. receipts' = Append(receipts, x)
  BY DEF Accepted, x
<1>6. /\ receipts' \in Seq(Receipt) /\ Len(receipts') = Len(receipts) + 1
      /\ receipts'[Len(receipts) + 1] = x
      /\ \A n \in Rows : receipts'[n] = receipts[n]
  BY <1>3, <1>5, TableTypes
<1>7. Rows' = 1..(Len(receipts) + 1)
  BY <1>6 DEF Rows
<1> QED BY <1>3, <1>4, <1>6, <1>7, TableTypes DEF x

\* Appending an attempt keeps the chains of attempts.
LEMMA AcceptsChain ==
    ASSUME LedgerInv, NEW r, NEW frozen, NEW attempts, NEW input,
           Accepted(r, frozen, attempts, input), Extends(r, frozen, attempts)
    PROVE  ChainInv'
<1> PICK N : N = Len(receipts) + 1
  OBVIOUS
<1> DEFINE x == NewReceipt(r, frozen, attempts, input)
           C == Chain(r.account, r.invocation)
<1>1. /\ Rows' = Rows \cup {N} /\ receipts'[N] = x /\ N \notin Rows
      /\ \A n \in Rows : n < N
      /\ \A n \in Rows : receipts'[n] = receipts[n]
      /\ N \in Nat /\ Rows \subseteq Nat
  BY AcceptedTable, TableTypes
<1>2. x.reservation = r /\ x.attempt_limit = frozen
  BY DEF NewReceipt
<1> HIDE DEF x
<1>0. \A m \in Rows' : m <= N
  BY <1>1
<1>3. \A n, m \in Rows : SameChain(n, m)' <=> SameChain(n, m)
  BY <1>1 DEF SameChain
<1>4. \A n \in Rows : (SameChain(n, N)' => n \in C) /\ (SameChain(N, n)' => n \in C)
  BY <1>1, <1>2 DEF SameChain, Chain
<1>5. \A n \in C : /\ n \in Rows /\ receipts[n].state # "Unknown"
                   /\ receipts[n].reservation.binding = r.binding
                   /\ Explicit(receipts[n]) =>
                         /\ receipts[n].attempt_limit = frozen
                         /\ ~Charged(receipts[n])
  BY DEF Extends, Chain
<1> HIDE DEF C
<1>6. UnknownBlocks'
  <2> SUFFICES ASSUME NEW n \in Rows', NEW m \in Rows', SameChain(n, m)',
                      receipts'[n].state = "Unknown"
               PROVE  m <= n
    BY DEF UnknownBlocks
  <2>1. CASE n = N
    BY <1>0, <2>1
  <2>2. CASE n \in Rows /\ m \in Rows
    BY <1>1, <1>3, <2>2 DEF LedgerInv, ChainInv, UnknownBlocks
  <2>3. CASE n \in Rows /\ m = N
    BY <1>1, <1>4, <1>5, <2>3
  <2> QED BY <1>1, <2>1, <2>2, <2>3
<1>7. OneBinding'
  <2> SUFFICES ASSUME NEW n \in Rows', NEW m \in Rows', SameChain(n, m)'
               PROVE  receipts'[n].reservation.binding = receipts'[m].reservation.binding
    BY DEF OneBinding
  <2>1. CASE n \in Rows /\ m \in Rows
    BY <1>1, <1>3, <2>1 DEF LedgerInv, ChainInv, OneBinding
  <2>2. CASE ~(n \in Rows /\ m \in Rows)
    BY <1>1, <1>2, <1>4, <1>5, <2>2
  <2> QED BY <2>1, <2>2
<1>8. ExplicitSuffix'
  <2> SUFFICES ASSUME NEW n \in Rows', NEW m \in Rows', SameChain(n, m)', n < m,
                      Explicit(receipts'[n])
               PROVE  receipts'[m].attempt_limit = receipts'[n].attempt_limit
    BY DEF ExplicitSuffix
  <2>1. n \in Rows
    BY <1>1
  <2>2. CASE m \in Rows
    BY <1>1, <1>3, <2>1, <2>2 DEF LedgerInv, ChainInv, ExplicitSuffix
  <2>3. CASE m = N
    BY <1>1, <1>2, <1>4, <1>5, <2>1, <2>3
  <2> QED BY <1>1, <2>2, <2>3
<1>9. ChargedIsLatest'
  <2> SUFFICES ASSUME NEW n \in Rows', NEW m \in Rows', SameChain(n, m)',
                      Explicit(receipts'[n]), Charged(receipts'[n])
               PROVE  m <= n
    BY DEF ChargedIsLatest
  <2>1. CASE n = N
    BY <1>0, <2>1
  <2>2. CASE n \in Rows /\ m \in Rows
    BY <1>1, <1>3, <2>2 DEF LedgerInv, ChainInv, ChargedIsLatest
  <2>3. CASE n \in Rows /\ m = N
    BY <1>1, <1>4, <1>5, <2>3
  <2> QED BY <1>1, <2>1, <2>2, <2>3
<1> QED BY <1>6, <1>7, <1>8, <1>9 DEF ChainInv

\* The empty ledger satisfies the invariant.
LEMMA InitInv ==
    SpendInit => LedgerInv
<1> SUFFICES ASSUME SpendInit PROVE LedgerInv
  OBVIOUS
<1>1. Rows = {}
  BY DEF SpendInit, Rows
<1>2. SpendTypeOK
  BY DEF SpendInit, SpendTypeOK
<1> QED
  BY <1>1, <1>2 DEF LedgerInv, ChainInv, UnknownBlocks, OneBinding, ExplicitSuffix,
     ChargedIsLatest

\* No balance goes below zero or leaves the naturals.
LEMMA UsedTypes ==
    ASSUME LedgerInv, PureWrite \/ Accepts \/ \E n \in Rows : GivesBack(n)
    PROVE  used' \in [Accounts -> Nat]
<1>1. used \in [Accounts -> Nat]
  BY DEF LedgerInv, SpendTypeOK
<1>2. CASE PureWrite
  BY <1>1, <1>2 DEF PureWrite
<1>3. CASE Accepts
  <2>1. PICK r, frozen, attempts, input : Accepted(r, frozen, attempts, input)
    BY <1>3, AcceptsExtends
  <2>2. r.account \in Accounts
    BY <2>1 DEF Accepted, Reservation
  <2>3. used' = [used EXCEPT ![r.account] = @ + 1]
    BY <2>1 DEF Accepted
  <2> QED BY <1>1, <2>2, <2>3
<1>4. CASE \E n \in Rows : GivesBack(n)
  <2>1. PICK n \in Rows : GivesBack(n)
    BY <1>4
  <2>2. receipts[n].reservation.account \in Accounts
    BY TableTypes DEF Receipt, Reservation
  <2>3. /\ used[receipts[n].reservation.account] > 0
        /\ used' = [used EXCEPT ![receipts[n].reservation.account] = @ - 1]
    BY <2>1 DEF GivesBack
  <2> QED BY <1>1, <2>2, <2>3
<1> QED BY <1>2, <1>3, <1>4

\* Every step keeps the ledger's invariant.
LEMMA InvStep ==
    ASSUME LedgerInv, [SpendNext]_spendVars
    PROVE  LedgerInv'
<1>1. CASE (PureWrite \/ \E n \in Rows : GivesBack(n)) /\ UNCHANGED <<policy, now>>
  <2>1. Rewrites
    BY <1>1, RewritesSteps
  <2>2. Rows' = Rows
    BY <2>1, TableTypes DEF Rewrites, Rows
  <2>3. \A n \in Rows : RowOK(receipts'[n], now)
    BY <2>1 DEF Rewrites, RowStep
  <2>4. SpendTypeOK'
    BY <1>1, <2>1, UsedTypes DEF Rewrites, LedgerInv, SpendTypeOK
  <2> QED BY <1>1, <2>1, <2>2, <2>3, <2>4, RewritesChain DEF LedgerInv, RowOK, Explicit
<1>2. CASE Accepts /\ UNCHANGED <<policy, now>>
  <2>1. PICK r, frozen, attempts, input :
           Accepted(r, frozen, attempts, input) /\ Extends(r, frozen, attempts)
    BY <1>2, AcceptsExtends
  <2>2. ChainInv'
    BY <2>1, AcceptsChain
  <2>3. \A n \in Rows' : RowOK(receipts'[n], now)
    BY <2>1, AcceptedTable, TableTypes
  <2>4. SpendTypeOK'
    BY <1>2, <2>1, UsedTypes, AcceptedTable DEF LedgerInv, SpendTypeOK
  <2> QED BY <1>2, <2>2, <2>3, <2>4 DEF LedgerInv, RowOK, Explicit
<1>3. CASE Passes
  <2>1. receipts' = receipts /\ used' = used /\ now' \in Nat /\ now <= now'
    BY <1>3 DEF Passes, ledgerVars
  <2>2. SpendTypeOK'
    BY <1>3, <2>1 DEF Passes, LedgerInv, SpendTypeOK
  <2>3. Rows' = Rows /\ ChainInv'
    BY <2>1 DEF Rows, LedgerInv, ChainInv, UnknownBlocks, OneBinding, ExplicitSuffix,
       ChargedIsLatest, SameChain
  <2>4. ASSUME NEW n \in Rows PROVE RowOK(receipts[n], now')
    <3>1. /\ RowOK(receipts[n], now) /\ now \in Nat
          /\ receipts[n].expires \in Nat \cup {NULL}
      BY TableTypes, RowTypes
    <3>2. receipts[n].expires # NULL => receipts[n].expires <= now' + Retention
      BY <2>1, <3>1, LedgerConfigAssumption DEF RowOK
    <3> QED BY <3>1, <3>2 DEF RowOK
  <2> QED BY <2>1, <2>2, <2>3, <2>4 DEF LedgerInv, RowOK, Explicit
<1>4. CASE UNCHANGED spendVars
  <2>1. Passes
    BY <1>4 DEF spendVars, ledgerVars, Passes, LedgerInv, SpendTypeOK
  <2> QED BY <1>3, <2>1
<1> QED BY <1>1, <1>2, <1>3, <1>4, StepKinds

\* The ledger's invariant is inductive: types, the chains of attempts and
\* what every receipt row must satisfy.
THEOREM LedgerInvariant ==
    SpendSpec => []LedgerInv
BY InitInv, InvStep, PTL DEF SpendSpec

\* The ledger's tables keep their types.
THEOREM LedgerTypesCorrect ==
    SpendSpec => []SpendTypeOK
<1>1. LedgerInv => SpendTypeOK
  BY DEF LedgerInv
<1> QED BY <1>1, LedgerInvariant, PTL

\* An attempt whose charge is unknown is the latest of its invocation, for
\* any number of callers, accounts and invocations.
THEOREM UnknownAttemptsBlock ==
    SpendSpec => []UnknownBlocks
<1>1. LedgerInv => UnknownBlocks
  BY DEF LedgerInv, ChainInv
<1> QED BY <1>1, LedgerInvariant, PTL

\* An explicit invocation is paid for at most once, under one binding and
\* one ceiling.
THEOREM ExplicitChargedOnce ==
    SpendSpec => []ChargedOnce
<1>1. ASSUME LedgerInv PROVE ChargedOnce
  <2> SUFFICES ASSUME NEW n \in Rows, NEW m \in Rows, SameChain(n, m)
               PROVE  /\ receipts[n].reservation.binding = receipts[m].reservation.binding
                      /\ Explicit(receipts[n]) /\ Explicit(receipts[m]) =>
                            /\ receipts[n].attempt_limit = receipts[m].attempt_limit
                            /\ Charged(receipts[n]) /\ Charged(receipts[m]) => n = m
    BY DEF ChargedOnce
  <2>1. n \in Nat /\ m \in Nat /\ SameChain(m, n)
    BY <1>1, TableTypes DEF SameChain
  <2>2. receipts[n].reservation.binding = receipts[m].reservation.binding
    BY <1>1 DEF LedgerInv, ChainInv, OneBinding
  <2>3. ASSUME Explicit(receipts[n]), Explicit(receipts[m])
        PROVE  receipts[n].attempt_limit = receipts[m].attempt_limit
    <3>1. n = m \/ n < m \/ m < n
      BY <2>1
    <3> QED BY <1>1, <2>1, <2>3, <3>1 DEF LedgerInv, ChainInv, ExplicitSuffix
  <2>4. ASSUME Explicit(receipts[n]), Explicit(receipts[m]),
               Charged(receipts[n]), Charged(receipts[m])
        PROVE  n = m
    <3>1. n <= m /\ m <= n
      BY <1>1, <2>1, <2>4 DEF LedgerInv, ChainInv, ChargedIsLatest
    <3> QED BY <2>1, <3>1
  <2> QED BY <2>2, <2>3, <2>4
<1> QED BY <1>1, LedgerInvariant, PTL

\* Every saved answer lies where discard_recovery looks and has a deadline
\* within the retention.
THEOREM SavedAnswersFindable ==
    SpendSpec => []AnswersFindable
<1>1. ASSUME LedgerInv, NEW n \in Rows, receipts[n].recovery # NULL
      PROVE  /\ Explicit(receipts[n]) /\ receipts[n].output
             /\ receipts[n].state # "Released"
             /\ \A m \in Rows : SameChain(n, m) => m <= n
  <2>1. /\ Explicit(receipts[n]) /\ receipts[n].output
        /\ receipts[n].state # "Released"
    BY <1>1 DEF LedgerInv, RowOK
  <2> QED BY <1>1, <2>1 DEF LedgerInv, ChainInv, ChargedIsLatest, Charged
<1>2. ASSUME LedgerInv, NEW n \in Rows
      PROVE  /\ receipts[n].recovery = NULL <=> receipts[n].expires = NULL
             /\ receipts[n].expires # NULL => receipts[n].expires <= now + Retention
  BY <1>2 DEF LedgerInv, RowOK
<1>3. LedgerInv => AnswersFindable
  BY <1>1, <1>2 DEF AnswersFindable
<1> QED BY <1>3, LedgerInvariant, PTL

\* What one step may do to a row.
LEMMA StepRows ==
    ASSUME LedgerInv, [SpendNext]_spendVars, NEW n \in Rows
    PROVE  EvidenceStep(receipts[n], receipts'[n]) /\ ShrinkStep(receipts[n], receipts'[n])
<1>1. PureStep(receipts[n], receipts[n])
  BY TableTypes, SamePure
<1>2. CASE PureWrite \/ \E m \in Rows : GivesBack(m)
  BY <1>2, RewritesSteps DEF Rewrites, RowStep
<1>3. CASE receipts'[n] = receipts[n]
  BY <1>1, <1>3 DEF PureStep, RowStep
<1>4. CASE Accepts
  <2>1. receipts'[n] = receipts[n]
    BY <1>4, AcceptsExtends, AcceptedTable
  <2> QED BY <1>3, <2>1
<1>5. CASE Passes \/ UNCHANGED spendVars
  BY <1>3, <1>5 DEF Passes, ledgerVars, spendVars
<1> QED BY <1>2, <1>4, <1>5, StepKinds

\* Evidence about a resolved attempt is final, a dispatch owner is never
\* replaced and completion evidence is never withdrawn.
THEOREM EvidenceIsFinal ==
    SpendSpec => EvidenceFinal
<1> DEFINE Step == \A n \in Rows : LET a == receipts[n] b == receipts'[n] IN
                     /\ a.state # "Unknown" =>
                           /\ b.state = a.state /\ b.usage = a.usage /\ b.output = a.output
                           /\ b.attempts_used = a.attempts_used
                     /\ a.dispatch_owner # NULL => b.dispatch_owner = a.dispatch_owner
                     /\ a.output => b.output /\ b.state # "Released"
<1>1. ASSUME LedgerInv, [SpendNext]_spendVars PROVE Step
  BY <1>1, StepRows DEF EvidenceStep
<1>2. SpendSpec => [][Step]_spendVars
  <2> HIDE DEF Step
  <2> QED BY <1>1, LedgerInvariant, PTL DEF SpendSpec
<1> QED BY <1>2 DEF EvidenceFinal

\* A completed attempt's answer is never replaced, revived or extended.
THEOREM AnswersOnlyShrink ==
    SpendSpec => AnswerOnlyShrinks
<1> DEFINE Step == \A n \in Rows : LET a == receipts[n] b == receipts'[n] IN
                     a.output => \/ b.recovery = NULL
                                 \/ b.recovery = a.recovery /\ b.expires <= a.expires
<1>1. ASSUME LedgerInv, [SpendNext]_spendVars PROVE Step
  BY <1>1, StepRows DEF ShrinkStep
<1>2. SpendSpec => [][Step]_spendVars
  <2> HIDE DEF Step
  <2> QED BY <1>1, LedgerInvariant, PTL DEF SpendSpec
<1> QED BY <1>2 DEF AnswerOnlyShrinks

----------------------------------------------------------------------------
(* Counting.                                                               *)

ChargedRows(a) ==
    {n \in Rows : receipts[n].reservation.account = a /\ Charged(receipts[n])}

\* Any set of receipts can be counted.
LEMMA FiniteRows ==
    ASSUME LedgerInv, NEW S, S \subseteq Rows
    PROVE  IsFiniteSet(S) /\ Cardinality(S) \in Nat
<1>1. IsFiniteSet(1..Len(receipts))
  BY TableTypes, FS_Interval
<1> QED BY <1>1, TableTypes, FS_Subset, FS_CardinalityType

\* Every step changes a balance by exactly the receipts whose charge it changed.
LEMMA BalancedStep ==
    ASSUME LedgerInv, Balanced, [SpendNext]_spendVars
    PROVE  Balanced'
<1> SUFFICES ASSUME NEW a \in Accounts
             PROVE  used'[a] = Cardinality(ChargedRows(a)')
  BY DEF Balanced, ChargedRows
<1>1. used \in [Accounts -> Nat] /\ used[a] = Cardinality(ChargedRows(a))
  BY DEF LedgerInv, SpendTypeOK, Balanced, ChargedRows
<1>2. IsFiniteSet(ChargedRows(a)) /\ ChargedRows(a) \subseteq Rows
  BY FiniteRows DEF ChargedRows
<1>3. CASE PureWrite
  <2>1. Rows' = Rows
    BY <1>3, TableTypes DEF PureWrite, Rows
  <2>2. ChargedRows(a)' = ChargedRows(a)
    BY <1>3, <2>1 DEF ChargedRows, PureWrite, PureStep, RowStep
  <2> QED BY <1>1, <1>3, <2>2 DEF PureWrite
<1>4. ASSUME NEW n \in Rows, GivesBack(n)
      PROVE  used'[a] = Cardinality(ChargedRows(a)')
  <2>1. /\ Rows' = Rows
        /\ \A m \in Rows : m # n => receipts'[m] = receipts[m]
        /\ receipts'[n].reservation = receipts[n].reservation
        /\ ~Charged(receipts'[n]) /\ Charged(receipts[n])
        /\ used' = [used EXCEPT ![receipts[n].reservation.account] = @ - 1]
    BY <1>4, TableTypes DEF GivesBack, RowStep, Charged, Rows
  <2>2. CASE receipts[n].reservation.account = a
    <3>1. ChargedRows(a)' = ChargedRows(a) \ {n} /\ n \in ChargedRows(a)
      BY <2>1, <2>2 DEF ChargedRows
    <3>2. Cardinality(ChargedRows(a)') = Cardinality(ChargedRows(a)) - 1
      BY <1>2, <3>1, FS_RemoveElement
    <3> QED BY <1>1, <2>1, <2>2, <3>2
  <2>3. CASE receipts[n].reservation.account # a
    <3>1. ChargedRows(a)' = ChargedRows(a)
      BY <2>1, <2>3 DEF ChargedRows
    <3> QED BY <1>1, <2>1, <2>3, <3>1
  <2> QED BY <2>2, <2>3
<1>5. CASE Accepts
  <2>1. PICK r, frozen, attempts, input : Accepted(r, frozen, attempts, input)
    BY <1>5, AcceptsExtends
  <2> PICK N : N = Len(receipts) + 1
    OBVIOUS
  <2> DEFINE x == NewReceipt(r, frozen, attempts, input)
  <2>2. /\ Rows' = Rows \cup {N} /\ receipts'[N] = x /\ N \notin Rows
        /\ \A n \in Rows : receipts'[n] = receipts[n]
    BY <2>1, AcceptedTable
  <2>3. x.reservation = r /\ Charged(x) /\ used' = [used EXCEPT ![r.account] = @ + 1]
    BY <2>1 DEF NewReceipt, Charged, Accepted
  <2> HIDE DEF x
  <2>4. CASE r.account = a
    <3>1. ChargedRows(a)' = ChargedRows(a) \cup {N} /\ N \notin ChargedRows(a)
      BY <2>2, <2>3, <2>4 DEF ChargedRows
    <3>2. Cardinality(ChargedRows(a)') = Cardinality(ChargedRows(a)) + 1
      BY <1>2, <3>1, FS_AddElement
    <3> QED BY <1>1, <2>3, <2>4, <3>2
  <2>5. CASE r.account # a
    <3>1. ChargedRows(a)' = ChargedRows(a)
      BY <2>2, <2>3, <2>5 DEF ChargedRows
    <3> QED BY <1>1, <2>3, <2>5, <3>1
  <2> QED BY <2>4, <2>5
<1>6. CASE Passes \/ UNCHANGED spendVars
  BY <1>1, <1>6 DEF Passes, ledgerVars, spendVars, ChargedRows, Rows
<1> QED BY <1>3, <1>4, <1>5, <1>6, StepKinds

\* The books balance: an account's balance is the number of its receipts
\* that are or may have been charged.
THEOREM BooksBalance ==
    SpendSpec => []Balanced
<1>1. SpendInit => Balanced
  <2> SUFFICES ASSUME SpendInit, NEW a \in Accounts
               PROVE  used[a] = Cardinality(ChargedRows(a))
    BY DEF Balanced, ChargedRows
  <2>1. ChargedRows(a) = {} /\ used[a] = 0
    BY DEF SpendInit, ChargedRows, Rows
  <2> QED BY <2>1, FS_EmptySet
<1>2. LedgerInv /\ Balanced /\ [SpendNext]_spendVars => Balanced'
  BY BalancedStep
<1> QED BY <1>1, <1>2, LedgerInvariant, PTL DEF SpendSpec

\* After every step an attempt's counter counts the attempts of its chain that were not given back.
LEMMA CountedStep ==
    ASSUME LedgerInv, AttemptsCounted, [SpendNext]_spendVars, NEW n \in Rows',
           Explicit(receipts'[n])
    PROVE  receipts'[n].attempts_used = Cardinality(SentUpTo(n)')
<1>1. \A m \in Rows : Explicit(receipts[m]) =>
         receipts[m].attempts_used = Cardinality(SentUpTo(m))
  BY DEF AttemptsCounted
<1>2. \A m \in Rows : 1..m \subseteq Rows /\ m \in Nat /\ m \in 1..m
  BY TableTypes
<1>3. \A m \in Rows : IsFiniteSet(SentUpTo(m)) /\ Cardinality(SentUpTo(m)) \in Nat
  <2> TAKE m \in Rows
  <2>1. SentUpTo(m) \subseteq Rows
    BY <1>2 DEF SentUpTo
  <2> QED BY <2>1, FiniteRows
<1>4. CASE PureWrite
  <2>1. Rows' = Rows
    BY <1>4, TableTypes DEF PureWrite, Rows
  <2>2. \A m \in Rows :
           /\ receipts'[m].reservation = receipts[m].reservation
           /\ receipts'[m].attempt_limit = receipts[m].attempt_limit
           /\ receipts'[m].attempts_used = receipts[m].attempts_used
           /\ receipts'[m].pre_dispatch_released = receipts[m].pre_dispatch_released
    BY <1>4 DEF PureWrite, PureStep, RowStep
  <2>3. SentUpTo(n)' = SentUpTo(n)
    BY <1>2, <2>1, <2>2 DEF SentUpTo, SameChain, Explicit
  <2> QED BY <1>1, <2>1, <2>2, <2>3 DEF Explicit
<1>5. ASSUME NEW k \in Rows, GivesBack(k)
      PROVE  receipts'[n].attempts_used = Cardinality(SentUpTo(n)')
  <2>1. /\ Rows' = Rows
        /\ \A m \in Rows : m # k => receipts'[m] = receipts[m]
        /\ receipts'[k].reservation = receipts[k].reservation
        /\ receipts'[k].attempt_limit = receipts[k].attempt_limit
        /\ receipts[k].state = "Unknown"
    BY <1>5, TableTypes DEF GivesBack, RowStep, Rows
  <2>2. ~receipts[k].pre_dispatch_released
    BY <2>1, TableTypes DEF RowOK
  <2>3. \A i, j \in Rows : SameChain(i, j)' <=> SameChain(i, j)
    BY <2>1 DEF SameChain
  <2>4. CASE n # k
    <3>1. k \notin SentUpTo(n) /\ ~(k \in 1..n /\ SameChain(n, k))
      <4>1. ASSUME SameChain(n, k), k \in 1..n PROVE FALSE
        <5>1. SameChain(k, n)
          BY <4>1 DEF SameChain
        <5>2. n <= k
          BY <2>1, <5>1 DEF LedgerInv, ChainInv, UnknownBlocks
        <5> QED BY <1>2, <2>1, <2>4, <4>1, <5>2
      <4> QED BY <4>1 DEF SentUpTo
    <3>2. SentUpTo(n)' = SentUpTo(n)
      BY <1>2, <2>1, <2>3, <3>1 DEF SentUpTo
    <3> QED BY <1>1, <2>1, <2>4, <3>2
  <2>5. CASE n = k /\ ~receipts'[k].pre_dispatch_released
    <3>1. SentUpTo(n)' = SentUpTo(n)
      BY <1>2, <2>1, <2>2, <2>3, <2>5 DEF SentUpTo, Explicit
    <3>2. receipts'[n].attempts_used = receipts[n].attempts_used
      BY <1>5, <2>5 DEF GivesBack
    <3> QED BY <1>1, <2>1, <2>5, <3>1, <3>2 DEF Explicit
  <2>6. CASE n = k /\ receipts'[k].pre_dispatch_released
    <3>0. Explicit(receipts[k])
      BY <2>1, <2>6 DEF Explicit
    <3>1. SentUpTo(n)' = SentUpTo(n) \ {k}
      BY <1>2, <2>1, <2>3, <2>6 DEF SentUpTo
    <3>2. k \in SentUpTo(n)
      BY <1>2, <2>2, <2>6, <3>0 DEF SentUpTo, SameChain
    <3>3. receipts'[n].attempts_used = receipts[n].attempts_used - 1
      BY <1>5, <2>6, <3>0 DEF GivesBack
    <3>4. Cardinality(SentUpTo(n)') = Cardinality(SentUpTo(n)) - 1
      BY <1>3, <2>6, <3>1, <3>2, FS_RemoveElement
    <3> QED BY <1>1, <2>6, <3>0, <3>3, <3>4
  <2> QED BY <2>4, <2>5, <2>6
<1>6. CASE Accepts
  <2>1. PICK r, frozen, attempts, input :
           Accepted(r, frozen, attempts, input) /\ Extends(r, frozen, attempts)
    BY <1>6, AcceptsExtends
  <2> PICK N : N = Len(receipts) + 1
    OBVIOUS
  <2> DEFINE x == NewReceipt(r, frozen, attempts, input)
             C == Chain(r.account, r.invocation)
  <2>2. /\ Rows' = Rows \cup {N} /\ receipts'[N] = x /\ N \notin Rows
        /\ \A m \in Rows : receipts'[m] = receipts[m]
        /\ N \in Nat /\ 1..N = Rows \cup {N}
    BY <2>1, AcceptedTable, TableTypes
  <2>3. /\ x.reservation = r /\ x.attempt_limit = frozen
        /\ x.attempts_used = IF frozen = NULL THEN 0 ELSE attempts + 1
    BY DEF NewReceipt
  <2>4. x.pre_dispatch_released = FALSE
    BY DEF NewReceipt
  <2> HIDE DEF x
  <2>5. CASE n \in Rows
    <3>1. SentUpTo(n)' = SentUpTo(n)
      BY <1>2, <2>2, <2>5 DEF SentUpTo, SameChain
    <3> QED BY <1>1, <2>2, <2>5, <3>1
  <2>6. CASE n = N
    <3> DEFINE S == {m \in C : Explicit(receipts[m]) /\ ~receipts[m].pre_dispatch_released}
    <3>1. Explicit(x)
      BY <2>2, <2>6
    <3>2. x.attempts_used = attempts + 1
      BY <2>3, <3>1 DEF Explicit
    <3>3. \A m \in Rows : SameChain(N, m)' <=> m \in C
      BY <2>2, <2>3 DEF SameChain, Chain
    <3>4. SameChain(N, N)'
      BY DEF SameChain
    <3>5. SentUpTo(N)' = S \cup {N}
      <4>1. C \subseteq Rows
        BY DEF Chain
      <4> HIDE DEF C
      <4> QED BY <2>2, <2>4, <3>1, <3>3, <3>4, <4>1 DEF SentUpTo
    <3>6. S \subseteq Rows
      BY DEF Chain
    <3>7. IsFiniteSet(S) /\ N \notin S
      BY <2>2, <3>6, FiniteRows
    <3>8. Cardinality(S) = attempts
      <4>1. CASE attempts = 0 /\ \A m \in C : ~Explicit(receipts[m])
        <5>1. S = {}
          BY <4>1
        <5> QED BY <4>1, <5>1, FS_EmptySet
      <4>2. ASSUME NEW p \in C, \A m \in C : m <= p, Explicit(receipts[p]),
                   attempts = receipts[p].attempts_used
            PROVE  Cardinality(S) = attempts
        <5>1. p \in Rows /\ C \subseteq Rows
          BY DEF Chain
        <5>2. \A m \in Rows : SameChain(p, m) <=> m \in C
          BY DEF Chain, SameChain
        <5> HIDE DEF C
        <5>3. \A m \in C : m \in 1..p
          BY <1>2, <4>2, <5>1, TableTypes
        <5>4. S = SentUpTo(p)
          BY <1>2, <5>1, <5>2, <5>3 DEF SentUpTo
        <5> QED BY <1>1, <4>2, <5>1, <5>4
      <4> QED BY <2>1, <4>1, <4>2 DEF Extends
    <3> HIDE DEF S
    <3>9. Cardinality(S \cup {N}) = Cardinality(S) + 1
      BY <3>7, FS_AddElement
    <3> QED BY <2>2, <2>6, <3>2, <3>5, <3>8, <3>9
  <2> QED BY <2>2, <2>5, <2>6
<1>7. CASE Passes \/ UNCHANGED spendVars
  <2>1. receipts' = receipts
    BY <1>7 DEF Passes, ledgerVars, spendVars
  <2>2. Rows' = Rows /\ SentUpTo(n)' = SentUpTo(n)
    BY <2>1 DEF Rows, SentUpTo, SameChain
  <2> QED BY <1>1, <2>1, <2>2
<1> QED BY <1>4, <1>5, <1>6, <1>7, StepKinds

\* The carried counter of an explicit invocation is the number of attempts
\* that were not given back, and stays within the frozen ceiling.
THEOREM AttemptsAreCounted ==
    SpendSpec => []AttemptsCounted
<1>1. SpendInit => AttemptsCounted
  BY DEF SpendInit, AttemptsCounted, Rows
<1>2. ASSUME LedgerInv, AttemptsCounted, [SpendNext]_spendVars PROVE AttemptsCounted'
  <2>1. LedgerInv'
    BY <1>2, InvStep
  <2>2. \A n \in Rows' : Explicit(receipts'[n]) =>
           /\ receipts'[n].attempts_used = Cardinality(SentUpTo(n)')
           /\ receipts'[n].attempts_used <= receipts'[n].attempt_limit
    BY <1>2, <2>1, CountedStep DEF LedgerInv, RowOK
  <2> QED BY <2>2 DEF AttemptsCounted, Explicit
<1> QED BY <1>1, <1>2, LedgerInvariant, PTL DEF SpendSpec
=============================================================================
