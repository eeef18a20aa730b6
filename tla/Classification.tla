--------------------------- MODULE Classification ---------------------------
(***************************************************************************)
(* The typed classifier of symbiotic-model: a request is a sequence of     *)
(* named questions about a state, a provider answers each one with         *)
(* probabilities, and the caller decides from the answers.                 *)
(*                                                                         *)
(* Probabilities are exact fractions.  A number reported by a provider is  *)
(* an integer in units of 1/Scale; a distribution is a sequence of weights *)
(* over one denominator, so rescaling by the total is exact and every      *)
(* comparison of the code is one between integers.  The tolerances of the  *)
(* code are the constants Tie, Eps, SumTol and ScoreTol in the same units. *)
(* Rounding of the machine's floating point numbers is left out.           *)
(***************************************************************************)
EXTENDS Integers, Sequences, FiniteSets, SequencesExt

CONSTANTS
    Requests,     \* the requests callers make: [state, questions]
    Answering,    \* those a provider replies to; the others are not served
    Values,       \* the numbers a reply may carry, in units of 1/Scale
    Strangers,    \* keys a reply may carry that no question asked for
    Minimums,     \* the minimum probabilities callers decide with
    Scale, Tie, Eps, SumTol, ScoreTol,
    MaxOptions, MaxLevels, PairBudget, TotalBudget, MaxBody,
    Unnamed,      \* the empty identifier
    NotNumber,    \* a reply's value that is not a finite number
    Absent        \* a field a reply leaves out, an option not given

ASSUME TolerancesOrdered ==
    /\ {Scale, Tie, Eps, SumTol, ScoreTol} \subseteq Nat
    /\ Tie <= Eps /\ Eps <= SumTol /\ SumTol < Scale

VARIABLE call     \* the call in progress and what became of it

Providers == {"jev", "chat", "static"}

(***************************************************************************)
(* Helpers: what the code's iterator chains compute.                       *)
(***************************************************************************)
Total(ws) == FoldLeft(LAMBDA sum, w : sum + w, 0, ws)

Distance(a, b) == IF a < b THEN b - a ELSE a - b

Distinct(s) == \A i, j \in DOMAIN s : s[i] = s[j] => i = j

(***************************************************************************)
(* The request's shape: at least one question, named apart; a choice names *)
(* its options apart; a score has two levels or more.                      *)
(***************************************************************************)
ValidQuestion(q) ==
    /\ q.id # Unnamed
    /\ q.kind = "choice" =>
         /\ q.options # <<>>
         /\ Unnamed \notin Range(q.options)
         /\ Distinct(q.options)
    /\ q.kind = "score" => q.levels >= 2

Validate(request) ==
    /\ request.questions # <<>>
    /\ \A i \in DOMAIN request.questions : ValidQuestion(request.questions[i])
    /\ Distinct([i \in DOMAIN request.questions |-> request.questions[i].id])

(***************************************************************************)
(* Jev's bounds, checked before the request is encoded.  The two token     *)
(* budgets are spent question by question: a question is counted against   *)
(* what is left of the smaller one, and the count stops at that bound.     *)
(***************************************************************************)
WithinCounts(q) ==
    /\ q.kind = "choice" => Len(q.options) <= MaxOptions
    /\ q.kind = "score" => q.levels <= MaxLevels

\* A budget that only knows the pair bound forgets the questions before.
RemainingPair(state, all) == PairBudget - state

Remaining(state, all) ==
    LET pair == PairBudget - state
        rest == TotalBudget - state - all
    IN  IF pair < rest THEN pair ELSE rest

\* The tokens of all questions, or Absent once one exceeded what was left.
SpendTokens(state, questions) ==
    FoldLeft(LAMBDA all, q :
               IF all = Absent \/ q.bytes > Remaining(state, all)
               THEN Absent ELSE all + q.bytes,
             0, questions)

CheckLimits(request) ==
    /\ \A i \in DOMAIN request.questions : WithinCounts(request.questions[i])
    /\ request.state <= PairBudget
    /\ SpendTokens(request.state, request.questions) # Absent

\* The whole body: the state, and each question under its name.
BodyBytes(request) ==
    request.state + Total([i \in DOMAIN request.questions |->
                              request.questions[i].bytes + 1])

\* The first thing that is wrong with the request, or "none".
JevClassifyBody(request) ==
    IF request.questions = <<>> THEN "shape"
    ELSE IF ~ CheckLimits(request) THEN "limits"
    ELSE IF BodyBytes(request) > MaxBody THEN "body"
    ELSE IF ~ Validate(request) THEN "shape"
    ELSE "none"

Refusal(provider, request) ==
    IF provider = "jev" THEN JevClassifyBody(request)
    ELSE IF Validate(request) THEN "none" ELSE "shape"

(***************************************************************************)
(* Reading a distribution: each number a probability, exactly the keys     *)
(* asked for, in request order, rescaled to sum to one.  Absent is the     *)
(* provider error of the code.                                             *)
(***************************************************************************)
CheckProbability(v) ==
    IF v # NotNumber /\ v \in -Eps .. Scale + Eps
    THEN IF v < 0 THEN 0 ELSE IF v > Scale THEN Scale ELSE v
    ELSE Absent

\* A distribution that is passed on as the provider reported it.
NormaliseDistributionNever(ws, maxError) ==
    IF \/ Total(ws) <= Eps
       \/ maxError # Absent /\ Distance(Total(ws), Scale) > maxError
    THEN Absent
    ELSE [ws |-> ws, den |-> Scale]

NormaliseDistribution(ws, maxError) ==
    IF \/ Total(ws) <= Eps
       \/ maxError # Absent /\ Distance(Total(ws), Scale) > maxError
    THEN Absent
    ELSE [ws |-> ws, den |-> Total(ws)]

\* choice_probabilities and score_probabilities: keys is the options in
\* request order, or the levels from 0.
Probabilities(keys, reported, maxError) ==
    IF \/ reported = Absent
       \/ DOMAIN reported # Range(keys)
       \/ \E k \in DOMAIN reported : CheckProbability(reported[k]) = Absent
    THEN Absent
    ELSE NormaliseDistribution(
             [i \in DOMAIN keys |-> CheckProbability(reported[keys[i]])],
             maxError)

LevelKeys(q) == [i \in 1 .. q.levels |-> i - 1]

Keys(q) == IF q.kind = "choice" THEN q.options ELSE LevelKeys(q)

MostProbable(ws) ==
    FoldLeft(LAMBDA best, i :
               IF best = 0 THEN i ELSE IF ws[i] > ws[best] THEN i ELSE best,
             0, [i \in DOMAIN ws |-> i])

ExpectedLevel(ws) == Total([i \in DOMAIN ws |-> (i - 1) * ws[i]])

(***************************************************************************)
(* The contract every provider's answers are held to before they leave it. *)
(***************************************************************************)
InRange(w, den) == w # NotNumber /\ 0 <= w /\ w <= den

SumsToOne(dist) == Distance(Total(dist.ws), dist.den) * Scale <= Eps * dist.den

ValidDistribution(q, dist) ==
    /\ Len(dist.ws) = Len(Keys(q))
    /\ \A i \in DOMAIN dist.ws : InRange(dist.ws[i], dist.den)
    /\ SumsToOne(dist)

AmongMost(q, a) ==
    \E i \in DOMAIN q.options :
        /\ q.options[i] = a.chosen
        /\ \A j \in DOMAIN a.dist.ws :
             a.dist.ws[i] * Scale >= a.dist.ws[j] * Scale - Tie * a.dist.den

ValidAnswer(q, a) ==
    /\ a.id = q.id
    /\ a.kind = q.kind
    /\ q.kind = "noul" => InRange(a.probability, Scale)
    /\ q.kind # "noul" => ValidDistribution(q, a.dist)
    /\ q.kind = "choice" => a.keys = q.options /\ AmongMost(q, a)
    /\ q.kind = "score" =>
         /\ a.value # NotNumber
         /\ Distance(a.value, ExpectedLevel(a.dist.ws)) * Scale <= Eps * a.dist.den
    /\ q.kind # "noul" /\ a.confidence # Absent => InRange(a.confidence, Scale)

ValidateAnswers(request, answers) ==
    /\ Len(answers) = Len(request.questions)
    /\ \A i \in DOMAIN answers : ValidAnswer(request.questions[i], answers[i])

(***************************************************************************)
(* The answer a provider's reply to one question is read as.               *)
(***************************************************************************)
NoulAnswer(q, raw) ==
    IF CheckProbability(raw.number) = Absent THEN Absent
    ELSE [id |-> q.id, kind |-> "noul",
          probability |-> CheckProbability(raw.number)]

ChoiceAnswer(q, dist, chosen, confidence) ==
    [id |-> q.id, kind |-> "choice", keys |-> q.options, dist |-> dist,
     chosen |-> chosen, confidence |-> confidence]

ScoreAnswer(q, dist, confidence) ==
    [id |-> q.id, kind |-> "score", dist |-> dist,
     value |-> ExpectedLevel(dist.ws), confidence |-> confidence]

\* Jev reports its own pick or score beside the distribution; a score half
\* a level away from the distribution's mean is an inconsistent answer.
JevAnswer(q, raw) ==
    LET dist == Probabilities(Keys(q), raw.map, SumTol)
        confidence == IF raw.confidence = Absent THEN Absent
                      ELSE CheckProbability(raw.confidence)
    IN  IF \/ raw.kind # q.kind
           \/ raw.confidence # Absent /\ confidence = Absent THEN Absent
        ELSE IF q.kind = "noul" THEN NoulAnswer(q, raw)
        ELSE IF dist = Absent THEN Absent
        ELSE IF q.kind = "choice" THEN
               IF raw.choice \in Range(q.options)
               THEN ChoiceAnswer(q, dist, raw.choice, confidence) ELSE Absent
        ELSE IF /\ raw.number # NotNumber
                /\ raw.number \in 0 .. (q.levels - 1) * Scale
                /\ Distance(raw.number * dist.den,
                            ExpectedLevel(dist.ws) * Scale) <= ScoreTol * dist.den
        THEN ScoreAnswer(q, dist, confidence) ELSE Absent

\* A chat model states numbers only: any positive sum is rescaled, and the
\* first of the most probable options is the chosen one.
ChatAnswer(q, raw) ==
    LET dist == Probabilities(Keys(q), raw.map, Absent)
    IN  IF q.kind = "noul" THEN NoulAnswer(q, raw)
        ELSE IF dist = Absent THEN Absent
        ELSE IF q.kind = "choice" THEN
               ChoiceAnswer(q, dist, q.options[MostProbable(dist.ws)], Absent)
        ELSE ScoreAnswer(q, dist, Absent)

\* A static provider's script is already typed: its numbers are as given,
\* over the keys and in the order of the script.
StaticAnswer(q, raw) ==
    LET dist == [ws |-> [i \in DOMAIN raw.keys |-> raw.map[raw.keys[i]]],
                 den |-> Scale]
    IN  CASE raw.kind = "noul" ->
               [id |-> q.id, kind |-> "noul", probability |-> raw.number]
          [] raw.kind = "choice" ->
               [id |-> q.id, kind |-> "choice", keys |-> raw.keys, dist |-> dist,
                chosen |-> raw.choice, confidence |-> raw.confidence]
          [] OTHER ->
               [id |-> q.id, kind |-> "score", value |-> raw.number,
                dist |-> dist, confidence |-> raw.confidence]

ReadAnswer(provider, q, raw) ==
    IF raw = Absent THEN Absent
    ELSE CASE provider = "jev"  -> JevAnswer(q, raw)
           [] provider = "chat" -> ChatAnswer(q, raw)
           [] OTHER             -> StaticAnswer(q, raw)

\* The answers in request order, or Absent: an answer is missing or
\* malformed, one nobody asked for is there (a static script may hold
\* more), or the answers break the contract.
ParseAnswers(provider, request, raws, extra) ==
    LET answers == [i \in DOMAIN request.questions |->
                       ReadAnswer(provider, request.questions[i], raws[i])]
    IN  IF \/ Absent \in Range(answers)
           \/ extra /\ provider # "static"
           \/ ~ ValidateAnswers(request, answers)
        THEN Absent ELSE answers

(***************************************************************************)
(* The caller's decision on a choice: the most probable option other than  *)
(* the abstaining one, when it reaches the minimum and beats abstaining.   *)
(* Ties go to the option the provider chose.                               *)
(***************************************************************************)
\* A comparison that knows no ties.
BeatsStrictly(a, i, weight) == a.dist.ws[i] > weight

Beats(a, i, weight) ==
    \/ a.dist.ws[i] * Scale > weight * Scale + Tie * a.dist.den
    \/ /\ Distance(a.dist.ws[i], weight) * Scale <= Tie * a.dist.den
       /\ a.keys[i] = a.chosen

BestOption(a, abstain) ==
    FoldLeft(LAMBDA best, i :
               IF a.keys[i] = abstain THEN best
               ELSE IF best = 0 THEN i
               ELSE IF Beats(a, i, a.dist.ws[best]) THEN i ELSE best,
             0, [i \in DOMAIN a.keys |-> i])

AbstainWeight(a, abstain) ==
    IF abstain \in Range(a.keys)
    THEN a.dist.ws[CHOOSE i \in DOMAIN a.keys : a.keys[i] = abstain] ELSE 0

\* The selected option, or Absent to abstain.
DecideChoice(a, abstain, min) ==
    LET best == BestOption(a, abstain)
    IN  IF /\ best # 0
           /\ a.dist.ws[best] * Scale >= min * a.dist.den
           /\ abstain = Absent \/ Beats(a, best, AbstainWeight(a, abstain))
        THEN a.keys[best] ELSE Absent

(***************************************************************************)
(* A call: the request is made, refused or sent; the reply is read.        *)
(***************************************************************************)
Idle == [stage |-> "idle"]

ClassificationInit == call = Idle

\* What a provider may say of one question: the keys asked for, one too
\* many or one too few; a number that is out of range or none at all.
Maps(q) ==
    LET keys == Range(Keys(q))
        maps == [keys -> Values \cup {NotNumber}]
    IN  maps
          \cup {[k \in keys \cup Strangers |-> IF k \in keys THEN m[k] ELSE 0] : m \in maps}
          \cup [keys \ {Keys(q)[1]} -> Values]

Confidences == {Absent, 0, Scale + Eps + 1}

Raws(provider, q) ==
    {Absent} \cup
    IF q.kind = "noul"
    THEN [kind : IF provider = "chat" THEN {"noul"} ELSE {"noul", "score"},
          number : Values \cup {NotNumber}, keys : {<<>>}, map : {<<>>},
          choice : {Absent}, confidence : {Absent}]
    ELSE {raw \in
            [kind : {q.kind},
             number : IF q.kind = "score" /\ provider # "chat"
                      THEN Values \cup {NotNumber} ELSE {0},
             keys : {Keys(q), Reverse(Keys(q))},
             map : Maps(q),
             choice : IF q.kind = "choice" /\ provider # "chat"
                      THEN Range(q.options) \cup Strangers ELSE {Absent},
             confidence : IF provider = "chat" THEN {Absent} ELSE Confidences] :
            IF provider = "static" THEN DOMAIN raw.map = Range(raw.keys)
            ELSE raw.keys = Keys(q)}

Classify(provider, request) ==
    /\ call = Idle
    /\ call' = [stage |-> IF Refusal(provider, request) = "none"
                          THEN "sent" ELSE "refused",
                provider |-> provider, request |-> request,
                why |-> Refusal(provider, request)]

Reply(raws, extra) ==
    /\ call.stage = "sent"
    /\ call.request \in Answering
    /\ call' =
         LET answers == ParseAnswers(call.provider, call.request, raws, extra)
         IN  [stage |-> IF answers = Absent THEN "failed" ELSE "answered",
              provider |-> call.provider, request |-> call.request,
              raws |-> raws, extra |-> extra, answers |-> answers]

\* The transport fails, the endpoint names another model than expected, its
\* token counters contradict each other, or a script holds no answer.
ReplyRefused ==
    /\ call.stage = "sent"
    /\ call' = [stage |-> "unserved", provider |-> call.provider,
                request |-> call.request]

Return == /\ call.stage \notin {"idle", "sent"}
          /\ call' = Idle

ClassificationNext ==
    \/ \E provider \in Providers, request \in Requests : Classify(provider, request)
    \/ /\ call.stage = "sent"
       /\ call.request \in Answering
       /\ \E raws \in {f \in [DOMAIN call.request.questions ->
                              UNION {Raws(call.provider, call.request.questions[i]) :
                                       i \in DOMAIN call.request.questions}] :
                         \A i \in DOMAIN f :
                           f[i] \in Raws(call.provider, call.request.questions[i])},
             extra \in BOOLEAN : Reply(raws, extra)
    \/ ReplyRefused
    \/ Return

ClassificationSpec == ClassificationInit /\ [][ClassificationNext]_call

-----------------------------------------------------------------------------
(***************************************************************************)
(* Properties.                                                             *)
(***************************************************************************)
ChoiceAnswers ==
    IF call.stage # "answered" THEN {}
    ELSE {a \in Range(call.answers) : a.kind = "choice"}

WeightOf(a, option) == a.dist.ws[CHOOSE i \in DOMAIN a.keys : a.keys[i] = option]

\* chosen and decide_choice agree: whatever the abstaining option and the
\* minimum, the fold with its ties selects exactly the provider's chosen
\* option, and only when that is not the abstaining one and reaches the
\* minimum.
DecisionFollowsChosen ==
    \A a \in ChoiceAnswers, min \in Minimums :
    \A abstain \in Range(a.keys) \cup Strangers \cup {Absent} :
        DecideChoice(a, abstain, min) =
            IF /\ a.chosen # abstain
               /\ WeightOf(a, a.chosen) * Scale >= min * a.dist.den
            THEN a.chosen ELSE Absent

\* check_limits spends its two budgets exactly: a request gets past it only
\* if the state with each question fits the pair budget and the state with
\* all of them the total budget, and none is refused by it that fits.
LimitsExact ==
    call.stage \in {"sent", "refused"} /\ call.provider = "jev" =>
        LET r == call.request
            bytes == [i \in DOMAIN r.questions |-> r.questions[i].bytes]
            fits == /\ \A i \in DOMAIN bytes :
                         /\ r.state + bytes[i] <= PairBudget
                         /\ WithinCounts(r.questions[i])
                    /\ r.state + Total(bytes) <= TotalBudget
        IN  r.questions # <<>> => (fits <=> call.why # "limits")

\* A chat reply that names exactly the keys asked for, with numbers in range
\* that do not all vanish, is never lost: what normalise_distribution,
\* most_probable and expected_level compute passes validate_answers.
UsableReplyAccepted ==
    /\ call.stage = "failed"
    /\ call.provider = "chat"
    => \/ call.extra
       \/ \E i \in DOMAIN call.raws :
            LET q == call.request.questions[i]
                raw == call.raws[i]
            IN  \/ raw = Absent
                \/ q.kind = "noul" /\ CheckProbability(raw.number) = Absent
                \/ /\ q.kind # "noul"
                   /\ \/ DOMAIN raw.map # Range(Keys(q))
                      \/ \E k \in DOMAIN raw.map : CheckProbability(raw.map[k]) = Absent
                      \/ \A k \in DOMAIN raw.map : raw.map[k] <= Eps
=============================================================================
