----------------------------- MODULE CreditLog ------------------------------
(***************************************************************************)
(* How a lesson comes to be chosen and what it gets credit for: the prior  *)
(* that its author claimed, the decision with every candidate's posterior  *)
(* and propensity, the receipt of its injection, the hindsight ratio that  *)
(* credits it, and the report that reads the credit back                   *)
(* (src/src/lyo/storage/lesson-store.ts, lyo/credit/, lyo/selection/).     *)
(*                                                                         *)
(* The store has one writer, the replay of recorded traces                 *)
(* (src/src/eval/replay.ts), which may be cut off between any two calls    *)
(* and started again.  Status rules and curation are LessonStore's: no     *)
(* lesson here gets the samples that either needs.                         *)
(*                                                                         *)
(* Confidences, propensities, credits and counters are kept in units of    *)
(* 1/One.                                                                  *)
(***************************************************************************)
EXTENDS Integers, Sequences, FiniteSets, SequencesExt

CONSTANTS Arms,                \* lessons, by what they say
          ArmClass,            \* the failure class of each, as its index in PipelineOrder
          Traces,              \* recorded runs: what they propose, where and how they failed
          One,                 \* units per whole
          Shares,              \* propensities that a policy's own sampler may give a candidate
          Limit0,              \* lessons per decision
          MinStratumDecisions, \* resolved decisions that a hindsight rate needs
          MinCalibration,      \* outcomes that judge a prior
          Legacies,            \* stores that earlier versions have left
          MaxReplays,          \* bound on the traces replayed
          MaxCutReplays,       \* bound on the replays cut off
          Nothing

\* What was proposed: a lesson, and what its author claims.
IsProposal(proposal) ==
  /\ proposal.arm \in Arms
  /\ proposal.prior # Nothing => proposal.prior.strength \in Int \cup {Nothing}

ASSUME CreditAssumption ==
  /\ IsFiniteSet(Arms) /\ Nothing \notin Int
  /\ \A trace \in Traces :
       /\ trace.outcome \in {"passed", "failed"}
       /\ trace.proposals # <<>> /\ trace.proposals \in Seq(Range(trace.proposals))
       /\ \A proposal \in Range(trace.proposals) : IsProposal(proposal)
  /\ One \in Nat \ {0} /\ Shares \subseteq 0..One
  /\ Limit0 \in Nat \ {0} /\ MinStratumDecisions \in Nat /\ MinCalibration \in Nat \ {0}
  /\ MaxReplays \in Nat /\ MaxCutReplays \in Nat

VARIABLES library,      \* rows of lesson
          lessonDeltas, \* rows of lesson_delta, by delta_id
          decisionLog,  \* rows of lesson_decision
          receipts,     \* rows of lesson_application, each with the replay that resolved it
          noise,        \* run_randomness: the seed of each run
          replay,       \* the replay that is under way
          replays, cutReplays

creditRows == <<library, lessonDeltas, decisionLog, receipts, noise>>
creditVars == <<creditRows, replay, replays, cutReplays>>

-----------------------------------------------------------------------------
(* The order of the failure classes in the pipeline.                       *)

PipelineOrder == <<"goal_deviation", "context_handling", "tool_selection", "orchestration",
                   "output_generation", "system_execution">>

\* -1 outside the taxonomy.
stageIndex(class) ==
  LET at == {i \in DOMAIN PipelineOrder : PipelineOrder[i] = class}
  IN IF at = {} THEN -1 ELSE (CHOOSE i \in at : TRUE) - 1

upstreamClosure(observed) ==
  LET k == stageIndex(observed)
  IN IF k < 0 THEN {observed} ELSE {PipelineOrder[i] : i \in 1 .. k + 1}

stageDistance(observed, class) ==
  IF stageIndex(observed) < 0 \/ stageIndex(class) < 0 THEN Nothing
  ELSE stageIndex(observed) - stageIndex(class)

ClassesFor(observed, scope) == IF scope = "upstream" THEN upstreamClosure(observed) ELSE {observed}

-----------------------------------------------------------------------------
(* Priors.                                                                 *)

DefaultStrength == 2
MaxStrength == 10

\* A confidence that is no number or out of range, or a strength of zero, is no prior.
normalizePrior(prior) ==
  IF prior = Nothing \/ prior.confidence \notin 0..One THEN Nothing
  ELSE LET raw == IF prior.strength = Nothing THEN DefaultStrength ELSE prior.strength
           strength == IF raw < 0 THEN 0 ELSE IF raw > MaxStrength THEN MaxStrength ELSE raw
       IN IF strength = 0 THEN Nothing ELSE [confidence |-> prior.confidence, strength |-> strength]

Priors == [confidence: 0..One, strength: 1..MaxStrength] \cup {Nothing}

SamplesOf(row) == row.helpful + row.harmful
Distance(x, y) == IF x > y THEN x - y ELSE y - x

\* The lessons whose outcomes judge the confidences that their authors claimed.
Judging(rows) == {a \in DOMAIN rows : rows[a].prior # Nothing /\ SamplesOf(rows[a]) >= MinCalibration * One}

Agreement(row) == One - Distance((row.helpful * One) \div SamplesOf(row), row.prior.confidence)

\* The factor that tempers every prior: the mean agreement, one without any judge.
priorCalibration(rows) ==
  LET judging == Judging(rows)
  IN IF judging = {} THEN One
     ELSE SumFunctionOnSet([a \in judging |-> Agreement(rows[a])], judging) \div Cardinality(judging)

PseudoCount(strength, gamma, share) == (strength * gamma * share) \div One

priorPseudoCounts(prior, gamma) ==
  IF prior = Nothing THEN [alpha |-> 0, beta |-> 0]
  ELSE [alpha |-> PseudoCount(prior.strength, gamma, prior.confidence),
        beta  |-> PseudoCount(prior.strength, gamma, One - prior.confidence)]

candidateParams(row, gamma) ==
  LET claimed == priorPseudoCounts(row.prior, gamma)
  IN [alpha |-> row.helpful + One + claimed.alpha, beta |-> row.harmful + One + claimed.beta]

-----------------------------------------------------------------------------
(* The rows of the store, and what its log of deltas says of them.         *)

LibraryRow == [helpful: Nat, harmful: Nat, uses: Nat, prior: Priors]

DeltaRow == [type: {"CREATE", "EDIT", "MARK_HELPFUL", "MARK_HARMFUL"}, arm: Arms, prior: Priors,
             receipt: Nat, weight: Nat \cup {Nothing},
             estimator: {"uniform-fallback@1", "ratio-lift@1", Nothing}]

IsCredit(delta) == delta.type \in {"MARK_HELPFUL", "MARK_HARMFUL"}

\* A mark without a weight is of before credits were weighted.
WeightOf(mark) == IF mark.weight = Nothing THEN One ELSE mark.weight

\* What deltas move a counter of a lesson by.
MovedBy(deltas, arm, type) ==
  SumFunctionOnSet([k \in DOMAIN deltas |-> WeightOf(deltas[k])],
                   {k \in DOMAIN deltas : deltas[k].arm = arm /\ deltas[k].type = type})

\* The first prior that was claimed for a lesson.
FirstPrior(deltas, arm) ==
  LET claims == {k \in DOMAIN deltas : deltas[k].arm = arm /\ deltas[k].prior # Nothing}
  IN IF claims = {} THEN Nothing ELSE deltas[Min(claims)].prior

\* The library as deltas rebuild it.
Rebuilt(deltas) ==
  [a \in {deltas[k].arm : k \in DOMAIN deltas} |->
     [helpful |-> MovedBy(deltas, a, "MARK_HELPFUL"), harmful |-> MovedBy(deltas, a, "MARK_HARMFUL"),
      prior   |-> FirstPrior(deltas, a)]]

\* The rows of a library are what deltas rebuild.
AgreesWith(rows, deltas) ==
  LET rebuilt == Rebuilt(deltas)
  IN /\ DOMAIN rows = DOMAIN rebuilt
     /\ \A a \in DOMAIN rows : /\ rows[a].helpful = rebuilt[a].helpful
                               /\ rows[a].harmful = rebuilt[a].harmful
                               /\ rows[a].prior = rebuilt[a].prior

Resolved(receipt) == receipt.outcome \in {"passed", "failed"}

\* The receipts that a mark may be of: one that was resolved, of the lesson that it marks.
MarksReceipt(delta, rows) ==
  delta.receipt \in DOMAIN rows /\ Resolved(rows[delta.receipt]) /\ rows[delta.receipt].arm = delta.arm

\* A store of an earlier version: no decision was logged and no credit weighted, and its
\* marks are those of its resolved receipts.
ASSUME LegacyAssumption ==
  \A legacy \in Legacies :
    /\ legacy.library \in [DOMAIN legacy.library -> LibraryRow]
    /\ legacy.deltas \in Seq(DeltaRow)
    /\ AgreesWith(legacy.library, legacy.deltas)
    /\ legacy.receipts \in Seq(Range(legacy.receipts))
    /\ \A receipt \in Range(legacy.receipts) :
         receipt \in [arm: DOMAIN legacy.library, run: {receipt.run}, trigger: {receipt.trigger}, decision: {0},
                      outcome: {"pending", "passed", "failed"}, resolvedIn: {0}]
    /\ \A j, k \in DOMAIN legacy.deltas : IsCredit(legacy.deltas[j]) =>
         /\ MarksReceipt(legacy.deltas[j], legacy.receipts)
         /\ legacy.deltas[j].weight = Nothing /\ legacy.deltas[j].prior = Nothing
         /\ (k # j /\ IsCredit(legacy.deltas[k])) => legacy.deltas[k].receipt # legacy.deltas[j].receipt

-----------------------------------------------------------------------------
(* Lessons and decisions.                                                  *)

NoReplay == [at |-> "idle", trace |-> Nothing, proposed |-> 0, selection |-> Nothing,
             decision |-> 0, injecting |-> {}]

CreditInit ==
  /\ \E legacy \in Legacies :
       /\ library = legacy.library
       /\ lessonDeltas = legacy.deltas
       /\ receipts = legacy.receipts
  /\ decisionLog = <<>>
  /\ noise = <<>>
  /\ replay = NoReplay
  /\ replays = 0
  /\ cutReplays = 0

\* recordRunRandomness: the first record of a run is kept.
Noise(run, seed) ==
  [r \in DOMAIN noise \cup {run} |-> IF r \in DOMAIN noise THEN noise[r] ELSE seed]

StartReplay(trace) ==
  /\ replay.at = "idle" /\ replays < MaxReplays
  /\ replays' = replays + 1
  /\ noise' = Noise(trace.run, trace.seed)
  /\ replay' = [NoReplay EXCEPT !.at = "create", !.trace = trace]
  /\ UNCHANGED <<library, lessonDeltas, decisionLog, receipts, cutReplays>>

LessonDelta(type, arm) ==
  [type |-> type, arm |-> arm, prior |-> Nothing, receipt |-> 0, weight |-> Nothing, estimator |-> Nothing]

\* The first prior wins; a lesson without one adopts it.
Adopted(held, proposed) == IF held = Nothing THEN proposed ELSE held

\* createLesson: a new row, or the edit of the one that says the same.
CreateOrMerge ==
  LET proposals == replay.trace.proposals
      proposal == proposals[replay.proposed + 1]
      prior == normalizePrior(proposal.prior)
      arm == proposal.arm
      known == arm \in DOMAIN library
  IN
  /\ replay.at = "create"
  /\ library' = [a \in DOMAIN library \cup {arm} |->
       IF a # arm THEN library[a]
       ELSE IF known THEN [library[a] EXCEPT !.prior = Adopted(@, prior)]
       ELSE [helpful |-> 0, harmful |-> 0, uses |-> 0, prior |-> prior]]
  /\ lessonDeltas' = Append(lessonDeltas,
       [LessonDelta(IF known THEN "EDIT" ELSE "CREATE", arm) EXCEPT !.prior = prior])
  /\ replay' = [replay EXCEPT !.proposed = @ + 1,
                              !.at = IF replay.proposed + 1 = Len(proposals) THEN "select" ELSE @]
  /\ UNCHANGED <<decisionLog, receipts, noise, replays, cutReplays>>

\* candidateRows
CandidatesOf(trace) == {a \in DOMAIN library : ArmClass[a] \in ClassesFor(trace.class, trace.scope)}

\* selectWithDecision: every candidate with its posterior and its propensity, which is
\* one when all of them fit, and what the policy draws.
Candidate(arm, gamma, share, trace) ==
  [posterior  |-> candidateParams(library[arm], gamma),
   propensity |-> share,
   distance   |-> IF trace.scope = "upstream" THEN stageDistance(trace.class, ArmClass[arm]) ELSE Nothing]

SelectWithDecision ==
  LET trace == replay.trace
      arms == CandidatesOf(trace)
      certain == Cardinality(arms) <= Limit0
      gamma == priorCalibration(library)
  IN
  /\ replay.at = "select"
  /\ \E share \in (IF certain THEN {One} ELSE Shares), drawn \in SUBSET arms :
       /\ Cardinality(drawn) = IF certain THEN Cardinality(arms) ELSE Limit0
       /\ replay' = [replay EXCEPT !.at = "decide",
            !.selection = [candidates |-> [a \in arms |-> Candidate(a, gamma, share, trace)],
                           selected |-> drawn]]
  /\ UNCHANGED <<creditRows, replays, cutReplays>>

\* recordDecision: the row, stamped with the last delta.
RecordDecision ==
  /\ replay.at = "decide"
  /\ decisionLog' = Append(decisionLog,
       [run |-> replay.trace.run, class |-> replay.trace.class, scope |-> replay.trace.scope,
        candidates |-> replay.selection.candidates, selected |-> replay.selection.selected,
        nullArm |-> DOMAIN replay.selection.candidates = {},
        upto |-> Len(lessonDeltas)])
  /\ replay' = [replay EXCEPT !.at = "inject", !.decision = Len(decisionLog) + 1,
                              !.injecting = replay.selection.selected]
  /\ UNCHANGED <<library, lessonDeltas, receipts, noise, replays, cutReplays>>

Injected(arm, trace) ==
  \E i \in DOMAIN receipts : /\ receipts[i].arm = arm
                             /\ receipts[i].run = trace.run /\ receipts[i].trigger = trace.trigger

\* recordApplication: insert or ignore, so a repeated injection keeps its first decision.
Inject(arm) ==
  /\ replay.at = "inject" /\ arm \in replay.injecting
  /\ IF Injected(arm, replay.trace)
     THEN UNCHANGED <<receipts, library>>
     ELSE /\ receipts' = Append(receipts,
               [arm |-> arm, run |-> replay.trace.run, trigger |-> replay.trace.trigger,
                decision |-> replay.decision, outcome |-> "pending", resolvedIn |-> 0])
          /\ library' = [library EXCEPT ![arm].uses = @ + 1]
  /\ replay' = [replay EXCEPT !.injecting = @ \ {arm}]
  /\ UNCHANGED <<lessonDeltas, decisionLog, noise, replays, cutReplays>>

-----------------------------------------------------------------------------
(* Credit.                                                                 *)

\* computeStratumStats: the decisions of a class that were resolved with an outcome,
\* each once, however many lessons it injected.
ResolvedDecisions(class, outcome) ==
  {d \in DOMAIN decisionLog :
     decisionLog[d].class = class
     /\ \E i \in DOMAIN receipts : receipts[i].decision = d /\ receipts[i].outcome = outcome}

MaxWeight == 4

Clipped(weight) ==
  IF weight > MaxWeight * One THEN MaxWeight * One ELSE IF weight < -One THEN -One ELSE weight

Uniform == [weight |-> One, estimator |-> "uniform-fallback@1"]

\* The hindsight rate over the propensity, less one, rounded away from zero: what is not
\* exactly nothing is not lost in the units.
RatioLift(k, n, share) ==
  LET found == (k + 1) * One
      expected == (n + 2) * share
      size == (Distance(found, expected) * One + expected - 1) \div expected
  IN [weight |-> Clipped(IF found < expected THEN -size ELSE size), estimator |-> "ratio-lift@1"]

\* A ratio is identified only by a propensity strictly between zero and one.
Propensity(receipt) ==
  IF receipt.decision = 0 THEN 0
  ELSE LET candidates == decisionLog[receipt.decision].candidates
       IN IF receipt.arm \in DOMAIN candidates THEN candidates[receipt.arm].propensity ELSE 0

InjectionWeight(receipt, outcome) ==
  LET share == Propensity(receipt)
  IN IF share = 0 \/ share = One THEN Uniform
     ELSE LET past == ResolvedDecisions(decisionLog[receipt.decision].class, outcome)
              n == Cardinality(past)
              k == Cardinality({d \in past : receipt.arm \in decisionLog[d].selected})
          IN IF n < MinStratumDecisions THEN Uniform ELSE RatioLift(k, n, share)

\* The receipts of a run that were not counted yet.
PendingReceipts(run) ==
  {i \in DOMAIN receipts : receipts[i].run = run /\ receipts[i].outcome = "pending"}

\* The numbers of a set as they follow one another.
Ascending(S) ==
  CHOOSE s \in [1 .. Cardinality(S) -> S] : \A i, j \in DOMAIN s : i < j => s[i] < s[j]

\* The receipt moves the counter that its run's outcome points to, whatever its sign.
MarkByOutcome(i, credit, outcome) ==
  [LessonDelta(IF outcome = "passed" THEN "MARK_HELPFUL" ELSE "MARK_HARMFUL", receipts[i].arm)
     EXCEPT !.receipt = i, !.weight = Distance(credit.weight, 0), !.estimator = credit.estimator]

\* A positive credit speaks for the outcome, a negative one against it.
Mark(i, credit, outcome) ==
  [LessonDelta(IF (outcome = "passed") = (credit.weight > 0) THEN "MARK_HELPFUL" ELSE "MARK_HARMFUL",
               receipts[i].arm)
     EXCEPT !.receipt = i, !.weight = Distance(credit.weight, 0), !.estimator = credit.estimator]

\* applyValidationOutcome: a receipt without credit is counted and marks nothing.
ApplyOutcome ==
  LET outcome == replay.trace.outcome
      pending == PendingReceipts(replay.trace.run)
      CreditOf(i) == InjectionWeight(receipts[i], outcome)
      moving == Ascending({i \in pending : CreditOf(i).weight # 0})
      marks == [m \in DOMAIN moving |-> Mark(moving[m], CreditOf(moving[m]), outcome)]
  IN
  /\ replay.at = "inject" /\ replay.injecting = {}
  /\ lessonDeltas' = lessonDeltas \o marks
  /\ library' = [a \in DOMAIN library |->
       [library[a] EXCEPT !.helpful = @ + MovedBy(marks, a, "MARK_HELPFUL"),
                          !.harmful = @ + MovedBy(marks, a, "MARK_HARMFUL")]]
  /\ receipts' = [i \in DOMAIN receipts |->
       IF i \in pending THEN [receipts[i] EXCEPT !.outcome = outcome, !.resolvedIn = replays]
       ELSE receipts[i]]
  /\ replay' = NoReplay
  /\ UNCHANGED <<decisionLog, noise, replays, cutReplays>>

\* A call throws, or the process dies, between two calls.
CutReplay ==
  /\ replay.at # "idle" /\ cutReplays < MaxCutReplays
  /\ cutReplays' = cutReplays + 1
  /\ replay' = NoReplay
  /\ UNCHANGED <<creditRows, replays>>

CreditNext ==
  \/ \E trace \in Traces : StartReplay(trace)
  \/ CreateOrMerge \/ SelectWithDecision \/ RecordDecision
  \/ \E arm \in Arms : Inject(arm)
  \/ ApplyOutcome \/ CutReplay

-----------------------------------------------------------------------------
(* computeCreditFidelity                                                   *)

MarksOfReceipt(i) == {k \in DOMAIN lessonDeltas : IsCredit(lessonDeltas[k]) /\ lessonDeltas[k].receipt = i}

\* The weight in the direction of the outcome.
Signed(mark, outcome) ==
  IF (outcome = "passed") = (mark.type = "MARK_HELPFUL") THEN mark.weight ELSE -mark.weight

Once(holds) == IF holds THEN 1 ELSE 0

FidelityFields ==
  {"receipts", "legacy", "uniformFallback", "ratioLift", "gated", "signFlips", "errors", "weights"}

\* What a receipt, and the last mark of it, add to a row.
accumulate(i) ==
  LET marks == MarksOfReceipt(i)
      mark == lessonDeltas[Max(marks)]
      signed == Signed(mark, receipts[i].outcome)
      isMarked == marks # {}
      isLegacy == isMarked /\ mark.weight = Nothing
      isRatio == isMarked /\ ~isLegacy /\ mark.estimator = "ratio-lift@1"
  IN [receipts        |-> 1,
      gated           |-> Once(~isMarked),
      legacy          |-> Once(isLegacy),
      uniformFallback |-> Once(isMarked /\ ~isLegacy /\ ~isRatio),
      ratioLift       |-> Once(isRatio),
      signFlips       |-> Once(isRatio /\ signed < 0),
      errors          |-> IF isRatio THEN Distance(signed, One) ELSE 0,
      weights         |-> IF isRatio THEN Distance(signed, 0) ELSE 0]

\* The class of the decision, or of the lesson without one.
StratumOf(receipt) ==
  IF receipt.decision = 0 THEN ArmClass[receipt.arm] ELSE decisionLog[receipt.decision].class

FidelityOf(counting) ==
  [field \in FidelityFields |-> SumFunctionOnSet([i \in counting |-> accumulate(i)[field]], counting)]

ResolvedReceipts == {i \in DOMAIN receipts : Resolved(receipts[i])}

CreditFidelity ==
  [overall |-> FidelityOf(ResolvedReceipts),
   strata  |-> [s \in {StratumOf(receipts[i]) : i \in ResolvedReceipts} |->
                  FidelityOf({i \in ResolvedReceipts : StratumOf(receipts[i]) = s})]]

-----------------------------------------------------------------------------
CreditTypeOK ==
  /\ library \in [DOMAIN library -> LibraryRow] /\ DOMAIN library \subseteq Arms
  /\ lessonDeltas \in Seq(DeltaRow)
  /\ \A i \in DOMAIN receipts : receipts[i].decision \in 0 .. Len(decisionLog)
  /\ \A d \in DOMAIN decisionLog : decisionLog[d].upto <= Len(lessonDeltas)

TotalOf(amounts) == SumFunctionOnSet(amounts, DOMAIN amounts)

\* A decision can be understood later: the log up to the delta it is stamped with gives
\* the candidates it had, each with the posterior and the tempered prior it was drawn
\* with, also when lessons are proposed again, credited and cut off in between.
Reproducible(decision) ==
  LET rows == Rebuilt(SubSeq(lessonDeltas, 1, decision.upto))
      gamma == priorCalibration(rows)
      scoped == {a \in DOMAIN rows : ArmClass[a] \in ClassesFor(decision.class, decision.scope)}
  IN /\ DOMAIN decision.candidates = scoped
     /\ \A a \in scoped : decision.candidates[a].posterior = candidateParams(rows[a], gamma)

\* The report on the recorded credits accounts for every movement of a counter: all
\* counters together are the uniform credits, the old ones and the weights it reports,
\* and its strata add up to the whole.
MovementIsReported ==
  LET report == CreditFidelity
      overall == report.overall
  IN /\ TotalOf([a \in DOMAIN library |-> SamplesOf(library[a])])
          = One * (overall.uniformFallback + overall.legacy) + overall.weights
     /\ \A field \in FidelityFields :
          overall[field] = TotalOf([s \in DOMAIN report.strata |-> report.strata[s][field]])

\* The decisions of its class that had come out like receipt i before it was resolved.
PastOf(i) ==
  {d \in DOMAIN decisionLog :
     /\ decisionLog[d].class = decisionLog[receipts[i].decision].class
     /\ \E j \in DOMAIN receipts :
          /\ receipts[j].decision = d /\ receipts[j].outcome = receipts[i].outcome
          /\ receipts[j].resolvedIn < receipts[i].resolvedIn}

\* Credit is a contrast with the past.  A lesson that the earlier decisions with the
\* same outcome chose more often than its propensity says is credited towards that
\* outcome, one they chose less often against it, one they chose just so often not at
\* all; with too small a past the outcome alone decides.
CreditIsContrast(i) ==
  LET chosen == Cardinality({d \in PastOf(i) : receipts[i].arm \in decisionLog[d].selected})
      found == (chosen + 1) * One
      expected == (Cardinality(PastOf(i)) + 2) * Propensity(receipts[i])
      marks == MarksOfReceipt(i)
      IsCredited == \E k \in marks : marks = {k} /\ Signed(lessonDeltas[k], receipts[i].outcome) > 0
      IsBlamed == \E k \in marks : marks = {k} /\ Signed(lessonDeltas[k], receipts[i].outcome) < 0
  IN IF Cardinality(PastOf(i)) < MinStratumDecisions \/ found > expected
     THEN IsCredited ELSE IF found = expected THEN marks = {} ELSE IsBlamed

CreditsAreContrasts ==
  \A i \in ResolvedReceipts : Propensity(receipts[i]) \in 1 .. One - 1 => CreditIsContrast(i)

\* A repeated or cut-off replay counts no receipt twice, and what it counted, chose and
\* was told is read back from the rows that it left.
CreditIsReadBack ==
  /\ MovementIsReported
  /\ CreditsAreContrasts
  /\ \A d \in DOMAIN decisionLog : Reproducible(decisionLog[d])
=============================================================================
