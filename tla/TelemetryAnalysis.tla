------------------------- MODULE TelemetryAnalysis --------------------------
(***************************************************************************)
(* What is concluded from a compiled run: verifiers and milestones         *)
(* (src/src/compiler/analyzer.ts), drafts (lowering.ts), the effect report *)
(* (effect-report.ts), the style of the work (workflow-style.ts) and the   *)
(* evaluation of an attempt against a task (candidate-at-bat.ts and        *)
(* candidate-at-bat/).  Scores are in hundredths.                          *)
(***************************************************************************)
EXTENDS TelemetryCompiler

CONSTANTS SpecLists,  \* lists of verifier specs of a task: [id, commands, kind, required]
          Wordings,   \* final messages, each the set of what its words mention
          Lineages,   \* what else is known of a run: [prompts, calls], as recorded in the
                      \* ledger, and which of its resources are loop artifacts, docs, tests
          Laps        \* how often a run goes through its actions when it loops

Where(trace, Test(_)) == {i \in DOMAIN trace : Test(trace[i])}
CountWhere(trace, Test(_)) == Cardinality(Where(trace, Test))

LocalFiles(a) == {r.ref : r \in {q \in a.read \cup a.written : q.type = "local_file"}}

-----------------------------------------------------------------------------
(* Verifiers, milestones, and what is drafted from them.                   *)

OfPhase(episodes, phases, among) == {k \in among : episodes[k].phase \in phases}

\* Mutant: the way back does not stop at the verifier that passed before.
SincePassAll(episodes, at) == 1 .. at - 1

\* The episodes between a verifier that passed and the one that passed before it.
SincePass(episodes, at) ==
  LET passes == OfPhase(episodes, {"passed_verification"}, 1 .. at - 1)
  IN (IF passes = {} THEN 1 ELSE Max(passes) + 1) .. at - 1

EventActions(actions, episode) == {a \in Range(actions) : a.event \in Range(episode.tokens)}

EpisodePaths(actions, episode) == UNION {LocalFiles(a) : a \in EventActions(actions, episode)}

\* The verifier at episode k, with the work since the pass before it.
Verifier(actions, episodes, k, since) ==
  LET work == OfPhase(episodes, {"implementation", "debugging"}, since)
  IN [event |-> episodes[k].tokens[1],
      scope |-> UNION {EpisodePaths(actions, episodes[j]) : j \in work \cup {k}},
      worked |-> work # {},
      failedAttempts |-> Cardinality(OfPhase(episodes, {"failed_verification"}, since))]

Verifiers(actions, episodes) ==
  {Verifier(actions, episodes, k, SincePass(episodes, k)) :
     k \in OfPhase(episodes, {"passed_verification"}, DOMAIN episodes)}

Milestones(verifiers) == {v \in verifiers : v.worked}

PolicyRisk(action, token) ==
  FirstOf(<< <<action.risk = "destructive", "destructive">>,
             <<token.kind = "TEST", "local_test">>,
             <<token.kind = "EDIT", "local_edit">>,
             <<token.kind = "EXTERNAL", "external_deploy">> >>, "unknown")

\* The commands for which a policy is drafted.
Restricted(actions, tokens) ==
  {i \in DOMAIN actions : /\ actions[i].command # None
                          /\ \/ PolicyRisk(actions[i], tokens[i]) \in {"destructive", "external_deploy"}
                             \/ "credential_sensitive" \in actions[i].facets}

Critics(episodes) ==
  {phase \in {"debugging", "unverified_claim_candidate"} : OfPhase(episodes, {phase}, DOMAIN episodes) # {}}

-----------------------------------------------------------------------------
(* The effect report.                                                      *)

KindTests == <<"inspect", "edit", "test", "external">>

KindsOf(a) ==
  {kind \in Range(KindTests) :
     CASE kind = "inspect" -> isInspectAction(a) [] kind = "edit" -> isEditAction(a)
       [] kind = "test" -> isTestAction(a)       [] OTHER -> isExternalAction(a)}

countActionKinds(trace) ==
  [kind \in Range(KindTests) \cup {"unknown"} |->
     CountWhere(trace, LAMBDA a : IF kind = "unknown" THEN KindsOf(a) = {} /\ a.eventKind # "boundary"
                                  ELSE kind \in KindsOf(a))]

hasExternalEffect(a) ==
  isExternalAction(a) \/ a.facets \cap {"external", "deploy"} # {} \/ a.risk \in {"deploy", "external_write"}

overlappingWriteResources(left, right) ==
  (left.written \cap (right.read \cup right.written)) \cup (right.written \cap (left.read \cup left.written))

conflictReason(left, right) ==
  FirstOf(<< <<hasExternalEffect(left) \/ hasExternalEffect(right), "external_side_effect">>,
             <<overlappingWriteResources(left, right) # {}, "write_overlap">> >>, "resource_dependency")

temporalFindings(predicates) ==
  {finding \in {"debugging", "friction", "unsafe", "unverified"} : predicates[finding]}

-----------------------------------------------------------------------------
(* The style of the work.                                                  *)

Longest(lengths) == Max(lengths \cup {0})

IsBoundary(a) == a.eventKind = "boundary"
IsPromptBoundary(a) == IsBoundary(a) /\ a.name = "UserPromptSubmit"

\* The actions between two prompts, or before the first and after the last.
maxActionsBetweenPrompts(trace) ==
  LET prompts == Where(trace, IsPromptBoundary) \cup {0, Len(trace) + 1}
      Stretches == {p \in prompts \X prompts : p[1] < p[2] /\ \A k \in prompts : k <= p[1] \/ k >= p[2]}
  IN Longest({Cardinality({k \in p[1] + 1 .. p[2] - 1 : ~IsBoundary(trace[k])}) : p \in Stretches})

\* The prompts on record, or else the events of the turn.
countHumanPrompts(trace, lineage) ==
  IF lineage.prompts > 0 THEN lineage.prompts
  ELSE CountWhere(trace, LAMBDA a : IsPromptBoundary(a) /\ a.turn # None)

StyleMetrics(trace, lineage) ==
  [prompts |-> countHumanPrompts(trace, lineage), calls |-> lineage.calls, refs |-> lineage.refs,
   actions |-> CountWhere(trace, LAMBDA a : ~IsBoundary(a)),
   between |-> maxActionsBetweenPrompts(trace),
   verifiers |-> CountWhere(trace, isTestAction),
   edits |-> CountWhere(trace, isEditAction),
   unverified |-> hasStoppedAfterEditWithoutVerification(trace)]

Worth(earned, points) == IF earned THEN points ELSE 0

\* actionsPerHumanPrompt against a bound; without prompts it is null.
PerPromptAtLeast(m, n) == m.prompts > 0 /\ m.actions >= n * m.prompts
PerPromptAtMost(m, n) == m.prompts > 0 /\ m.actions <= n * m.prompts

ManyCalls(m) == m.calls > m.prompts /\ m.calls > 1

promptDrivenScore(m) ==
  IF m.actions = 0 THEN 0
  ELSE Worth(m.prompts >= 3, 35)
     + Worth(PerPromptAtMost(m, 3), 35)
     + Worth(m.between <= 3, 15)
     + Worth(m.unverified, 15)

loopDrivenScore(m) ==
  IF m.actions < 4 THEN 0
  ELSE Worth("loop" \in m.refs, 35)
     + Worth(ManyCalls(m), 20)
     + Worth(m.verifiers > 0 /\ m.edits > 0, 20)
     + Worth(m.prompts = 0 \/ PerPromptAtLeast(m, 6), 15)
     + Worth(m.between >= 6, 10)

manualOrchestrationScore(m) ==
  IF m.actions < 3 \/ m.prompts = 0 THEN 0
  ELSE Worth(PerPromptAtLeast(m, 3), 30)
     + Worth(m.between >= 3, 25)
     + Worth(m.verifiers > 0 \/ m.edits > 0, 20)
     + Worth("loop" \notin m.refs, 15)
     + Worth("loop" \notin m.refs /\ m.calls <= m.prompts, 10)

\* verifierDensity, verifiers per edit, is null without edits.
verifierDisciplineScore(m) ==
  Max({0, Worth(m.edits = 0 /\ m.verifiers > 0, 25)
          + Worth(m.edits > 0 /\ m.verifiers >= m.edits, 55)
          + Worth(m.verifiers > 0 /\ m.verifiers < m.edits, 30)
          + Worth("tests" \in m.refs, 20)
          - Worth(m.unverified, 25)})

workflowInfrastructureScore(m) ==
  Worth("loop" \in m.refs, 40)
+ Worth("docs" \in m.refs, 25)
+ Worth("tests" \in m.refs, 25)
+ Worth(m.calls > 1, 10)

StyleScores(m) ==
  [prompt |-> promptDrivenScore(m), loop |-> loopDrivenScore(m),
   manual |-> manualOrchestrationScore(m), infrastructure |-> workflowInfrastructureScore(m)]

classifyWorkflowStyle(m, s) ==
  FirstOf(<< <<m.prompts = 0 /\ (m.actions < 3 \/ m.calls = 0), "insufficient_evidence">>,
             <<(s.infrastructure >= 40 \/ ManyCalls(m)) /\ s.loop >= 65 /\ s.loop > s.prompt
                 /\ s.loop >= s.manual, "loop_driven_candidate">>,
             <<s.loop >= 35 /\ s.infrastructure >= 25, "loop_assisted">>,
             <<s.prompt >= 55 /\ s.prompt >= s.loop /\ s.prompt >= s.manual, "prompt_driven">>,
             <<s.manual >= 45, "manual_orchestrated">>,
             <<m.actions >= 3 /\ m.prompts > 0, "manual_orchestrated">> >>, "insufficient_evidence")

confidenceForClassification(style, m, s) ==
  FirstOf(<< <<style = "insufficient_evidence", "low">>,
             <<m.actions < 6 \/ m.prompts = 0, "medium">>,
             <<style = "manual_orchestrated", "high">>,
             <<s.loop >= s.prompt + 25 \/ s.prompt >= s.loop + 25, "high">> >>, "medium")

-----------------------------------------------------------------------------
(* The evaluation of an attempt.                                           *)

\* Each action that a spec names, with the spec.
Matched(trace, specs) ==
  {m \in [at : DOMAIN trace, spec : Range(specs)] : trace[m.at].command \in m.spec.commands}

IsFresh(trace, m) == LastEdit(trace) # 0 /\ m.at > LastEdit(trace)
FreshPasses(trace, matched) == {m \in matched : actionSucceeded(trace[m.at]) /\ IsFresh(trace, m)}

Required(specs) == {s \in Range(specs) : s.required}

MissingRequired(specs, passes) == Required(specs) \ {m.spec : m \in passes}

\* Without specs any verifier counts.
shipReadiness(trace, specs, passes) ==
  IF specs = <<>> THEN hasVerifiedCompletion(trace)
  ELSE IF Required(specs) = {} THEN passes # {}
  ELSE LastEdit(trace) # 0 /\ MissingRequired(specs, passes) = {}

verifierQuality(trace, specs, passes, ready) ==
  LET kinds == {m.spec.kind : m \in passes}
  IN FirstOf(<< <<specs = <<>>, FirstOf(<< <<ready, "moderate">>,
                                           <<Where(trace, isTestAction) # {}, "weak">> >>, "missing")>>,
                <<~ready \/ MissingRequired(specs, passes) # {}, "missing">>,
                <<"broad" \in kinds, "strong">>,
                <<kinds \cap {"targeted", "build"} # {}, "moderate">>,
                <<kinds # {}, "weak">> >>, "missing")

\* With a baseline that was good; a required verifier that did not pass, or without
\* specs the last verifier when it failed.
hasRegressionEvidence(trace, specs, matched, baseline) ==
  LET after == AfterLastEdit(trace)
      last == SelectLastInSeq(after, isTestAction)
  IN /\ baseline /\ LastEdit(trace) # 0
     /\ IF specs # <<>>
        THEN \E m \in matched : m.spec.required /\ IsFresh(trace, m) /\ ~actionSucceeded(trace[m.at])
        ELSE last # 0 /\ actionFailed(after[last])

Posture(said) ==
  FirstOf(<< <<"blocker" \in said /\ "done" \notin said, "blocked">>,
             <<{"verifier", "done"} \subseteq said, "cites_evidence">>,
             <<"done" \in said, "claims_done">>,
             <<"followup" \in said, "asks_for_followup">> >>, "unknown")

VerifierActions(trace, specs, matched) ==
  IF specs = <<>> THEN Where(trace, isTestAction) ELSE {m.at : m \in matched}

hasPassAfterFailure(trace) ==
  \E i, j \in Where(trace, isTestAction) : i <= j /\ actionFailed(trace[i]) /\ actionSucceeded(trace[j])

classifyFailureRecovery(trace, specs, matched) ==
  FirstOf(<< <<\A i \in VerifierActions(trace, specs, matched) : ~actionFailed(trace[i]), "not_applicable">>,
             <<hasDebugging(trace) /\ hasPassAfterFailure(trace), "strong">>,
             <<hasDebugging(trace), "weak">> >>, "none")

\* What is known of an attempt before its final message is looked at.
Evidence(trace, specs, matched, passes, baseline) ==
  LET ready == shipReadiness(trace, specs, passes)
  IN [ready |-> ready,
      quality |-> verifierQuality(trace, specs, passes, ready),
      missing |-> MissingRequired(specs, passes) # {},
      edited |-> LastEdit(trace) # 0,
      unverified |-> hasStoppedAfterEditWithoutVerification(trace),
      regressed |-> hasRegressionEvidence(trace, specs, matched, baseline),
      unsafe |-> hasUnsafeWrite(trace),
      recovery |-> classifyFailureRecovery(trace, specs, matched)]

hasCleanStop(e, said) == Posture(said) = "blocked" /\ ~e.edited /\ ~e.unsafe

classifyOutcome(e, said) ==
  FirstOf(<< <<e.ready, "verified_progress">>,
             <<e.regressed, "regression">>,
             <<e.unverified \/ (e.missing /\ e.edited), "unverified_claim">>,
             <<hasCleanStop(e, said), "clean_stop_with_justification">> >>,
          "blocked_without_resolution")

classifyClaimAlignment(e, outcome, said) ==
  FirstOf(<< <<e.ready /\ (Posture(said) \in {"unknown", "cites_evidence"} \/ "verifier" \in said), "strong">>,
             <<Posture(said) = "blocked", "unknown">>,
             <<Posture(said) = "claims_done" /\ "verifier" \notin said, "weak">>,
             <<e.unverified \/ e.missing \/ outcome = "regression", "weak">> >>, "unknown")

hasInspectBeforeFirstEdit(trace) ==
  LET firstEdit == SelectInSeq(trace, isEditAction)
  IN \E i \in 1 .. firstEdit - 1 : isInspectAction(trace[i])

\* The signatures that do not follow from the style of the work.
techniqueSignatures(trace, e, counts, verifierRuns) ==
  {s \in {"verifier-first", "explorer", "debugger", "risky-shipper"} :
     CASE s = "verifier-first" -> verifierRuns # {} /\ e.ready
       [] s = "explorer" -> hasInspectBeforeFirstEdit(trace)
                            /\ counts["inspect"] > CountWhere(trace, isEditAction)
       [] s = "debugger" -> hasDebugging(trace)
       [] OTHER -> e.unsafe}

writeCountsByResource(trace) ==
  LET edits == {a \in Range(trace) : isEditAction(a)}
  IN [ref \in {r.ref : r \in UNION {a.written : a \in edits}} |->
        Cardinality({a \in edits : \E r \in a.written : r.ref = ref})]

repeatedEditHotspots(counts) == {ref \in DOMAIN counts : counts[ref] > 1}

\* The events are numbered in the order of their times; 0 for null.
FirstAfter(trace, i, Test(_)) ==
  LET found == SelectInSubSeq(trace, i + 1, Len(trace), Test)
  IN IF found = 0 THEN 0 ELSE trace[found].event

\* The delays whose mean is meanEditToVerifierDelayMs.
EditToVerifierDelays(trace) ==
  {[edit |-> trace[i].event, delay |-> FirstAfter(trace, i, isTestAction) - trace[i].event] :
     i \in {j \in Where(trace, isEditAction) : FirstAfter(trace, j, isTestAction) # 0}}

failureRecoveryLatency(trace) ==
  LET failed == SelectInSeq(trace, LAMBDA a : isTestAction(a) /\ actionFailed(a))
      Recovers(a) == isInspectAction(a) \/ isEditAction(a) \/ (isTestAction(a) /\ actionSucceeded(a))
  IN IF failed = 0 \/ FirstAfter(trace, failed, Recovers) = 0 THEN None
     ELSE FirstAfter(trace, failed, Recovers) - trace[failed].event

-----------------------------------------------------------------------------
(* The audit of a ledger, over the runs it holds (effect-audit.ts).        *)

\* coalesce(turn_id, session_id), where it is not null.
listTelemetryRunIds(rows) ==
  {IF e.turn # None THEN e.turn ELSE e.session : e \in Range(rows)} \ {None}

isUnknownAction(a) == a.eventKind # "boundary" /\ "unknown" \in {a.operation, a.intent}
isParkedUnknownAction(a) == isUnknownAction(a) /\ a.command = "bd ready"

hasFailedVerifier(trace) ==
  \E a \in Range(trace) : isTestAction(a) /\ (a.status = "failed" \/ a.exit \notin {None, 0})

auditEffectLedgers(asts) ==
  LET RunsWith(Test(_)) == Cardinality({t \in asts : Test(t.actions)})
      ActionsWith(Test(_)) == MapThenSumSet(LAMBDA t : CountWhere(t.actions, Test), asts)
      Edits(trace) == Where(trace, isEditAction) # {}
  IN [runs |-> Cardinality(asts),
      actions |-> MapThenSumSet(LAMBDA t : Len(t.actions), asts),
      unknown |-> ActionsWith(LAMBDA a : isUnknownAction(a) /\ ~isParkedUnknownAction(a)),
      parked |-> ActionsWith(isParkedUnknownAction),
      edited |-> RunsWith(Edits),
      verified |-> RunsWith(LAMBDA t : Edits(t) /\ hasVerifiedCompletion(t)),
      failed |-> RunsWith(hasFailedVerifier),
      mended |-> RunsWith(LAMBDA t : hasFailedVerifier(t) /\ hasDebugging(t)),
      unverified |-> RunsWith(hasStoppedAfterEditWithoutVerification),
      unsafe |-> RunsWith(hasUnsafeWrite)]

-----------------------------------------------------------------------------
(* What the reports may claim, told from the tokens and actions alone.     *)

\* Work after a verifier that failed, before any stop or other verifier.
Mends(tokens, j) ==
  /\ tokens[j].kind \notin {"TEST", "STOP"}
  /\ \E f \in 1 .. j - 1 : /\ tokens[f].kind = "TEST" /\ ~tokens[f].passed
                          /\ \A k \in f + 1 .. j : tokens[k].kind \notin {"TEST", "STOP"}

\* Verifier v, token i, is credited with what lies between it and the pass before it.
IsEarned(actions, tokens, i, v) ==
  LET passes == {j \in 1 .. i - 1 : tokens[j].kind = "TEST" /\ tokens[j].passed}
      between == Longest(passes) + 1 .. i - 1
  IN /\ v.failedAttempts = Cardinality({j \in between : tokens[j].kind = "TEST"})
     /\ v.worked <=> \E j \in between : tokens[j].kind = "EDIT" \/ Mends(tokens, j)
     /\ \A j \in between : tokens[j].kind = "EDIT" => LocalFiles(actions[j]) \subseteq v.scope

MilestonesAreEarned(actions, tokens, verifiers) ==
  /\ {v.event : v \in verifiers} = {t.event : t \in {u \in Range(tokens) : u.kind = "TEST" /\ u.passed}}
  /\ \A v \in verifiers : \E i \in DOMAIN tokens :
       tokens[i].event = v.event /\ IsEarned(actions, tokens, i, v)

ConflictsAreExplained(actions) ==
  \A c \in findConflicts(actions) : conflictReason(actions[c[1]], actions[c[2]]) # "resource_dependency"

\* A verified completion rests on a milestone that covers the file edited last.
CompletionIsMilestone(actions, tokens, milestones) ==
  hasVerifiedCompletion(actions) /\ tokens[LastEdit(actions)].kind = "EDIT" =>
    \E v \in milestones : LocalFiles(actions[LastEdit(actions)]) \subseteq v.scope

ReadinessIsBacked(actions, specs, passes, e) ==
  /\ e.ready <=> e.quality # "missing" /\ (specs = <<>> => e.quality # "weak")
  /\ e.ready /\ (\A m \in passes : isTestAction(actions[m.at])) => ~e.unverified
  /\ e.recovery = "strong" => \E i \in DOMAIN actions : isTestAction(actions[i]) /\ actionFailed(actions[i])

OutcomeIsBacked(actions, specs, e, outcome, said) ==
  LET alignment == classifyClaimAlignment(e, outcome, said)
  IN /\ e.unverified /\ specs = <<>> => outcome = "unverified_claim" /\ alignment # "strong"
     /\ alignment = "strong" => outcome = "verified_progress" /\ Posture(said) # "claims_done"
     /\ outcome = "blocked_without_resolution" /\ e.edited =>
          \E a \in Range(AfterLastEdit(actions)) : isTestAction(a)

\* The signatures of an attempt agree with what is said of its readiness and its actions.
SignaturesAreBacked(actions, e, signatures) ==
  /\ e.ready <=> "verifier-first" \in signatures
  /\ "debugger" \in signatures <=> e.recovery \in {"strong", "weak"} \/ hasDebugging(actions)
  /\ {"explorer", "risky-shipper"} \subseteq signatures => Len(actions) > CountWhere(actions, isEditAction)

EvidenceIsBacked(actions, specs, passes, e, verifierRuns) ==
  /\ ReadinessIsBacked(actions, specs, passes, e)
  /\ SignaturesAreBacked(actions, e, techniqueSignatures(actions, e, countActionKinds(actions), verifierRuns))
  /\ \A said \in Wordings : OutcomeIsBacked(actions, specs, e, classifyOutcome(e, said), said)

EvaluationIsBacked(actions, specs, matched, passes) ==
  \A baseline \in BOOLEAN :
    EvidenceIsBacked(actions, specs, passes, Evidence(actions, specs, matched, passes, baseline),
                     VerifierActions(actions, specs, matched))

MatchesAreBacked(actions, specs, matched) ==
  EvaluationIsBacked(actions, specs, matched, FreshPasses(actions, matched))

EvaluationsAreBacked(actions) ==
  \A specs \in SpecLists : MatchesAreBacked(actions, specs, Matched(actions, specs))

LoopStyles == {"loop_driven_candidate", "loop_assisted"}

StyleIsEvidenced(m, style, confidence) ==
  /\ style = "loop_driven_candidate" =>
       m.actions >= 4 /\ ("loop" \in m.refs \/ (ManyCalls(m) /\ m.verifiers > 0 /\ m.edits > 0))
  /\ style \in LoopStyles => m.refs # {} \/ ManyCalls(m)
  /\ style = "prompt_driven" => m.prompts > 0
  /\ confidence = "high" => m.prompts > 0 /\ m.actions >= 6

StyleOf(m) == classifyWorkflowStyle(m, StyleScores(m))

LoopIsEvidenced(m, scores, style) ==
  StyleIsEvidenced(m, style, confidenceForClassification(style, m, scores))

\* A verifier more, after the last edit, never lowers the discipline of the work.
MetricsAreEvidenced(m, scores) ==
  /\ LoopIsEvidenced(m, scores, classifyWorkflowStyle(m, scores))
  /\ verifierDisciplineScore([m EXCEPT !.verifiers = @ + 1, !.unverified = FALSE])
       >= verifierDisciplineScore(m)

\* Working on in the same way never turns the style of a loop into that of single prompts.
StaysLoop(once, looped) == StyleOf(once) \in LoopStyles => StyleOf(looped) # "prompt_driven"

StylesAreEvidenced(actions, again) ==
  \A lineage \in Lineages :
    /\ MetricsAreEvidenced(StyleMetrics(again, lineage), StyleScores(StyleMetrics(again, lineage)))
    /\ StaysLoop(StyleMetrics(actions, lineage), StyleMetrics(again, lineage))

\* What stops after an edit that nothing verified, or works on after a verifier that
\* failed, is named by a critic as well as by a finding, and no write is unsafe whose
\* command is not restricted.
DraftsFollow(actions, tokens, findings, critics, counts) ==
  LET stops == {i \in DOMAIN tokens : tokens[i].kind = "STOP"}
  IN /\ "unverified" \in findings /\ Longest(stops) > LastEdit(actions) => critics # {}
     /\ "debugging" \in findings /\ stops = {} => "debugging" \in critics
     /\ "debugging" \in findings => counts["test"] > 0
     /\ "unsafe" \in findings <=>
          \E i \in Restricted(actions, tokens) : actions[i].risk = "destructive"

\* A file edited over and over is a conflict, and the times tell the same story as the
\* predicates: an edit that is verified has its delay, and work on a failure its latency.
ChurnIsTold(actions, delays, latency) ==
  /\ repeatedEditHotspots(writeCountsByResource(actions)) # {} => findConflicts(actions) # {}
  /\ hasVerifiedCompletion(actions) => actions[LastEdit(actions)].event \in {d.edit : d \in delays}
  /\ hasStoppedAfterEditWithoutVerification(actions) =>
       actions[LastEdit(actions)].event \notin {d.edit : d \in delays}
  /\ \A d \in delays : d.delay > 0
  /\ hasDebugging(actions) => latency # None /\ latency > 0

\* No action is counted for two runs, so no rate is above one; no run escapes the audit by
\* debugging what it does not count as failed; and what is unknown touches nothing.
AuditAdds(rows, asts, audit) ==
  /\ audit.actions = Cardinality({a.event : a \in UNION {Range(t.actions) : t \in asts}})
  /\ audit.actions <= Len(rows) /\ audit.unknown + audit.parked <= audit.actions
  /\ audit.mended = Cardinality({t \in asts : hasDebugging(t.actions)})
  /\ audit.verified + audit.unverified <= audit.edited
  /\ \A t \in asts : \A a \in Range(t.actions) : isUnknownAction(a) => a.read \cup a.written = {}

AuditAgrees(rows, asts) == AuditAdds(rows, asts, auditEffectLedgers(asts))

ReportsAgree(ast, verifiers) ==
  /\ MilestonesAreEarned(ast.actions, ast.tokens, verifiers)
  /\ DraftsFollow(ast.actions, ast.tokens, temporalFindings(Predicates(ast.actions)),
                  Critics(ast.episodes), countActionKinds(ast.actions))
  /\ ConflictsAreExplained(ast.actions)
  /\ ChurnIsTold(ast.actions, EditToVerifierDelays(ast.actions), failureRecoveryLatency(ast.actions))
  /\ CompletionIsMilestone(ast.actions, ast.tokens, Milestones(verifiers))
  /\ EvaluationsAreBacked(ast.actions)
  /\ StylesAreEvidenced(ast.actions, FlattenSeq([i \in 1 .. Laps |-> ast.actions]))
=============================================================================
