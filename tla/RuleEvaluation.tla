--------------------------- MODULE RuleEvaluation ----------------------------
(***************************************************************************)
(* The evaluation of learned rules: episodes of a task, with or without    *)
(* the active rules (src/src/eval/live-runner.ts), and the report that     *)
(* compares two conditions and accepts or rejects a rule                   *)
(* (src/src/eval/report.ts).                                               *)
(*                                                                         *)
(* An episode of condition B4 reads the active rules, records one          *)
(* application for each, and then runs the check of its task; the rules    *)
(* change, and the process may die, in between.  The rows of finished      *)
(* episodes are collected in a file, where a reviewer may mark a row as a  *)
(* false gate or a regression.                                             *)
(***************************************************************************)
EXTENDS LearnedRules

CONSTANTS EvalRules,    \* [tasks -> the rules whose glob matches a path of the task]
          Baselines,    \* the conditions that are compared
          MaxEpisodes,  \* bound: episodes that are started
          MaxChanges,   \* bound: rows of learned_rule_delta from which the rules change no more
          MaxNotes,     \* bound: rows that are marked
          NoEpisode

VARIABLES started,      \* episodes started so far; the last one's number is its run id
          episode,      \* the episode under way: [id, task, baseline, gates], or NoEpisode
          episodes      \* the rows of the episodes that finished

evalVars == <<started, episode, episodes>>

EvalTasks == DOMAIN EvalRules

Episode == [id : Nat, task : EvalTasks, baseline : Baselines, gates : SUBSET Rules]

ASSUME EvalAssumption ==
  /\ IsFiniteSet(EvalTasks) /\ \A task \in EvalTasks : EvalRules[task] \subseteq Rules
  /\ MaxEpisodes \in Nat
  /\ NoEpisode \notin Episode

EvalTypeOK ==
  /\ started \in 0 .. MaxEpisodes
  /\ episode = NoEpisode \/ (episode \in Episode /\ episode.id = started)
  /\ \A i \in DOMAIN episodes : episodes[i].task \in EvalTasks /\ episodes[i].gates \subseteq Rules

EvalInit == started = 0 /\ episode = NoEpisode /\ episodes = <<>>

\* What B4 emits as gates: the active rules for the paths of the task.
RuleGates(task) == {r \in EvalRules[task] : rule[r].status = "active"}

StartEpisode(task, baseline) ==
  LET gates == IF baseline = "B4" THEN RuleGates(task) ELSE {}
  IN /\ episode = NoEpisode /\ started < MaxEpisodes
     /\ started' = started + 1
     /\ episode' = [id |-> started', task |-> task, baseline |-> baseline, gates |-> gates]
     /\ IF gates = {} THEN UNCHANGED ruleVars ELSE ReadActiveRules(gates, started', task)
     /\ UNCHANGED episodes

ApplyGate == (\E r \in Rules : ApplyRule(r)) /\ UNCHANGED evalVars

\* spawnSync of the check; no exit code counts as a failure.
FinishEpisode(success) ==
  /\ episode # NoEpisode /\ applying.rules = {}
  /\ episodes' = Append(episodes, [id |-> episode.id, task |-> episode.task,
                                   baseline |-> episode.baseline, gates |-> episode.gates,
                                   success |-> success, mark |-> "none"])
  /\ episode' = NoEpisode
  /\ UNCHANGED <<started, ruleVars>>

\* The process dies: there is no row, and the applications so far stay.  An episode
\* without gates leaves nothing at all.
LoseEpisode ==
  /\ episode # NoEpisode /\ episode.gates # {}
  /\ episode' = NoEpisode
  /\ IF applying.rules = {} THEN UNCHANGED ruleVars ELSE StopApplying
  /\ UNCHANGED <<started, episodes>>

Marked == {i \in DOMAIN episodes : episodes[i].mark # "none"}

\* No other action reads a mark, so the rows are marked when the last episode is over.
MarkRow(i, mark) ==
  /\ started = MaxEpisodes /\ episode = NoEpisode
  /\ Cardinality(Marked) < MaxNotes
  /\ i \in DOMAIN episodes \ Marked
  /\ episodes' = [episodes EXCEPT ![i].mark = mark]
  /\ UNCHANGED <<started, episode, ruleVars>>

\* Meanwhile rules are created and retired, and outcomes recorded.
ChangeRules ==
  /\ Len(ruleLog) < MaxChanges
  /\ \/ \E r \in Rules : CreateRule(r, "active") \/ SetRuleStatus(r, "retired")
     \/ \E i \in DOMAIN episodes : RecordRuleOutcome(episodes[i].id, "helpful")
  /\ UNCHANGED evalVars

EvalNext ==
  \/ \E task \in EvalTasks, baseline \in Baselines : StartEpisode(task, baseline)
  \/ ApplyGate
  \/ \E success \in BOOLEAN : FinishEpisode(success)
  \/ LoseEpisode
  \/ \E i \in DOMAIN episodes, mark \in {"false_gate", "regression"} : MarkRow(i, mark)
  \/ ChangeRules

-----------------------------------------------------------------------------
(* The report.                                                             *)

Rows(baseline) == {i \in DOMAIN episodes : episodes[i].baseline = baseline}

\* In ten-thousandths, rounded half up.
rate(counted, total) == (20000 * Cardinality(counted) + Cardinality(total)) \div (2 * Cardinality(total))

summarizeBaseline(rows) ==
  [successRate    |-> rate({i \in rows : episodes[i].success}, rows),
   falseGateRate  |-> rate({i \in rows : episodes[i].mark = "false_gate"}, rows),
   regressionRate |-> rate({i \in rows : episodes[i].mark = "regression"}, rows)]

\* Token costs are not recorded by a local episode, so they never decide.
decideRuleGate(baseline, treatment) ==
  IF \/ treatment.falseGateRate > baseline.falseGateRate
     \/ treatment.regressionRate > baseline.regressionRate
     \/ treatment.successRate <= baseline.successRate
  THEN "reject" ELSE "accept"

\* There is a gate only when both conditions have rows.
buildEvalReport(baseline, treatment) ==
  IF Rows(baseline) = {} \/ Rows(treatment) = {} THEN "none"
  ELSE decideRuleGate(summarizeBaseline(Rows(baseline)), summarizeBaseline(Rows(treatment)))

-----------------------------------------------------------------------------
TaskRows(baseline, task) == {i \in Rows(baseline) : episodes[i].task = task}
Passed(rows) == {i \in rows : episodes[i].success}
WithMark(rows, mark) == {i \in rows : episodes[i].mark = mark}

SameTasks(b, t) ==
  \A task \in EvalTasks : Cardinality(TaskRows(b, task)) = Cardinality(TaskRows(t, task))

\* A rate has ten thousand steps: of more rows it does not tell every difference.
Resolved(b) == Cardinality(Rows(b)) <= 10000

\* On the same tasks a rule is accepted only for a task that passed more often with it,
\* and, where the rates tell them apart, with no more false gates or regressions; and no
\* two conditions each beat the other.
AcceptanceIsEarned ==
  \A b, t \in Baselines : buildEvalReport(b, t) = "accept" =>
    /\ buildEvalReport(t, b) = "reject"
    /\ SameTasks(b, t) =>
         /\ \E task \in EvalTasks :
              Cardinality(Passed(TaskRows(t, task))) > Cardinality(Passed(TaskRows(b, task)))
         /\ Resolved(b) => \A mark \in {"false_gate", "regression"} :
              Cardinality(WithMark(Rows(t), mark)) <= Cardinality(WithMark(Rows(b), mark))

\* The gates of a row are applications of its run and of no other, and only the
\* condition with rules leaves applications, each counted at most once.
GatesAreApplied ==
  /\ \A i \in DOMAIN episodes :
       {a.rule : a \in {c \in DOMAIN applications : c.run = episodes[i].id}} = episodes[i].gates
  /\ \A i \in DOMAIN episodes : episodes[i].gates # {} => episodes[i].baseline = "B4"

EvaluationIsEarned == AcceptanceIsEarned /\ GatesAreApplied
=============================================================================
