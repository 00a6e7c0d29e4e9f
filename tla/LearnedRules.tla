---------------------------- MODULE LearnedRules -----------------------------
(***************************************************************************)
(* The store of learned rules: verifier rules for paths, their log of      *)
(* deltas, their applications to runs and the credit they get from the     *)
(* outcomes of those runs (src/src/lyo/storage/learned-rules.ts).          *)
(*                                                                         *)
(* Creating a rule, setting a status and recording an outcome are each one *)
(* transaction.  Applying the rules of a scope is not: the rules are read  *)
(* once and every application is a statement of its own.                   *)
(***************************************************************************)
EXTENDS Naturals, Sequences, FiniteSets, SequencesExt

CONSTANTS Rules,       \* rule ids
          RuleRuns,    \* runs the rules are applied to
          Triggers,    \* trigger references of applications
          MaxDeltas    \* bound: rows of learned_rule_delta

RuleStatuses == {"candidate", "active", "quarantined", "retired"}
Outcomes == {"helpful", "harmful", "neutral"}

VARIABLES rule,         \* learned_rule: the status and counters of each rule
          ruleLog,      \* learned_rule_delta, in delta_id order
          applications, \* learned_rule_application, by rule, run and trigger
          applying      \* the active rules that a call has read and not yet applied

ruleVars == <<rule, ruleLog, applications, applying>>

NoRule == [status |-> "none", helpful |-> 0, harmful |-> 0]

Application(r, run, trigger) == [rule |-> r, run |-> run, trigger |-> trigger]

RulesTypeOK ==
  /\ rule \in [Rules -> [status : RuleStatuses \cup {"none"}, helpful : Nat, harmful : Nat]]
  /\ \A i \in DOMAIN ruleLog : ruleLog[i].rule \in Rules
  /\ \A a \in DOMAIN applications : applications[a] \in {"pending"} \cup Outcomes
  /\ applying.rules \subseteq Rules

NotApplying == [rules |-> {}, run |-> 0, trigger |-> 0]

RulesInit ==
  /\ rule = [r \in Rules |-> NoRule]
  /\ ruleLog = <<>>
  /\ applications = <<>>
  /\ applying = NotApplying

Delta(r, type, application) == [rule |-> r, type |-> type, application |-> application]

HasRoom(n) == Len(ruleLog) + n <= MaxDeltas

\* createVerifierRule: the row and its CREATE delta, which holds the status.
CreateRule(r, status) ==
  /\ rule[r] = NoRule /\ HasRoom(1)
  /\ rule' = [rule EXCEPT ![r].status = status]
  /\ ruleLog' = Append(ruleLog, Delta(r, status, {}))
  /\ UNCHANGED <<applications, applying>>

\* setRuleStatus: any status may follow any other; an unknown rule rolls back.
SetRuleStatus(r, status) ==
  /\ rule[r] # NoRule /\ HasRoom(1)
  /\ rule' = [rule EXCEPT ![r].status = status]
  /\ ruleLog' = Append(ruleLog, Delta(r, status, {}))
  /\ UNCHANGED <<applications, applying>>

\* The select of applyVerifierRules, of the rules whose glob matches a path.
ReadActiveRules(matched, run, trigger) ==
  /\ applying.rules = {}
  /\ applying' = [rules |-> {r \in matched : rule[r].status = "active"},
                  run |-> run, trigger |-> trigger]
  /\ applying'.rules # {}
  /\ UNCHANGED <<rule, ruleLog, applications>>

\* insert or ignore
OpenApplication(a) ==
  [b \in DOMAIN applications \cup {a} |-> IF b \in DOMAIN applications THEN applications[b] ELSE "pending"]

ApplyRule(r) ==
  /\ r \in applying.rules
  /\ applications' = OpenApplication(Application(r, applying.run, applying.trigger))
  /\ applying' = IF applying.rules = {r} THEN NotApplying
                 ELSE [applying EXCEPT !.rules = @ \ {r}]
  /\ UNCHANGED <<rule, ruleLog>>

\* The process dies, or a statement throws.
StopApplying ==
  /\ applying.rules # {}
  /\ applying' = NotApplying
  /\ UNCHANGED <<rule, ruleLog, applications>>

Uncounted(run) == {a \in DOMAIN applications : a.run = run /\ applications[a] = "pending"}

TimesApplied(r, counted) == Cardinality({a \in counted : a.rule = r})

\* recordRuleOutcome: every application of the run that no outcome has counted.
RecordRuleOutcome(run, outcome) ==
  LET counted == Uncounted(run)
      marks == SetToSeq(counted)
  IN /\ counted # {} /\ HasRoom(Cardinality(counted))
     /\ rule' = [r \in Rules |->
          [rule[r] EXCEPT !.helpful = @ + (IF outcome = "helpful" THEN TimesApplied(r, counted) ELSE 0),
                          !.harmful = @ + (IF outcome = "harmful" THEN TimesApplied(r, counted) ELSE 0)]]
     /\ applications' = [a \in DOMAIN applications |-> IF a \in counted THEN outcome ELSE applications[a]]
     /\ ruleLog' = ruleLog \o [i \in DOMAIN marks |-> Delta(marks[i].rule, outcome, {marks[i]})]
     /\ UNCHANGED applying

RulesNext ==
  \/ \E r \in Rules, status \in RuleStatuses : CreateRule(r, status) \/ SetRuleStatus(r, status)
  \/ \E matched \in SUBSET Rules, run \in RuleRuns, trigger \in Triggers :
       ReadActiveRules(matched, run, trigger)
  \/ \E r \in Rules : ApplyRule(r)
  \/ StopApplying
  \/ \E run \in RuleRuns, outcome \in Outcomes : RecordRuleOutcome(run, outcome)

-----------------------------------------------------------------------------
DeltasOf(r, types) == {i \in DOMAIN ruleLog : ruleLog[i].rule = r /\ ruleLog[i].type \in types}

\* The log replays to the row of each rule: its last status delta is the status,
\* its marks are the counters; and an application is marked at most once, also
\* when the rules were applied or the outcome recorded again.
RulesReplay ==
  /\ \A r \in Rules :
       LET statuses == DeltasOf(r, RuleStatuses)
       IN /\ rule[r].status = IF statuses = {} THEN "none" ELSE ruleLog[Max(statuses)].type
          /\ rule[r].helpful = Cardinality(DeltasOf(r, {"helpful"}))
          /\ rule[r].harmful = Cardinality(DeltasOf(r, {"harmful"}))
  /\ \A i, j \in DOMAIN ruleLog :
       i # j => ruleLog[i].application \cap ruleLog[j].application = {}
=============================================================================
