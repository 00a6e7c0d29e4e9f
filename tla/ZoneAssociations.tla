-------------------------- MODULE ZoneAssociations --------------------------
(***************************************************************************)
(* Zone associations: what a normalization run records for the job of each *)
(* event (recordJob, recordCommandActivation, recordPathActivation in      *)
(* src/src/activation/records.ts) and then derives for every job it met    *)
(* (src/src/activation/derivation.ts): the zones the job was active in,    *)
(* the pairs of zones it was active in together, one observation per pair  *)
(* and job with the job's outcome, and the counters of each pair.          *)
(*                                                                         *)
(* The counters are kept up by difference: a process reads the observation *)
(* it is about to replace and later adds what changed.  The read, the      *)
(* upsert and the update are statements of their own.                      *)
(***************************************************************************)
EXTENDS NormalizationRunner, Integers

CONSTANTS Jobs,     \* one per (session, turn)
          Zones,
          Commands,
          Deploying, \* the commands that are deployments
          Facts,    \* what the normalizer extracted from each event
          None

CommandStatuses == {"unknown", "attempted", "succeeded", "failed"}
Outcomes == {"unknown", "positive", "negative"}
Pairs == {pair \in SUBSET Zones : Cardinality(pair) = 2}
Counters == [support : Nat, positive : Int, negative : Int, weight : Int]

ASSUME AssociationAssumption ==
  /\ IsFiniteSet(Procs) /\ IsFiniteSet(Jobs) /\ IsFiniteSet(Zones)
  /\ Deploying \subseteq Commands
  /\ None \notin Commands \cup CommandStatuses \cup Outcomes \cup Counters
  /\ Facts \in [Events -> [job: Jobs, zones: SUBSET Zones, stop: BOOLEAN,
                           command: Commands \cup {None}, status: CommandStatuses \cup {None}]]
  /\ \A e \in Events : Facts[e].command # None => Facts[e].status # None

VARIABLES jobStatus,   \* jobs.status
          commands,    \* command_activations.status, per job and command
          deployments, \* deployment_actions.status, per job and command
          touched,     \* zones the job's paths, commands and deployments match
          active,      \* zone_activations
          coactive,    \* zone_coactivations: pairs of zones, per job
          observation, \* zone_association_observations: outcome per pair and job
          association, \* zone_associations: the counters of each pair
          at,          \* the statement a process is at
          derive,      \* the jobs it still has to derive
          outcome,     \* the outcome it has inferred for the first of them
          pairs,       \* the pairs of that job it still has to update
          old          \* the observation it is about to replace

facts == <<jobStatus, commands, deployments, touched>>
derived == <<active, coactive, observation, association>>
local == <<at, derive, outcome, pairs, old>>
vars == <<runnerVars, facts, derived, local>>

Statements == {"job", "command", "deploy", "paths", "mark",
               "zones", "pairs", "outcome", "list", "ensure", "old", "observe", "count"}

\* Rows hold values of their columns; support_count does not go below 0, while the
\* outcome counters, which are moved by differences, are only integers.
TypeOK ==
  /\ RunnerTypeOK
  /\ jobStatus \in [Jobs -> {"none", "started", "completed"}]
  /\ \A j \in Jobs, c \in Commands : commands[j][c] \in CommandStatuses \cup {None}
  /\ \A j \in Jobs, c \in Deploying : deployments[j][c] \in CommandStatuses \cup {None}
  /\ touched \in [Jobs -> SUBSET Zones] /\ active \in [Jobs -> SUBSET Zones]
  /\ coactive \in [Jobs -> SUBSET Pairs]
  /\ \A pair \in Pairs, j \in Jobs : observation[pair][j] \in Outcomes \cup {None}
  /\ association \in [Pairs -> Counters \cup {None}]
  /\ at \in [Procs -> Statements]
  /\ \A p \in Procs : Range(derive[p]) \subseteq Jobs /\ Range(pairs[p]) \subseteq Pairs
  /\ outcome \in [Procs -> Outcomes]
  /\ old \in [Procs -> Outcomes \cup {None}]

Init ==
  /\ RunnerInit
  /\ jobStatus = [j \in Jobs |-> "none"]
  /\ commands = [j \in Jobs |-> [c \in Commands |-> None]]
  /\ deployments = [j \in Jobs |-> [c \in Deploying |-> None]]
  /\ touched = [j \in Jobs |-> {}]
  /\ active = [j \in Jobs |-> {}]
  /\ coactive = [j \in Jobs |-> {}]
  /\ observation = [pair \in Pairs |-> [j \in Jobs |-> None]]
  /\ association = [pair \in Pairs |-> None]
  /\ at = [p \in Procs |-> "job"]
  /\ derive = [p \in Procs |-> <<>>]
  /\ outcome = [p \in Procs |-> "unknown"]
  /\ pairs = [p \in Procs |-> <<>>]
  /\ old = [p \in Procs |-> None]

-----------------------------------------------------------------------------
(* The facts of an event.                                                  *)

Fact(p) == Facts[Current(p)]

Recording(p, statement) == Working(p) /\ at[p] = statement
Goto(p, statement) == at' = [at EXCEPT ![p] = statement]

\* The event's job is derived at the end of the run, each job once.
Met(p) == IF Fact(p).job \in Range(derive[p]) THEN <<>> ELSE <<Fact(p).job>>

\* recordJob: the status is that of the event applied last.
RecordJob(p) ==
  /\ Recording(p, "job")
  /\ jobStatus' = [jobStatus EXCEPT ![Fact(p).job] = IF Fact(p).stop THEN "completed" ELSE "started"]
  /\ derive' = [derive EXCEPT ![p] = @ \o Met(p)]
  /\ Goto(p, IF Fact(p).command = None THEN "paths" ELSE "command")
  /\ UNCHANGED <<runnerVars, commands, deployments, touched, derived, outcome, pairs, old>>

\* An upsert in which the last writer wins.
MergeLast(before, new) == new

Severity(status) ==
  CASE status = None                     -> 0
    [] status \in {"unknown", "attempted"} -> 1
    [] status = "succeeded"              -> 2
    [] status = "failed"                 -> 3

\* The status of a command activation after an upsert.
Merge(before, new) == IF Severity(new) >= Severity(before) THEN new ELSE before

RecordCommand(p) ==
  /\ Recording(p, "command")
  /\ commands' = [commands EXCEPT ![Fact(p).job][Fact(p).command] = Merge(@, Fact(p).status)]
  /\ Goto(p, IF Fact(p).command \in Deploying THEN "deploy" ELSE "paths")
  /\ UNCHANGED <<runnerVars, jobStatus, deployments, touched, derived, derive, outcome, pairs, old>>

\* recordDeploymentAction: the status is that of the event applied last.
RecordDeployment(p) ==
  /\ Recording(p, "deploy")
  /\ deployments' = [deployments EXCEPT ![Fact(p).job][Fact(p).command] = Fact(p).status]
  /\ Goto(p, "paths")
  /\ UNCHANGED <<runnerVars, jobStatus, commands, touched, derived, derive, outcome, pairs, old>>

\* Path activations, and the zones that the command and its deployment match.
RecordPaths(p) ==
  /\ Recording(p, "paths")
  /\ touched' = [touched EXCEPT ![Fact(p).job] = @ \cup Fact(p).zones]
  /\ Goto(p, "mark")
  /\ UNCHANGED <<runnerVars, jobStatus, commands, deployments, derived, derive, outcome, pairs, old>>

Mark(p) ==
  /\ Recording(p, "mark")
  /\ MarkNormalized(p)
  /\ Goto(p, IF Len(batch[p]) = 1 THEN "zones" ELSE "job")
  /\ UNCHANGED <<facts, derived, derive, outcome, pairs, old>>

-----------------------------------------------------------------------------
(* The derivation, job by job.                                             *)

Job(p) == Head(derive[p])
Pair(p) == Head(pairs[p])
Deriving(p, statement) == p \in running /\ batch[p] = <<>> /\ derive[p] # <<>> /\ at[p] = statement

\* deriveZoneActivationsForJob: its inserts ignore what is there.
DeriveZones(p) ==
  /\ Deriving(p, "zones")
  /\ active' = [active EXCEPT ![Job(p)] = @ \cup touched[Job(p)]]
  /\ Goto(p, "pairs")
  /\ UNCHANGED <<runnerVars, facts, coactive, observation, association, derive, outcome, pairs, old>>

\* Pairs of the zones that the recorded facts match by now.
DerivePairsOfTouched(p) ==
  /\ Deriving(p, "pairs")
  /\ coactive' = [coactive EXCEPT ![Job(p)] = @ \cup {pair \in Pairs : pair \subseteq touched[Job(p)]}]
  /\ Goto(p, "outcome")
  /\ UNCHANGED <<runnerVars, facts, active, observation, association, derive, outcome, pairs, old>>

\* deriveZoneCoactivationsForJob
DerivePairs(p) ==
  /\ Deriving(p, "pairs")
  /\ coactive' = [coactive EXCEPT ![Job(p)] = @ \cup {pair \in Pairs : pair \subseteq active[Job(p)]}]
  /\ Goto(p, "outcome")
  /\ UNCHANGED <<runnerVars, facts, active, observation, association, derive, outcome, pairs, old>>

\* An outcome that is a command status.
InferStatus(statuses) ==
  IF statuses = {} THEN "unknown"
  ELSE IF "failed" \in statuses THEN "failed"
  ELSE IF statuses = {"succeeded"} THEN "succeeded"
  ELSE "unknown"

\* inferJobOutcome, of the statuses of a job's commands.
Infer(statuses) ==
  IF statuses = {} THEN "unknown"
  ELSE IF "failed" \in statuses THEN "negative"
  ELSE IF statuses = {"succeeded"} THEN "positive"
  ELSE "unknown"

InferOutcome(p) ==
  /\ Deriving(p, "outcome")
  /\ outcome' = [outcome EXCEPT ![p] = Infer(Range(commands[Job(p)]) \ {None})]
  /\ Goto(p, "list")
  /\ UNCHANGED <<runnerVars, facts, derived, derive, pairs, old>>

\* Where a process goes with these pairs of its job left.
WithPairs(p, left) ==
  /\ pairs' = [pairs EXCEPT ![p] = left]
  /\ derive' = IF left = <<>> THEN [derive EXCEPT ![p] = Tail(@)] ELSE derive
  /\ Goto(p, IF left # <<>> THEN "ensure" ELSE IF Len(derive[p]) = 1 THEN "job" ELSE "zones")

\* listZoneCoactivations, in a fixed order.
ListPairs(p) ==
  /\ Deriving(p, "list")
  /\ WithPairs(p, SetToSeq(coactive[Job(p)]))
  /\ UNCHANGED <<runnerVars, facts, derived, outcome, old>>

EnsureAssociation(p) ==
  /\ Deriving(p, "ensure")
  /\ association' = [association EXCEPT ![Pair(p)] =
       IF @ = None THEN [support |-> 0, positive |-> 0, negative |-> 0, weight |-> 0] ELSE @]
  /\ Goto(p, "old")
  /\ UNCHANGED <<runnerVars, facts, active, coactive, observation, derive, outcome, pairs, old>>

\* A missing observation read as the outcome of a job without commands.
ReadOldOrUnknown(p) ==
  /\ Deriving(p, "old")
  /\ LET found == observation[Pair(p)][Job(p)]
     IN old' = [old EXCEPT ![p] = IF found = None THEN "unknown" ELSE found]
  /\ Goto(p, "observe")
  /\ UNCHANGED <<runnerVars, facts, derived, derive, outcome, pairs>>

ReadOld(p) ==
  /\ Deriving(p, "old")
  /\ old' = [old EXCEPT ![p] = observation[Pair(p)][Job(p)]]
  /\ Goto(p, "observe")
  /\ UNCHANGED <<runnerVars, facts, derived, derive, outcome, pairs>>

Observe(p) ==
  /\ Deriving(p, "observe")
  /\ observation' = [observation EXCEPT ![Pair(p)][Job(p)] = outcome[p]]
  /\ Goto(p, "count")
  /\ UNCHANGED <<runnerVars, facts, active, coactive, association, derive, outcome, pairs, old>>

Is(value, wanted) == IF value = wanted THEN 1 ELSE 0

\* Counters that add the new outcome and do not take the old one back.
CountedWithoutOld(counters, before, new) ==
  LET positive == Is(new, "positive")
      negative == Is(new, "negative")
      first == Is(before, None)
  IN [support  |-> counters.support + first,
      positive |-> counters.positive + positive,
      negative |-> counters.negative + negative,
      weight   |-> counters.support + first + counters.positive + positive
                   - counters.negative - negative]

\* Counters whose weight is computed before the new support is added.
CountedLate(counters, before, new) ==
  LET positive == Is(new, "positive") - Is(before, "positive")
      negative == Is(new, "negative") - Is(before, "negative")
  IN [support  |-> counters.support + Is(before, None),
      positive |-> counters.positive + positive,
      negative |-> counters.negative + negative,
      weight   |-> counters.support + counters.positive + positive - counters.negative - negative]

\* The counters after an observation `before` became `new`.
Counted(counters, before, new) ==
  LET positive == Is(new, "positive") - Is(before, "positive")
      negative == Is(new, "negative") - Is(before, "negative")
      first == Is(before, None)
  IN [support  |-> counters.support + first,
      positive |-> counters.positive + positive,
      negative |-> counters.negative + negative,
      weight   |-> counters.support + first + counters.positive + positive
                   - counters.negative - negative]

Count(p) ==
  /\ Deriving(p, "count")
  /\ association' = [association EXCEPT ![Pair(p)] =
                       IF old[p] = outcome[p] THEN @ ELSE Counted(@, old[p], outcome[p])]
  /\ WithPairs(p, Tail(pairs[p]))
  /\ UNCHANGED <<runnerVars, facts, active, coactive, observation, outcome, old>>

-----------------------------------------------------------------------------
\* A run that returns once its last job is derived.
Return(p) ==
  /\ EndRun(p) /\ derive[p] = <<>>
  /\ UNCHANGED <<facts, derived, local>>

Abort(p) ==
  /\ AbortRun(p)
  /\ Goto(p, "job")
  /\ derive' = [derive EXCEPT ![p] = <<>>]
  /\ pairs' = [pairs EXCEPT ![p] = <<>>]
  /\ UNCHANGED <<facts, derived, outcome, old>>

Record(e) == RecordEvent(e) /\ UNCHANGED <<facts, derived, local>>
Start(p) == ListEvents(p) /\ UNCHANGED <<facts, derived, local>>

Apply(p) == RecordJob(p) \/ RecordCommand(p) \/ RecordDeployment(p) \/ RecordPaths(p) \/ Mark(p)

Derive(p) ==
  \/ DeriveZones(p) \/ DerivePairs(p) \/ InferOutcome(p) \/ ListPairs(p)
  \/ EnsureAssociation(p) \/ ReadOld(p) \/ Observe(p) \/ Count(p)

Next ==
  \/ \E e \in Events : Record(e)
  \/ \E p \in Procs : Start(p) \/ Apply(p) \/ Derive(p) \/ Return(p) \/ Abort(p)

Spec == Init /\ [][Next]_vars

-----------------------------------------------------------------------------
\* The weight that recommendations rank by is the balance of the counters in the
\* same row, whichever processes updated them in whatever order.
WeightIsBalance ==
  \A pair \in Pairs : association[pair] # None =>
    LET counters == association[pair]
    IN counters.weight = counters.support + counters.positive - counters.negative

Observed(pair) == {j \in Jobs : observation[pair][j] # None}
Support(pair) == IF association[pair] = None THEN 0 ELSE association[pair].support

\* The processes that have observed a pair and not yet counted it.
Counting(pair) == {p \in Procs : at[p] = "count" /\ Pair(p) = pair}

\* A job's observation goes uncounted only where a run was cut off between the two
\* statements: one cut-off run loses at most one, races lose none.
UncountedNeedsAbort ==
  \A pair \in Pairs :
    Cardinality(Observed(pair)) <= Support(pair) + Cardinality(Counting(pair)) + aborts

EventsOf(j, events) == {e \in events : Facts[e].job = j}
StatusesOf(j, c, events) == {Facts[e].status : e \in {x \in EventsOf(j, events) : Facts[x].command = c}}

\* The status of a command is the worst that its normalized events say, or what a
\* recorded one says that is worse, although retries and other processes apply old
\* events after new ones; a deployment, whose status is overwritten, is never reported
\* as worse or as better known than the command that carried it out.
CommandsAreWorstSeen ==
  \A j \in Jobs, c \in Commands :
    /\ commands[j][c] \in StatusesOf(j, c, recorded) \cup {None}
    /\ \A status \in StatusesOf(j, c, normalized) : Severity(commands[j][c]) >= Severity(status)
    /\ c \in Deploying => Severity(deployments[j][c]) <= Severity(commands[j][c])

ZonesOf(j, events) == UNION {Facts[e].zones : e \in EventsOf(j, events)}
PairsOf(j, events) == {pair \in Pairs : pair \subseteq ZonesOf(j, events)}

\* Once every run has returned, each pair of zones that a job's normalized events
\* touch is derived and observed, also when one process recorded the one zone and
\* another process the other.  (A run cut off after it marked its events leaves
\* their jobs as they are until another event of the job arrives.)
NormalizedIsDerived ==
  (running = {} /\ aborts = 0) =>
    \A j \in Jobs : \A pair \in PairsOf(j, normalized) :
      pair \in coactive[j] /\ observation[pair][j] # None

\* The rows of a job follow from its events: no status is better than the worst of them
\* (records.ts:167), no pair that they touch is missing (normalization-runner.ts:129).
RowsFollowEvents == CommandsAreWorstSeen /\ NormalizedIsDerived

\* What a job's events amount to, computed in one go.
WorstOf(statuses) ==
  IF "failed" \in statuses THEN "failed"
  ELSE IF "succeeded" \in statuses THEN "succeeded" ELSE "attempted"

OutcomeOf(j, events) ==
  LET seen == {c \in Commands : StatusesOf(j, c, events) # {}}
  IN Infer({WorstOf(StatusesOf(j, c, events)) : c \in seen})

JobsWith(pair, result) ==
  {j \in Jobs : pair \in PairsOf(j, normalized) /\ OutcomeOf(j, normalized) = result}

\* With one process, the counters kept up by difference over any number of batches
\* are those of counting each job once, by its latest outcome.
CountersAreExact ==
  (running = {} /\ aborts = 0) =>
    \A pair \in Pairs :
      LET jobs == UNION {JobsWith(pair, result) : result \in Outcomes}
      IN /\ Support(pair) = Cardinality(jobs)
         /\ jobs # {} =>
              /\ association[pair].positive = Cardinality(JobsWith(pair, "positive"))
              /\ association[pair].negative = Cardinality(JobsWith(pair, "negative"))

\* "support_count should not double for same job": no pair has more support than
\* jobs that observed it.  Two processes that read the observation of the same job
\* before either writes it both count it.
SupportCountsJobsOnce == \A pair \in Pairs : Support(pair) <= Cardinality(Observed(pair))
=============================================================================
