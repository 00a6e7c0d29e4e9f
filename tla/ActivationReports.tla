-------------------------- MODULE ActivationReports --------------------------
(***************************************************************************)
(* What is read out of the activation tables: the report of a job, the     *)
(* associations of a zone (src/src/activation/reports.ts) and the zones    *)
(* that are recommended next to others (recommendations.ts).  Every report *)
(* is a function of the tables; a reader may come between any two          *)
(* statements of a normalization.                                          *)
(*                                                                         *)
(* Measures are rounded.  They are kept here in units of 1/Scale, where    *)
(* the code rounds to millionths.                                          *)
(***************************************************************************)
EXTENDS ZoneAssociations

CONSTANTS ZoneIds,  \* the zones in the order of their ids
          Scale     \* units per one

ASSUME ReportAssumption ==
  /\ ZoneIds \in Seq(Zones) /\ Range(ZoneIds) = Zones /\ IsInjective(ZoneIds)
  /\ IsFiniteSet(Commands)
  /\ Scale \in Nat \ {0}

\* roundMetric of n / d
roundMetric(n, d) == (2 * n * Scale + d) \div (2 * d)

\* roundMetric of n / Sqrt(square)
RoundedByRoot(n, square) ==
  IF n = 0 THEN 0
  ELSE CHOOSE r \in 0 .. n * Scale :
         /\ r = 0 \/ (2 * r - 1) * (2 * r - 1) * square <= 4 * n * n * Scale * Scale
         /\ (2 * r + 1) * (2 * r + 1) * square > 4 * n * n * Scale * Scale

-----------------------------------------------------------------------------
(* Associations.                                                           *)

Stored == {pair \in Pairs : association[pair] # None}

ActiveIn(zone) == {j \in Jobs : zone \in active[j]}

\* sortedPair: the pair's zone with the lower id.
LeftZone(pair) == ZoneIds[CHOOSE i \in DOMAIN ZoneIds :
                            ZoneIds[i] \in pair /\ \A k \in 1 .. i - 1 : ZoneIds[k] \notin pair]
OtherZone(pair, zone) == CHOOSE other \in pair : other # zone

Observations(pair) == {j \in Jobs : observation[pair][j] # None}

Floored(n) == IF n < 0 THEN 0 ELSE n

\* enrichZoneAssociation: the product of the two zones' jobs normalizes the support,
\* and their union, as far as it was observed, gives the Jaccard weight.
Enriched(pair) ==
  LET counters == association[pair]
      known == counters.positive + counters.negative
      left == Cardinality(ActiveIn(LeftZone(pair)))
      right == Cardinality(ActiveIn(OtherZone(pair, LeftZone(pair))))
      support == Cardinality(Observations(pair))
      union == left + right - support
  IN [support    |-> counters.support,
      positive   |-> counters.positive,
      negative   |-> counters.negative,
      unknown    |-> Floored(counters.support - known),
      success    |-> IF known > 0 THEN roundMetric(counters.positive, known) ELSE None,
      normalized |-> IF left * right > 0 THEN RoundedByRoot(support, left * right) ELSE 0,
      jaccard    |-> IF union > 0 THEN roundMetric(support, union) ELSE 0]

\* getZoneAssociationReport, of one zone or of all.
ZoneAssociationReport(zone) ==
  [pair \in {pair \in Stored : zone = None \/ zone \in pair} |-> Enriched(pair)]

-----------------------------------------------------------------------------
(* The report of a job.                                                    *)

\* countBy
countBy(statuses, values) == [v \in values |-> Cardinality({k \in DOMAIN statuses : statuses[k] = v})]

Rows(statuses) == [k \in {k \in DOMAIN statuses : statuses[k] # None} |-> statuses[k]]

\* listJobZoneAssociations: the associations of the pairs the job is coactive in.
JobZoneAssociations(j) == [pair \in coactive[j] \cap Stored |-> Enriched(pair)]

\* summarizeJobActivations
Summary(j) ==
  [commands     |-> countBy(Rows(commands[j]), CommandStatuses),
   deployments  |-> countBy(Rows(deployments[j]), CommandStatuses),
   uniqueZones  |-> Cardinality(active[j]),
   coactivations |-> Cardinality(coactive[j])]

JobActivationReport(j) ==
  [summary      |-> Summary(j),
   zones        |-> active[j],
   coactivations |-> coactive[j],
   associations |-> JobZoneAssociations(j)]

-----------------------------------------------------------------------------
(* Recommendations.                                                        *)

\* associationSourceZones
SourceZones(pair, seeds) == IF seeds = {} THEN {LeftZone(pair)} ELSE pair \cap seeds

\* associationTargetZone: where the sources lead.
TargetZone(pair, sources) ==
  IF LeftZone(pair) \in sources THEN OtherZone(pair, LeftZone(pair)) ELSE LeftZone(pair)

\* A score that unknown outcomes give nothing to.
ScoreOfKnown(row) ==
  LET known == row.positive + row.negative
  IN IF known > 0 THEN row.normalized * row.positive ELSE 0

\* associationRecommendationScore: half the balance as long as no outcome is known.
RecommendationScore(row) ==
  LET balance == row.support + row.positive - row.negative
      known == row.positive + row.negative
  IN Floored(IF known > 0 THEN (2 * row.normalized * balance * row.positive + known) \div (2 * known)
             ELSE (row.normalized * balance + 1) \div 2)

\* The associations that recommend a zone beside the seeds.
Recommending(seeds, includeNonPositive) ==
  {pair \in Stored :
     LET sources == SourceZones(pair, seeds) IN
     /\ sources # {} /\ TargetZone(pair, sources) \notin seeds
     /\ includeNonPositive \/ RecommendationScore(Enriched(pair)) > 0}

Total(linking, column) == SumFunctionOnSet([pair \in linking |-> Enriched(pair)[column]], linking)

TotalScore(linking) == SumFunctionOnSet([pair \in linking |-> RecommendationScore(Enriched(pair))], linking)

\* toRecommendation, of the associations that lead to one target.
Recommendation(target, linking, seeds) ==
  LET positive == Total(linking, "positive")
      known == positive + Total(linking, "negative")
  IN [target   |-> target,
      sources  |-> UNION {SourceZones(pair, seeds) : pair \in linking},
      score    |-> TotalScore(linking),
      support  |-> Total(linking, "support"),
      positive |-> positive,
      negative |-> known - positive,
      unknown  |-> Total(linking, "unknown"),
      success  |-> IF known > 0 THEN roundMetric(positive, known) ELSE None,
      jobs     |-> UNION {Observations(pair) : pair \in linking}]

\* recommendZoneAssociations, all of them.
Recommendations(seeds, includeNonPositive) ==
  LET linking == Recommending(seeds, includeNonPositive)
      Target(pair) == TargetZone(pair, SourceZones(pair, seeds))
  IN {Recommendation(target, {pair \in linking : Target(pair) = target}, seeds) :
        target \in {Target(pair) : pair \in linking}}

\* The order they are listed in; names of zones are in the order of their ids.
Precedes(a, b) ==
  \/ a.score > b.score
  \/ a.score = b.score /\ a.support > b.support
  \/ /\ a.score = b.score /\ a.support = b.support
     /\ \E i, k \in DOMAIN ZoneIds : i < k /\ ZoneIds[i] = a.target /\ ZoneIds[k] = b.target

Ranked(recommendations) ==
  CHOOSE s \in [1 .. Cardinality(recommendations) -> recommendations] :
    \A i, k \in DOMAIN s : i < k => Precedes(s[i], s[k])

\* recommendZoneAssociations, the best ones.
Best(seeds, includeNonPositive, limit) ==
  LET listed == Ranked(Recommendations(seeds, includeNonPositive))
  IN SubSeq(listed, 1, IF limit < Len(listed) THEN limit ELSE Len(listed))

-----------------------------------------------------------------------------
\* Whenever a report is read, also between two statements and after runs that were cut
\* off: a job's pairs are of zones it is active in, its associations are of its pairs,
\* and the support that a pair was observed with is at most the jobs its two zones
\* share, so that neither measure of it exceeds one
\* (src/src/activation/reports.ts:292, derivation.ts:89).
ReportsAreShares ==
  /\ \A j \in Jobs :
       LET report == JobActivationReport(j) IN
       /\ \A pair \in report.coactivations : pair \subseteq report.zones
       /\ DOMAIN report.associations \subseteq report.coactivations
       /\ report.summary.deployments["failed"] <= report.summary.commands["failed"]
  /\ LET report == ZoneAssociationReport(None) IN
     \A pair \in DOMAIN report :
       /\ Observations(pair) \subseteq ActiveIn(LeftZone(pair)) \cap ActiveIn(OtherZone(pair, LeftZone(pair)))
       /\ report[pair].jaccard <= report[pair].normalized
       /\ report[pair].normalized <= Scale

-----------------------------------------------------------------------------
\* The jobs that touch the target together with one of these zones, each as often as
\* it does so.
Links(target, zones, results) ==
  {link \in Jobs \X zones :
     /\ {link[2], target} \in PairsOf(link[1], normalized)
     /\ OutcomeOf(link[1], normalized) \in results}

Linked(target, zones) == {zone \in zones : Links(target, {zone}, Outcomes) # {}}

\* The zones that lead to a target: the seeds, or without seeds those of lower id.
LeadingTo(target, seeds) ==
  IF seeds # {} THEN seeds
  ELSE {zone \in Zones \ {target} : LeftZone({zone, target}) = zone}

\* Two zones that share a job have a normalized weight above nothing.
Resolved == Cardinality(Jobs) <= 2 * Scale

\* With one process, what is recommended is what counting the events' jobs once more
\* gives: the zones that share jobs with the seeds, never a seed, each with the jobs
\* that say so by their latest outcomes; and all of them but those of which every
\* known outcome with every seed is a failure, unless millionths cannot tell its share
\* of so many jobs from none
\* (src/src/activation/recommendations.ts:31).
RecommendationsRecount ==
  (running = {} /\ aborts = 0) =>
    \A seeds \in SUBSET Zones :
      LET all == Recommendations(seeds, TRUE)
          Leading(target) == LeadingTo(target, seeds)
      IN /\ {r.target : r \in all} = {z \in Zones \ seeds : Linked(z, Leading(z)) # {}}
         /\ \A r \in all :
              /\ r.sources = Linked(r.target, Leading(r.target))
              /\ r.support = Cardinality(Links(r.target, Leading(r.target), Outcomes))
              /\ r.positive = Cardinality(Links(r.target, Leading(r.target), {"positive"}))
              /\ r.negative = Cardinality(Links(r.target, Leading(r.target), {"negative"}))
              /\ r.unknown = r.support - r.positive - r.negative
              /\ r.jobs = {link[1] : link \in Links(r.target, Leading(r.target), Outcomes)}
         /\ Resolved => {r.target : r \in Recommendations(seeds, FALSE)} =
              {z \in Zones \ seeds : \E zone \in Linked(z, Leading(z)) :
                 \/ Links(z, {zone}, {"positive"}) # {}
                 \/ Links(z, {zone}, {"negative"}) = {}}
         /\ \A limit \in 1 .. 2 :
              LET best == Best(seeds, TRUE, limit) IN
              \A r \in all \ Range(best) :
                Len(best) = limit /\ \A k \in DOMAIN best : best[k].score >= r.score
=============================================================================
