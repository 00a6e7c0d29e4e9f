---------------------------- MODULE LessonLearning ---------------------------
(***************************************************************************)
(* The learning loop around the blind pipeline: `pipeline learn` judges    *)
(* the failing tests of a batch of runs, promotes what recurs to lesson    *)
(* files of a shared library, and charges or credits the lessons the runs  *)
(* were given; `pipeline run --lessons` selects from the library           *)
(* (src/lyo/judge/trace-consumer.ts, src/lyo/storage/lesson-library.ts).   *)
(*                                                                         *)
(* A learn command loads its runs and waits for the judge, then does all   *)
(* its writing without a pause.  A lesson file is named by the place of    *)
(* its class in the batch and the class, so a later batch may overwrite    *)
(* it.  What the judge answers is any choice of classes for the failures.  *)
(*                                                                         *)
(* A run of the loop takes the trees of its writers for granted; what is   *)
(* in them is StageSeparation's.  Beside the lessons the program learns     *)
(* rules, which share no table with them.  A behaviour is of the loop, of  *)
(* the inside of one run, of the rules, or of their evaluation.            *)
(***************************************************************************)
EXTENDS BlindPipeline, StageSeparation, RuleEvaluation, FiniteSetsExt

CONSTANTS
  Classes,       \* the classes the judge chooses from
  Vehicles,      \* how a lesson is delivered: prose, skeleton-patch, spec-constraint
  Gates,         \* the gate modes learn is called with
  Batches,       \* the sequences of run directories learn is called with
  Libraries,     \* the libraries a behaviour may start from
  LessonLimit,   \* DEFAULT_LESSON_LIMIT
  MaxLearns,     \* bound: learn commands
  MaxReviews     \* bound: reviews of proposals

VARIABLES
  library,       \* the lesson files, by place and class
  learning,      \* the batch a learn command has loaded
  proposals,     \* the specification proposals in each run directory
  charges,       \* history: what each lesson was charged for since installed
  learns,        \* count of learn commands
  reviews,       \* count of reviews
  active         \* what the behaviour is of: the loop, the inside of a run, the rules
                 \* or their evaluation

learnVars == <<library, learning, proposals, charges, learns, reviews>>
allVars == <<vars, learnVars, stageVars, ruleVars, evalVars, active>>

Slots == (1 .. 3) \X Classes
ClassOf(s) == s[2]

IsLesson(lesson) ==
  /\ lesson = [vehicle |-> lesson.vehicle, helpful |-> lesson.helpful,
               harmful |-> lesson.harmful, observed |-> lesson.observed]
  /\ lesson.vehicle \in Vehicles /\ lesson.helpful \in Nat /\ lesson.harmful \in Nat

\* What earlier learn commands have left was observed twice, as PromotionNeedsRecurrence
\* says of what new ones add.
ASSUME LearningAssumption ==
  /\ \A left \in Libraries, s \in Slots : left[s] # None =>
       IsLesson(left[s]) /\ Cardinality(DOMAIN left[s].observed) >= 2
  /\ Batches \subseteq Seq(Dirs) \ {<<>>}
  /\ Gates \subseteq {"permissive", "strict"}

-----------------------------------------------------------------------------
(* The library.                                                            *)

\* spec-gap lessons are routed to no stage.
RoleByClassification ==
  ("code-bug" :> "code-writer") @@ ("test-hallucination" :> "test-writer")
    @@ ("spec-gap" :> "none")

\* Mutant: one failure is enough.
IsDemotedAtOnce(lesson) == lesson.harmful >= 1 /\ lesson.helpful = 0

\* v1 demotion rule.
IsDemoted(lesson) == lesson.harmful >= 2 /\ lesson.helpful = 0

\* Thompson sampling: any of the candidates may win, as many as there is room.
Selections(w) ==
  LET candidates == {s \in Slots : /\ library[s] # None /\ ~IsDemoted(library[s])
                                   /\ RoleByClassification[ClassOf(s)] = Role[w]}
  IN {chosen \in SUBSET candidates :
        Cardinality(chosen) = Min({LessonLimit, Cardinality(candidates)})}

\* installPromotedLessons: the promoted files are copied over what the library has
\* under their names.
installPromotedLessons(promoted) ==
  [s \in Slots |-> IF s \in DOMAIN promoted THEN promoted[s] ELSE library[s]]

\* recordLessonOutcome: the counters are lines of the file.
Credited(lesson, helpful, harmful) ==
  [lesson EXCEPT !.helpful = @ + helpful, !.harmful = @ + harmful]

-----------------------------------------------------------------------------
(* The batch: one analysis per run, then one group per class.              *)

\* The run directory holds everything loadRunEvidence reads.
Loadable(d) ==
  /\ files[d].trace # None /\ files[d].report # None
  /\ files[d].code \notin {None, Torn} /\ files[d].tests \notin {None, Torn}

\* The classes of the failing tests of a run, in the order of the report.  A
\* run whose tests could not run has no failing test and no class.
Verdicts(d) ==
  IF files[d].report.failed = 0 THEN {<<>>}
  ELSE {v \in BoundedSeq(Classes, files[d].report.failed) : v # <<>> /\ IsInjective(v)}

\* The rounds in whose inputs the trace of a run lists the lesson.
Delivered(trace, s) == {k \in DOMAIN trace.stages : s \in trace.stages[k].lessons}

Analysis(d, verdict) ==
  [run |-> d, spec |-> files[d].trace.spec, classes |-> ToSet(verdict), order |-> verdict,
   delivered |-> [s \in Slots |-> Delivered(files[d].trace, s)]]

Present(batch) == UNION {batch[i].classes : i \in DOMAIN batch}

\* The place of a class: groups are kept in order of first appearance.
Place(batch, c) ==
  LET all == FlattenSeq([i \in DOMAIN batch |-> batch[i].order])
      First(x) == Min({i \in DOMAIN all : all[i] = x})
  IN Cardinality({x \in ToSet(all) : First(x) <= First(c)})

Having(batch, c) == {i \in DOMAIN batch : c \in batch[i].classes}

Runs(batch, c) == {batch[i].run : i \in Having(batch, c)}

\* Runs of the same specification (and, here, writer model) without the class.
Clean(batch, c) ==
  {i \in DOMAIN batch :
     /\ batch[i].run \notin Runs(batch, c)
     /\ \E j \in Having(batch, c) : batch[j].spec = batch[i].spec}

\* accumulateEvidence > 1 / alpha: a recurrence multiplies the evidence by
\* p1/p0 = 5, a clean run by (1 - p1)/(1 - p0) = 5/9.
OneOverAlpha == [permissive |-> 10, strict |-> 20]
MinSpecs == [permissive |-> 1, strict |-> 2]

Power(base, exponent) ==
  LET power[n \in 0 .. exponent] == IF n = 0 THEN 1 ELSE base * power[n - 1]
  IN power[exponent]

EvidenceExceeds(recurred, clean, bound) ==
  Power(5, recurred) * Power(5, clean) > bound * Power(9, clean)

Promoted(batch, c, gate) ==
  /\ EvidenceExceeds(Cardinality(Having(batch, c)), Cardinality(Clean(batch, c)),
                     OneOverAlpha[gate])
  /\ Cardinality({batch[i].spec : i \in Having(batch, c)}) >= MinSpecs[gate]

\* Another run of the batch, of the same specification, shows the class.
Expected(batch, i, c) ==
  \E j \in Having(batch, c) : batch[j].run # batch[i].run /\ batch[j].spec = batch[i].spec

HarmfulIn(batch, s) == {i \in DOMAIN batch : ClassOf(s) \in batch[i].classes}
HelpfulIn(batch, s) ==
  {i \in DOMAIN batch \ HarmfulIn(batch, s) : Expected(batch, i, ClassOf(s))}

\* deliveredLessonPaths lists a path once per stage that was given it.
Times(batch, s, which) ==
  SumFunctionOnSet([i \in DOMAIN batch |-> Cardinality(batch[i].delivered[s])], which)

\* The deliveries of a lesson that its class came back in.
Charge(batch, s) ==
  UNION {{[learn |-> learns, place |-> i, stage |-> k] : k \in batch[i].delivered[s]} :
           i \in HarmfulIn(batch, s)}

-----------------------------------------------------------------------------
(* Actions.                                                                *)

LearningInit ==
  /\ Init
  /\ library \in Libraries
  /\ learning = None
  /\ proposals = [d \in Dirs |-> "none"]
  /\ charges = [s \in Slots |->
       IF library[s] = None THEN {}
       ELSE {[learn |-> 0, place |-> 0, stage |-> k] : k \in 1 .. library[s].harmful}]
  /\ learns = 0 /\ reviews = 0

\* `pipeline run`, with the lessons it selects or without a library.
RunStarts(d, p) ==
  /\ \E chosen \in Selections("code") \X Selections("tests") \union {<<{}, {}>>} :
       Start(d, p, [code |-> chosen[1], tests |-> chosen[2]])
  /\ UNCHANGED learnVars

\* The evidence of the batch is read and judged.  A judge that throws ends
\* the command here, before it has written anything.
LearnBegins(ds, gate) ==
  /\ learning = None /\ learns < MaxLearns
  /\ \A d \in ToSet(ds) : Loadable(d)
  /\ \E verdict \in [DOMAIN ds -> UNION {Verdicts(d) : d \in ToSet(ds)}] :
       /\ \A i \in DOMAIN ds : verdict[i] \in Verdicts(ds[i])
       /\ learning' = [gate |-> gate, out |-> Head(ds),
            batch |-> [i \in DOMAIN ds |-> Analysis(ds[i], verdict[i])]]
  /\ learns' = learns + 1
  /\ UNCHANGED <<vars, library, proposals, charges, reviews>>

\* Lesson files are written, the promoted ones copied over what the library
\* has under that name, then the lessons the runs were given are charged or
\* credited, and a gap in the specification becomes a proposal.
LearnEnds ==
  /\ learning # None
  /\ LET batch == learning.batch
         promoted == {c \in Present(batch) : Promoted(batch, c, learning.gate)}
     IN \E vehicle \in [promoted -> Vehicles], gapHasEdit \in BOOLEAN :
          LET installed == {<<Place(batch, c), c>> : c \in promoted}
              stocked == installPromotedLessons([s \in installed |->
                [vehicle |-> vehicle[ClassOf(s)], helpful |-> 0, harmful |-> 0,
                 observed |-> [i \in Having(batch, ClassOf(s)) |-> batch[i].run]]])
          IN /\ library' = [s \in Slots |->
                  IF stocked[s] = None THEN None
                  ELSE Credited(stocked[s], Times(batch, s, HelpfulIn(batch, s)),
                                            Times(batch, s, HarmfulIn(batch, s)))]
             /\ charges' = [s \in Slots |->
                  IF stocked[s] = None THEN {}
                  ELSE (IF s \in installed THEN {} ELSE charges[s]) \union Charge(batch, s)]
             /\ gapHasEdit => "spec-gap" \in Present(batch)
             /\ proposals' = IF gapHasEdit
                  THEN [proposals EXCEPT ![learning.out] = "pending"] ELSE proposals
  /\ learning' = None
  /\ UNCHANGED <<vars, learns, reviews>>

\* `pipeline proposal-review` overwrites whatever status the file has.
Review(d, status) ==
  /\ reviews < MaxReviews /\ proposals[d] \notin {"none", status}
  /\ proposals' = [proposals EXCEPT ![d] = status]
  /\ reviews' = reviews + 1
  /\ UNCHANGED <<vars, library, learning, charges, learns>>

LearnAborts ==
  /\ learning # None
  /\ learning' = None
  /\ UNCHANGED <<vars, library, proposals, charges, learns, reviews>>

LoopNext ==
  \/ Step /\ UNCHANGED learnVars
  \/ \E d \in Dirs : \E p \in UNION {Plans[n] : n \in DOMAIN Plans} : RunStarts(d, p)
  \/ \E ds \in Batches, gate \in Gates : LearnBegins(ds, gate)
  \/ LearnEnds \/ LearnAborts
  \/ \E d \in Dirs, status \in {"accepted", "rejected"} : Review(d, status)

GroupsInit ==
  /\ LearningInit /\ StageInit /\ RulesInit /\ EvalInit
  /\ active \in {"loop", "inside", "rules", "evaluation"}
  /\ active # "inside" => stagePlan = CHOOSE plan \in StagePlans : TRUE

LoopStep ==
  active = "loop" /\ LoopNext /\ UNCHANGED <<stageVars, ruleVars, evalVars, active>>

InsideStep ==
  active = "inside" /\ StageNext /\ UNCHANGED <<vars, learnVars, ruleVars, evalVars, active>>

RulesStep ==
  active = "rules" /\ RulesNext /\ UNCHANGED <<vars, learnVars, stageVars, evalVars, active>>

EvaluationStep ==
  active = "evaluation" /\ EvalNext /\ UNCHANGED <<vars, learnVars, stageVars, active>>

Next == LoopStep \/ InsideStep \/ RulesStep \/ EvaluationStep

Spec == GroupsInit /\ [][Next]_allVars

-----------------------------------------------------------------------------
(* Properties.                                                             *)

\* Type invariant of the loop: directories, ledger, library and proposals.
TypeOK ==
  /\ PipelineTypeOK /\ StageTypeOK /\ RulesTypeOK /\ EvalTypeOK
  /\ \A s \in Slots : library[s] = None \/ IsLesson(library[s])
  /\ proposals \in [Dirs -> {"none", "pending", "accepted", "rejected"}]
  /\ learning = None \/ learning.out \in Dirs

\* The gate (trace-consumer.ts:351): no lesson enters the library from a single
\* analysis, whatever the evidence arithmetic of a batch comes to.  A run that
\* the batch names twice is analysed, and counts, twice.
PromotionNeedsRecurrence ==
  \A s \in Slots : library[s] # None => Cardinality(DOMAIN library[s].observed) >= 2

\* A lesson is demoted only after its class came back at least twice in a
\* stage it was delivered to, counted since its file was installed: charges
\* survive neither a reinstallation nor reach a lesson that was not delivered.
DemotionIsEarned ==
  \A s \in Slots : library[s] # None /\ IsDemoted(library[s]) => Cardinality(charges[s]) >= 2

\* What is learned stands on what was observed: the place of a lesson on two runs that
\* showed its class, its demotion on two failures it was charged with, across promotions,
\* installations and updates of the same file (lesson-library.ts:227,
\* trace-consumer.ts:473); a rule's row and each application's mark on its log; and the
\* acceptance of a rule on tasks that passed more often with it (learned-rules.ts,
\* eval/report.ts:88).
CountersAreEarned ==
  PromotionNeedsRecurrence /\ DemotionIsEarned /\ RulesReplay /\ EvaluationIsEarned
=============================================================================
