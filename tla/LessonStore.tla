---------------------------- MODULE LessonStore ----------------------------
(***************************************************************************)
(* The lesson store (src/src/lyo/storage/lesson-store.ts): lessons whose   *)
(* counters are earned by the runs they were injected into, next to an     *)
(* append-only log of deltas from which replayLesson rebuilds them.        *)
(*                                                                         *)
(* The store has one writer, whose calls follow one another.  A call is    *)
(* one or more transactions: validating a run is one for its marks, then   *)
(* up to two statements per lesson for its status, then one for the        *)
(* curator.  The writer may throw or die between any two.                  *)
(*                                                                         *)
(* Counters are fractional.  They are kept here in units of 1/Unit.        *)
(***************************************************************************)
EXTENDS Integers, Sequences, FiniteSets, SequencesExt

CONSTANTS Lessons,        \* lesson ids, numbered in the order of their creation
          Groups,         \* pairs of failure class and normalized trigger cue
          Runs,
          Triggers,       \* messages that an intervention answers
          Weights,        \* credits that computeInjectionWeights returns, in units
          Unit,           \* units per uniform credit
          SelectionLimit, \* lessons per decision
          MarkInterval,   \* marks between two passes of the curator
          Histories,      \* logs that earlier runs have left
          MaxReflections, \* bound on the lessons proposed
          MaxDecisions,   \* bound on the decisions to inject
          MaxValidations, \* bound on the outcomes validated
          MaxCrashes,     \* bound on the calls cut off
          None

Statuses == {"candidate", "active", "quarantined", "retired"}
Marks == {"MARK_HELPFUL", "MARK_HARMFUL"}
DeltaTypes == Marks \cup {"CREATE", "EDIT", "QUARANTINE", "RETIRE", "MERGE_INTO"}

Delta == [type: DeltaTypes, lesson: Lessons, group: Groups \cup {None}, helpful: Nat,
          harmful: Nat, target: Lessons \cup {None}, injection: (Runs \X Triggers) \cup {None}]

Row == [status: Statuses, group: Groups, helpful: Nat, harmful: Nat, uses: Nat]

\* What the log says of a lesson.
ReplayedRow == [status: Statuses, group: Groups, helpful: Nat, harmful: Nat]

VARIABLES lessons,      \* rows of lesson
          log,          \* rows of lesson_delta, by delta_id
          applications, \* rows of lesson_application, in the order of their insertion
          snapshot,     \* the latest row of lesson_decision
          watermark,    \* last_curation_delta_id
          stale,        \* the lessons created more than pruneDays ago
          at,           \* what the writer does next
          chosen,       \* the lessons it still has to record as injected
          injection,    \* the run and trigger they are injected into
          todo,         \* the lessons whose status rules it still has to apply
          decisions, validations, crashes

store == <<lessons, log, applications, snapshot, watermark>>
writer == <<at, chosen, injection, todo>>
spent == <<decisions, validations, crashes>>
vars == <<store, stale, writer, spent>>

-----------------------------------------------------------------------------
(* The Wilson interval of helpful in n samples at z = 1.96, compared with  *)
(* the thresholds in whole numbers: lower > p iff helpful/n > p and        *)
(* (helpful - p n)^2 > z^2 p (1 - p) n.                                    *)

MinSamples == 8

\* lower > 0.5
WilsonAbove(helpful, n) ==
  LET excess == 2 * helpful - n
  IN excess > 0 /\ 10000 * excess * excess > 38416 * Unit * n

\* upper < 0.45
WilsonBelow(helpful, n) ==
  LET lack == 9 * n - 20 * helpful
  IN lack > 0 /\ 10000 * lack * lack > 3803184 * Unit * n

Samples(row) == row.helpful + row.harmful
Promotes(row) ==
  /\ Samples(row) >= MinSamples * Unit /\ row.status = "candidate"
  /\ WilsonAbove(row.helpful, Samples(row))
Quarantines(row) ==
  /\ Samples(row) >= MinSamples * Unit /\ row.status # "quarantined"
  /\ WilsonBelow(row.helpful, Samples(row))

foldStatusRules(row) ==
  CASE Promotes(row)    -> [row EXCEPT !.status = "active"]
    [] Quarantines(row) -> [row EXCEPT !.status = "quarantined"]
    [] OTHER            -> row

-----------------------------------------------------------------------------
(* The delta log.                                                          *)

NewDelta(type, l) == [type |-> type, lesson |-> l, group |-> None, helpful |-> 0,
                      harmful |-> 0, target |-> None, injection |-> None]

\* One delta folded into what a lesson was before it.
FoldDelta(l, row, delta) ==
  IF delta.lesson = l /\ delta.type = "CREATE"
  THEN [status |-> "candidate", group |-> delta.group, helpful |-> 0, harmful |-> 0]
  ELSE IF row = None THEN None
  ELSE IF delta.lesson = l
  THEN CASE delta.type \in Marks ->
              foldStatusRules([row EXCEPT !.helpful = @ + delta.helpful,
                                          !.harmful = @ + delta.harmful])
         [] delta.type = "QUARANTINE" -> [row EXCEPT !.status = "quarantined"]
         [] delta.type = "RETIRE"     -> [row EXCEPT !.status = "retired"]
         [] delta.type = "MERGE_INTO" -> [row EXCEPT !.status = "retired", !.helpful = 0, !.harmful = 0]
         [] OTHER                     -> row
  ELSE IF delta.target = l
  THEN [row EXCEPT !.helpful = @ + delta.helpful, !.harmful = @ + delta.harmful]
  ELSE row

replayLesson(l, deltas) ==
  LET rebuilt[n \in 0 .. Len(deltas)] ==
        IF n = 0 THEN None ELSE FoldDelta(l, rebuilt[n - 1], deltas[n])
  IN rebuilt[Len(deltas)]

\* A delta that the store may write after others: it creates a lesson once, and a
\* lesson that is merged moves all it has to another one.
Follows(delta, before) ==
  LET row == replayLesson(delta.lesson, before) IN
  /\ IF delta.type = "CREATE" THEN row = None /\ delta.group # None ELSE row # None
  /\ IF delta.type = "MERGE_INTO"
     THEN /\ delta.target \in Lessons \ {delta.lesson} /\ replayLesson(delta.target, before) # None
          /\ delta.helpful = row.helpful /\ delta.harmful = row.harmful
     ELSE delta.target = None

IsLog(deltas) == \A n \in DOMAIN deltas : Follows(deltas[n], SubSeq(deltas, 1, n - 1))

\* A log of runs that are over.
IsHistory(deltas) ==
  deltas \in Seq(Delta) /\ IsLog(deltas) /\ \A n \in DOMAIN deltas : deltas[n].injection = None

ASSUME LessonAssumption ==
  /\ Lessons \subseteq Nat /\ IsFiniteSet(Lessons)
  /\ None \notin Row \cup ReplayedRow \cup Lessons \cup Groups \cup (Runs \X Triggers)
  /\ Weights \subseteq Int /\ Unit \in Nat \ {0}
  /\ SelectionLimit \in Nat \ {0} /\ MarkInterval \in Nat \ {0}
  /\ \A history \in Histories : IsHistory(history)
  /\ MaxReflections \in Nat /\ MaxDecisions \in Nat
  /\ MaxValidations \in Nat /\ MaxCrashes \in Nat

MarksOf(l, deltas) == {n \in DOMAIN deltas : deltas[n].lesson = l /\ deltas[n].type \in Marks}

\* A row as the runs of a history left it, each with one injection and no failure.
RowLeftBy(l, history) ==
  LET row == replayLesson(l, history)
  IN IF row = None THEN None
     ELSE [status |-> row.status, group |-> row.group, helpful |-> row.helpful,
           harmful |-> row.harmful, uses |-> Cardinality(MarksOf(l, history))]

Init ==
  /\ \E history \in Histories :
       /\ log = history
       /\ lessons = [l \in Lessons |-> RowLeftBy(l, history)]
  /\ applications = <<>>
  /\ snapshot = None
  /\ watermark = Len(log)
  /\ stale = {}
  /\ at = "idle"
  /\ chosen = {}
  /\ injection = None
  /\ todo = <<>>
  /\ decisions = 0
  /\ validations = 0
  /\ crashes = 0

-----------------------------------------------------------------------------
Exists(l) == lessons[l] # None

\* v_lesson_library, of one failure class.
Selectable == {l \in Lessons : Exists(l) /\ lessons[l].status \in {"candidate", "active"}}

\* A lookup that misses the lessons that were promoted.
ExistingCandidates(g) == {l \in Selectable : lessons[l].group = g /\ lessons[l].status = "candidate"}

\* The lessons a proposal is merged with.
Existing(g) == {l \in Selectable : lessons[l].group = g}

Reflections == Len(SelectSeq(log, LAMBDA delta : delta.type \in {"CREATE", "EDIT"}))

\* createLesson: the EDIT of a lesson that says the same.
EditLesson(g) ==
  /\ at = "idle" /\ Reflections < MaxReflections
  /\ Existing(g) # {}
  /\ LET l == CHOOSE l \in Existing(g) : \A other \in Existing(g) : l <= other
     IN log' = Append(log, NewDelta("EDIT", l))
  /\ UNCHANGED <<lessons, applications, snapshot, watermark, stale, writer, spent>>

\* createLesson: a new candidate.
CreateLesson(g) ==
  /\ at = "idle" /\ Reflections < MaxReflections
  /\ Existing(g) = {}
  /\ \E l \in Lessons :
       /\ ~Exists(l) /\ \A other \in Lessons : other < l => Exists(other)
       /\ log' = Append(log, [NewDelta("CREATE", l) EXCEPT !.group = g])
       /\ lessons' = [lessons EXCEPT ![l] =
            [status |-> "candidate", group |-> g, helpful |-> 0, harmful |-> 0, uses |-> 0]]
  /\ UNCHANGED <<applications, snapshot, watermark, stale, writer, spent>>

\* A month passes.
GrowOld(l) ==
  /\ Exists(l) /\ l \notin stale
  /\ stale' = stale \cup {l}
  /\ UNCHANGED <<store, writer, spent>>

\* selectWithDecision and recordDecision: the posterior of every selectable lesson and
\* the last delta it rests on; the sampled lessons are then injected one by one.
Decide(r, t) ==
  /\ at = "idle" /\ decisions < MaxDecisions
  /\ decisions' = decisions + 1
  /\ Selectable # {}
  /\ snapshot' = [upto |-> Len(log),
                  posterior |-> [l \in Selectable |-> <<lessons[l].helpful, lessons[l].harmful>>]]
  /\ \E selected \in SUBSET Selectable :
       /\ Cardinality(selected) =
            IF Cardinality(Selectable) < SelectionLimit THEN Cardinality(Selectable) ELSE SelectionLimit
       /\ chosen' = selected
  /\ injection' = <<r, t>>
  /\ at' = "inject"
  /\ UNCHANGED <<lessons, log, applications, watermark, stale, todo, validations, crashes>>

\* An insert without the unique constraint.
AlreadyAppliedNever(l) == FALSE

\* unique (lesson_id, run_id, trigger_message_id)
AlreadyApplied(l) ==
  \E i \in DOMAIN applications : applications[i].lesson = l /\ applications[i].injection = injection

\* recordApplication: insert or ignore, and uses counts the inserts.
RecordApplication(l) ==
  /\ at = "inject" /\ l \in chosen
  /\ IF AlreadyApplied(l)
     THEN UNCHANGED <<applications, lessons>>
     ELSE /\ applications' = Append(applications, [lesson |-> l, injection |-> injection, counted |-> FALSE])
          /\ lessons' = [lessons EXCEPT ![l].uses = @ + 1]
  /\ chosen' = chosen \ {l}
  /\ at' = IF chosen = {l} THEN "idle" ELSE "inject"
  /\ injection' = IF chosen = {l} THEN None ELSE injection
  /\ UNCHANGED <<log, snapshot, watermark, stale, todo, spent>>

-----------------------------------------------------------------------------
(* applyValidationOutcome                                                  *)

IsPending(a, r) == a.injection[1] = r /\ ~a.counted

\* The mark that a receipt and its credit make.
MarkFor(a, weight, outcome) ==
  LET helps == (outcome = "passed") = (weight > 0)
      magnitude == IF weight > 0 THEN weight ELSE -weight
  IN [NewDelta(IF helps THEN "MARK_HELPFUL" ELSE "MARK_HARMFUL", a.lesson) EXCEPT
        !.helpful = IF helps THEN magnitude ELSE 0,
        !.harmful = IF helps THEN 0 ELSE magnitude,
        !.injection = a.injection]

\* The numbers of a set, from the least to the greatest.
InOrder(S) ==
  CHOOSE s \in [1 .. Cardinality(S) -> S] : \A i, j \in DOMAIN s : i < j => s[i] < s[j]

\* The lessons whose status rules are applied after the marks.
Affected(marks) == InOrder({marks[i].lesson : i \in DOMAIN marks})

\* What the marks say of a lesson.
Helped(marks, l) ==
  SumFunctionOnSet([i \in DOMAIN marks |-> IF marks[i].lesson = l THEN marks[i].helpful ELSE 0], DOMAIN marks)
Harmed(marks, l) ==
  SumFunctionOnSet([i \in DOMAIN marks |-> IF marks[i].lesson = l THEN marks[i].harmful ELSE 0], DOMAIN marks)

\* The marks of a run, in one transaction.  A credit of zero counts the receipt and
\* makes no mark; it is left out, as it changes nothing else.
MarkRun(r, outcome) ==
  LET pending == InOrder({i \in DOMAIN applications : IsPending(applications[i], r)}) IN
  /\ at = "idle" /\ validations < MaxValidations
  /\ validations' = validations + 1
  /\ \E weights \in [DOMAIN pending -> Weights] :
       LET marks == [i \in DOMAIN pending |-> MarkFor(applications[pending[i]], weights[i], outcome)]
       IN /\ log' = log \o marks
          /\ lessons' = [l \in Lessons |->
               IF ~Exists(l) THEN None
               ELSE [lessons[l] EXCEPT !.helpful = @ + Helped(marks, l), !.harmful = @ + Harmed(marks, l)]]
          /\ todo' = Affected(marks)
          /\ at' = IF todo' = <<>> THEN "curate" ELSE "rules"
  /\ applications' = [i \in DOMAIN applications |->
       [applications[i] EXCEPT !.counted = @ \/ IsPending(applications[i], r)]]
  /\ UNCHANGED <<snapshot, watermark, stale, chosen, injection, decisions, crashes>>

\* The next lesson, or the curator.
NextLesson ==
  /\ todo' = Tail(todo)
  /\ at' = IF Len(todo) = 1 THEN "curate" ELSE "rules"

\* applyStatusRules: a promotion leaves no delta.
ApplyStatusRules ==
  LET l == Head(todo) IN
  /\ at = "rules"
  /\ IF Quarantines(lessons[l])
     THEN /\ log' = Append(log, NewDelta("QUARANTINE", l))
          /\ at' = "quarantine"
          /\ UNCHANGED <<lessons, todo>>
     ELSE /\ lessons' = [lessons EXCEPT ![l].status = IF Promotes(lessons[l]) THEN "active" ELSE @]
          /\ NextLesson
          /\ UNCHANGED log
  /\ UNCHANGED <<applications, snapshot, watermark, stale, chosen, injection, spent>>

\* The delta of a quarantine comes first, the row in a statement of its own.
SetQuarantined ==
  /\ at = "quarantine"
  /\ lessons' = [lessons EXCEPT ![Head(todo)].status = "quarantined"]
  /\ NextLesson
  /\ UNCHANGED <<log, applications, snapshot, watermark, stale, chosen, injection, spent>>

-----------------------------------------------------------------------------
(* maybeCurate                                                             *)

\* The lesson that absorbs the others of its group: the one with the most samples,
\* the oldest of several.
Absorber(g) ==
  CHOOSE l \in Existing(g) : \A other \in Existing(g) \ {l} :
    \/ Samples(lessons[l]) > Samples(lessons[other])
    \/ Samples(lessons[l]) = Samples(lessons[other]) /\ l < other

Absorbed(g) == IF Existing(g) = {} THEN {} ELSE Existing(g) \ {Absorber(g)}

\* A delta that does not say what it moves.
MergeDeltaEmpty(l) == [NewDelta("MERGE_INTO", l) EXCEPT !.target = Absorber(lessons[l].group)]

MergeDelta(l) ==
  [NewDelta("MERGE_INTO", l) EXCEPT !.target = Absorber(lessons[l].group),
                                    !.helpful = lessons[l].helpful,
                                    !.harmful = lessons[l].harmful]

Total(group, Amount(_)) == SumFunctionOnSet([l \in group |-> Amount(lessons[l])], group)

Merged(l) ==
  LET row == lessons[l]
      others == Absorbed(row.group)
  IN CASE l \notin Selectable -> row
       [] l \in others -> [row EXCEPT !.helpful = 0, !.harmful = 0, !.uses = 0, !.status = "retired"]
       [] OTHER -> [row EXCEPT !.helpful = @ + Total(others, LAMBDA other : other.helpful),
                               !.harmful = @ + Total(others, LAMBDA other : other.harmful),
                               !.uses    = @ + Total(others, LAMBDA other : other.uses)]

\* A candidate that no run has marked, though some may have been given it.
PrunableUnmarked(l) ==
  Exists(l) /\ l \in stale /\ Merged(l).status = "candidate" /\ Samples(Merged(l)) = 0

Prunable(l) == Exists(l) /\ l \in stale /\ Merged(l).status = "candidate" /\ Merged(l).uses = 0

PendingMarks ==
  Len(SelectSeq(SubSeq(log, watermark + 1, Len(log)), LAMBDA delta : delta.type \in Marks))

\* The curator's pass, in one transaction, if enough marks have come in.
Curate ==
  LET absorbed == InOrder(UNION {Absorbed(g) : g \in Groups})
      pruned == InOrder({l \in Lessons : Prunable(l)})
  IN
  /\ at = "curate"
  /\ PendingMarks >= MarkInterval
  /\ log' = log \o [i \in DOMAIN absorbed |-> MergeDelta(absorbed[i])]
                \o [i \in DOMAIN pruned |-> NewDelta("RETIRE", pruned[i])]
  /\ lessons' = [l \in Lessons |->
       IF ~Exists(l) THEN None
       ELSE IF Prunable(l) THEN [Merged(l) EXCEPT !.status = "retired"] ELSE Merged(l)]
  /\ watermark' = Len(log)
  /\ at' = "idle"
  /\ UNCHANGED <<applications, snapshot, stale, chosen, injection, todo, spent>>

SkipCuration ==
  /\ at = "curate"
  /\ PendingMarks < MarkInterval
  /\ at' = "idle"
  /\ UNCHANGED <<store, stale, chosen, injection, todo, spent>>

\* A call throws (the file is locked, the disk full) or the writer dies.
Crash ==
  /\ at # "idle" /\ crashes < MaxCrashes
  /\ crashes' = crashes + 1
  /\ at' = "idle"
  /\ chosen' = {}
  /\ injection' = None
  /\ todo' = <<>>
  /\ UNCHANGED <<store, stale, decisions, validations>>

Next ==
  \/ \E g \in Groups : EditLesson(g) \/ CreateLesson(g)
  \/ \E l \in Lessons : GrowOld(l) \/ RecordApplication(l)
  \/ \E r \in Runs, t \in Triggers : Decide(r, t)
  \/ \E r \in Runs, outcome \in {"passed", "failed"} : MarkRun(r, outcome)
  \/ ApplyStatusRules \/ SetQuarantined \/ Curate \/ SkipCuration \/ Crash

Spec == Init /\ [][Next]_vars
-----------------------------------------------------------------------------
\* Rows hold values of their columns, a receipt is recorded once per lesson, run and
\* trigger, and decisions and the curator's watermark refer to deltas that exist.
TypeOK ==
  /\ lessons \in [Lessons -> Row \cup {None}]
  /\ log \in Seq(Delta)
  /\ \A i, j \in DOMAIN applications : i < j =>
       <<applications[i].lesson, applications[i].injection>>
         # <<applications[j].lesson, applications[j].injection>>
  /\ watermark <= Len(log)
  /\ snapshot # None => snapshot.upto <= Len(log)
  /\ at \in {"idle", "inject", "rules", "quarantine", "curate"}
  /\ chosen \subseteq Selectable /\ Range(todo) \subseteq Lessons

\* No run has marked a lesson more than once.
MarksAreSingle ==
  \A i, j \in DOMAIN log :
    (i < j /\ log[i].lesson = log[j].lesson /\ log[i].injection # None /\ log[j].injection # None)
      => log[i].injection[1] # log[j].injection[1]

\* The counters of every row are the fold of the log, after every transaction and
\* also when calls are cut off: for a lesson that absorbs others, one that is
\* absorbed, and one that is still marked afterwards.  Between calls, and as long as
\* none was cut off, so is its status, provided no run marked a lesson more than once.
\* (The store applies the status rules once per validation, the replay after every mark.)
StoreReplays ==
  LET settled == at = "idle" /\ crashes = 0 /\ MarksAreSingle
  IN \A l \in Lessons :
       LET rebuilt == replayLesson(l, log)
       IN IF ~Exists(l) THEN rebuilt = None
          ELSE /\ rebuilt # None
               /\ rebuilt.helpful = lessons[l].helpful /\ rebuilt.harmful = lessons[l].harmful
               /\ settled => rebuilt.status = lessons[l].status

IsMark(delta) == delta.type \in Marks

Worth(row) == IF row = None THEN 0 ELSE Samples(row)

\* An injection moves the counters of its lesson at most once, whatever is validated
\* again after a call was cut off, and merging loses no credit: all counters
\* together are all marks together.
MarksAreKept ==
  /\ \A i, j \in DOMAIN log :
       (i < j /\ IsMark(log[i]) /\ IsMark(log[j]) /\ log[i].injection # None)
         => <<log[i].lesson, log[i].injection>> # <<log[j].lesson, log[j].injection>>
  /\ LET marks == {i \in DOMAIN log : IsMark(log[i])}
     IN Total(Lessons, Worth)
          = SumFunctionOnSet([i \in marks |-> log[i].helpful + log[i].harmful], marks)

Alternatives(g) == {l \in Selectable : lessons[l].group = g}

\* No step gives a group a second lesson that can be selected: a proposal finds the
\* lesson that says the same, whatever its status has become.
OneLessonPerGroup ==
  [][\A g \in Groups : \/ Cardinality(Alternatives(g)') <= 1
                       \/ Cardinality(Alternatives(g)') <= Cardinality(Alternatives(g))]_vars

\* The curator prunes only lessons that no run was ever given, and none is given one
\* afterwards.
PrunedWasUnused ==
  \A i \in DOMAIN log : log[i].type = "RETIRE" =>
    \A j \in DOMAIN applications : applications[j].lesson # log[i].lesson

\* No credit is lost: not to a call that was cut off and repeated, not to a merge, and
\* not with a lesson that is retired while a run it was given to is not validated yet
\* (lesson-store.ts:911, 1029, 1075).
CreditIsKept == MarksAreKept /\ PrunedWasUnused

\* "The fold of all deltas with delta_id <= posterior_snapshot_id reconstructs the
\* exact posterior landscape the decision was drawn from."  A lesson that two marks
\* of one validation quarantine and reprieve is quarantined in the fold and
\* selectable in the store.
SnapshotIsLandscape ==
  snapshot # None =>
    LET prefix == SubSeq(log, 1, snapshot.upto)
        rebuilt == [l \in Lessons |-> replayLesson(l, prefix)]
        live == {l \in Lessons : rebuilt[l] # None /\ rebuilt[l].status \in {"candidate", "active"}}
    IN snapshot.posterior = [l \in live |-> <<rebuilt[l].helpful, rebuilt[l].harmful>>]
=============================================================================
