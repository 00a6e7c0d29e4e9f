------------------------ MODULE LessonLearningProofs ------------------------
(***************************************************************************)
(* Proofs about LessonLearning, for any run directories, plans, test       *)
(* results, batches, libraries, rules, tasks and bounds.                   *)
(*                                                                         *)
(* The blind pipeline, with orphans, crashes and directories that are used *)
(* again: what an unforced apply copies, why the loop of a run stopped,    *)
(* and what the row of a run tells.                                        *)
(*   ShapeInv    the fields of the run and of the run directories          *)
(*   ReuseInv    what a directory that one run used can hold               *)
(*   LoopInv     what best and stale count, judged against all rounds      *)
(*   RowInv      what the row of a directory says of the run in it         *)
(*                                                                         *)
(* What is learned: the lessons of the library, the rules, and the         *)
(* episodes that evaluate the rules.                                       *)
(*   StagesInv   the stages of a trace are a sequence                      *)
(*   BatchInv    what a learn command has loaded                           *)
(*   LibraryInv  where a lesson and its harm come from                     *)
(*   RulesInv    what the log of the rules replays to                      *)
(*   EvalInv     what was applied in which episode                         *)
(*                                                                         *)
(* The inside of a run: what keeps the files of its two writers apart.     *)
(*   StageInv    sandboxes, manifests, blocks and the suite, by writer     *)
(***************************************************************************)
EXTENDS LessonLearning, SumTheorems, SequenceTheorems, FiniteSetTheorems, TLAPS

Tree == [n : Nat, v : Nat]
Round == [code : Tree, counts : Results]

Before == {"writing", "revising", "testing", "reporting"}
Stopped == {"reporting", "tracing", "finishing"}

RunShape ==
  run = [phase |-> run.phase, dir |-> run.dir, n |-> run.n, plan |-> run.plan,
         lessons |-> run.lessons, round |-> run.round, best |-> run.best, stale |-> run.stale,
         code |-> run.code, tests |-> run.tests, previous |-> run.previous,
         merged |-> run.merged, stages |-> run.stages, results |-> run.results,
         stop |-> run.stop]

RunTypes ==
  run # Idle =>
    /\ RunShape
    /\ run.phase \in {"writing", "revising", "testing"} \cup Stopped
    /\ run.dir \in Dirs /\ run.n \in Nat
    /\ run.results \in Seq(Round)
    /\ run.round \in Nat \ {0} /\ run.best \in Nat /\ run.stale \in Nat

WriterTypes ==
  /\ writer = [w \in Writers |-> writer[w]]
  /\ \A w \in Writers :
       writer[w] \in {"calling", "again"} => run # Idle /\ run.phase \in {"writing", "revising"}

FileTypes ==
  files = [d \in Dirs |-> [code |-> files[d].code, tests |-> files[d].tests,
                           report |-> files[d].report, trace |-> files[d].trace]]

RowTypes == rows = [d \in Dirs |-> [status |-> rows[d].status, traces |-> rows[d].traces]]

OrphanTypes == \A o \in orphans : o.dir \in Dirs /\ o.writer \in Writers

FaultTypes ==
  /\ faults = [starts |-> faults.starts, outages |-> faults.outages, crashes |-> faults.crashes,
               applies |-> faults.applies, used |-> faults.used, reused |-> faults.reused,
               lost |-> faults.lost]
  /\ faults.starts \in Nat /\ faults.crashes \in Nat

ShapeInv == RunTypes /\ WriterTypes /\ FileTypes /\ RowTypes /\ OrphanTypes /\ FaultTypes

Passes == Outcome(LastResult) = "pass"

\* The run that is going on, in a directory that no other run has used.
AloneInDirectory ==
  /\ run.phase \in Before => files[run.dir].report = None
  /\ run.phase \in Before \cup {"tracing"} => files[run.dir].trace = None
  /\ \A o \in orphans : o.dir # run.dir
  /\ run.phase \in {"testing", "reporting"} => run.merged.code = files[run.dir].code
  /\ run.phase \in {"tracing", "finishing"} => files[run.dir].report.outcome = Outcome(LastResult)

RunDirectory ==
  run # Idle =>
    /\ run.dir \in faults.used
    /\ run.phase \in {"testing"} \cup Stopped => run.merged.dir = run.dir
    /\ run.phase \in Stopped /\ Passes => run.merged \in verified
    /\ run.dir \notin faults.reused => AloneInDirectory

OrphanDirectories ==
  \A o \in orphans :
    /\ o.dir \in faults.used
    /\ o.dir \notin faults.reused => files[o.dir].report = None /\ files[o.dir].trace = None

ReportedDirectories ==
  \A d \in Dirs :
    /\ files[d].report # None \/ files[d].trace # None => d \in faults.used
    /\ files[d].report # None /\ files[d].report.outcome = "pass" =>
         d \in faults.reused \/ \E t \in verified : t.code = files[d].code

ReuseInv == RunDirectory /\ OrphanDirectories /\ ReportedDirectories

PassedIn(i) == run.results[i].counts.passed

LoopInv ==
  run # Idle =>
    LET n == Len(run.results)
    IN /\ run.phase = "writing" =>
            n = 0 /\ run.round = 1 /\ (writer["code"] = "done" => run.code \in Tree)
       /\ run.phase = "revising" =>
            /\ n >= 1 /\ run.round = n + 1 /\ run.code \in Tree
            /\ (IF writer["code"] = "done" THEN run.previous ELSE run.code) = run.results[n].code
       /\ run.phase = "testing" =>
            /\ run.round = n + 1 /\ run.code \in Tree
            /\ n >= 1 => run.previous = run.results[n].code
       /\ run.phase \in Stopped => n >= 1 /\ run.round = n
       /\ run.phase \in Stopped <=> run.stop # None
       /\ run.stop = None =>
            /\ \A i \in 1 .. n : Outcome(run.results[i].counts) # "pass"
            /\ n >= 1 => \E i \in 1 .. n : PassedIn(i) = run.best
            /\ run.stale >= 1 => \E i \in 1 .. n - 1 : PassedIn(i) = run.best /\ PassedIn(n) <= run.best
       /\ StopIsJustified

Finishing(d) == run # Idle /\ run.dir = d /\ run.phase = "finishing"

RowInv ==
  \A d \in Dirs :
    LET status == rows[d].status
    IN /\ status = "completed" => \E t \in verified : t.dir = d
       /\ d \in faults.used /\ status = "none" => d \in faults.lost
       /\ files[d].trace # None /\ ~Finishing(d) /\ d \notin faults.lost /\ faults.crashes = 0 =>
            /\ status \notin {"none", "started"}
            /\ d \notin faults.reused =>
                 status = IF files[d].report.outcome = "pass" THEN "completed" ELSE "failed"

-----------------------------------------------------------------------------
\* What a step of the learning program is to the pipeline.
LEMMA PipelineSteps ==
  ASSUME [Next]_allVars
  PROVE  \/ UNCHANGED vars
         \/ \E d \in Dirs, p \in UNION {Plans[n] : n \in DOMAIN Plans} : RunStarts(d, p)
         \/ \E w \in Writers : AskAgain(w) \/ Write(w) \/ Throw(w)
         \/ \E o \in orphans : OrphanWrites(o) \/ OrphanThrows(o)
         \/ Merge \/ (\E r \in Results : TestsEnd(r))
         \/ TestsDie \/ WriteReport \/ WriteTrace \/ FinishRun \/ Crash
         \/ \E d \in Dirs, force \in BOOLEAN : Apply(d, force)
  <1>1. CASE UNCHANGED allVars
    BY <1>1 DEF allVars
  <1>2. CASE InsideStep \/ RulesStep \/ EvaluationStep
    BY <1>2 DEF InsideStep, RulesStep, EvaluationStep
  <1>3. CASE LoopStep
    <2>1. CASE Step
      BY <2>1 DEF Step
    <2>2. CASE \E ds \in Batches, gate \in Gates : LearnBegins(ds, gate)
      BY <2>2 DEF LearnBegins
    <2>3. CASE LearnEnds \/ LearnAborts \/ \E d \in Dirs, status \in {"accepted", "rejected"} : Review(d, status)
      BY <2>3 DEF LearnEnds, LearnAborts, Review
    <2> QED  BY <1>3, <2>1, <2>2, <2>3 DEF LoopStep, LoopNext
  <1> QED  BY <1>1, <1>2, <1>3 DEF Next

-----------------------------------------------------------------------------
(* The shape of the state.                                                 *)

LEMMA StartShape ==
  ASSUME ShapeInv, NEW d \in Dirs, NEW p, NEW chosen, Start(d, p, chosen) PROVE ShapeInv'
  <1>1. /\ run' = [phase |-> "writing", dir |-> d, n |-> faults.starts + 1, plan |-> p,
                   lessons |-> chosen, round |-> 1, best |-> 0, stale |-> 0,
                   code |-> None, tests |-> None, previous |-> None, merged |-> None,
                   stages |-> <<>>, results |-> <<>>, stop |-> None]
        /\ writer' = [w \in Writers |-> "calling"]
        /\ UNCHANGED <<files, orphans>>
    BY DEF Start
  <1>2. PICK lost \in BOOLEAN :
          /\ faults' = [faults EXCEPT !.starts = @ + 1,
                                      !.outages = IF lost THEN @ + 1 ELSE @,
                                      !.lost = IF lost THEN @ \union {d} ELSE @,
                                      !.used = @ \union {d},
                                      !.reused = @ \union ({d} \intersect faults.used)]
          /\ rows' = [rows EXCEPT ![d].status = IF @ = "none" /\ ~lost THEN "started" ELSE @]
    BY DEF Start
  <1>3. RunTypes'
    <2>1. run'.results \in Seq(Round)
      <3>1. run'.results = <<>>
        BY <1>1
      <3> QED  BY <3>1
    <2> QED  BY <1>1, <2>1 DEF ShapeInv, FaultTypes, RunTypes, RunShape
  <1>4. WriterTypes'
    <2>1. run'.phase = "writing" /\ Idle.phase = "idle"
      BY <1>1 DEF Idle
    <2>2. run' # Idle
      BY <2>1
    <2> QED  BY <1>1, <2>1, <2>2 DEF WriterTypes
  <1>5. FileTypes'
    BY <1>1 DEF ShapeInv, FileTypes
  <1>6. RowTypes'
    BY <1>2 DEF ShapeInv, RowTypes
  <1>7. OrphanTypes'
    BY <1>1 DEF ShapeInv, OrphanTypes
  <1>8. FaultTypes'
    <2> DEFINE outages == IF lost THEN faults.outages + 1 ELSE faults.outages
               missing == IF lost THEN faults.lost \union {d} ELSE faults.lost
               used == faults.used \union {d}
               reused == faults.reused \union ({d} \intersect faults.used)
    <2>1. faults' = [faults EXCEPT !.starts = @ + 1, !.outages = outages, !.lost = missing,
                                   !.used = used, !.reused = reused]
      BY <1>2 DEF ShapeInv, FaultTypes
    <2> HIDE DEF outages, missing, used, reused
    <2>2. faults' = [starts |-> faults.starts + 1, outages |-> outages, crashes |-> faults.crashes,
                     applies |-> faults.applies, used |-> used, reused |-> reused, lost |-> missing]
      BY <2>1 DEF ShapeInv, FaultTypes
    <2> QED  BY <2>2 DEF ShapeInv, FaultTypes
  <1> QED  BY <1>3, <1>4, <1>5, <1>6, <1>7, <1>8 DEF ShapeInv

LEMMA AskAgainShape ==
  ASSUME ShapeInv, NEW w \in Writers, AskAgain(w) PROVE ShapeInv'
  <1>1. RunTypes'
    BY DEF AskAgain, ShapeInv, RunTypes, RunShape, Round
  <1>2. WriterTypes'
    BY DEF AskAgain, ShapeInv, RunTypes, RunShape, WriterTypes, Writers
  <1>3. FileTypes'
    BY DEF AskAgain, ShapeInv, RunTypes, FileTypes, OrphanTypes, Writers
  <1>4. RowTypes'
    BY DEF AskAgain, ShapeInv, RunTypes, RowTypes
  <1>5. OrphanTypes'
    BY DEF AskAgain, ShapeInv, RunTypes, OrphanTypes
  <1>6. FaultTypes'
    BY DEF AskAgain, ShapeInv, FaultTypes
  <1> QED  BY <1>1, <1>2, <1>3, <1>4, <1>5, <1>6 DEF ShapeInv

\* What a directory is after one of its trees was replaced.
LEMMA FileWritten ==
  ASSUME FileTypes, NEW d \in Dirs, NEW w \in Writers, NEW tree, files' = [files EXCEPT ![d][w] = tree]
  PROVE  /\ files' = [files EXCEPT ![d] =
                        [code |-> IF w = "code" THEN tree ELSE files[d].code,
                         tests |-> IF w = "tests" THEN tree ELSE files[d].tests,
                         report |-> files[d].report, trace |-> files[d].trace]]
         /\ FileTypes'
  <1>1. files' = [files EXCEPT ![d] = [files[d] EXCEPT ![w] = tree]]
    OBVIOUS
  <1>2. [files[d] EXCEPT ![w] = tree] =
          [code |-> IF w = "code" THEN tree ELSE files[d].code,
           tests |-> IF w = "tests" THEN tree ELSE files[d].tests,
           report |-> files[d].report, trace |-> files[d].trace]
    <2>1. files[d] = [code |-> files[d].code, tests |-> files[d].tests,
                      report |-> files[d].report, trace |-> files[d].trace]
      BY DEF FileTypes
    <2>2. CASE w = "code"
      BY <2>1, <2>2
    <2>3. CASE w = "tests"
      BY <2>1, <2>3
    <2> QED  BY <2>2, <2>3 DEF Writers
  <1>3. files' = [files EXCEPT ![d] =
                    [code |-> IF w = "code" THEN tree ELSE files[d].code,
                     tests |-> IF w = "tests" THEN tree ELSE files[d].tests,
                     report |-> files[d].report, trace |-> files[d].trace]]
    BY <1>1, <1>2
  <1> QED  BY <1>3 DEF FileTypes

\* What a run is after a writer has written its files.
Wrote(w, tree, stages) ==
  [phase |-> run.phase, dir |-> run.dir, n |-> run.n, plan |-> run.plan,
   lessons |-> run.lessons, round |-> run.round, best |-> run.best, stale |-> run.stale,
   code |-> IF w = "code" THEN tree ELSE run.code, tests |-> IF w = "tests" THEN tree ELSE run.tests,
   previous |-> IF w = "code" THEN run.code ELSE run.previous,
   merged |-> run.merged, stages |-> stages, results |-> run.results, stop |-> run.stop]

LEMMA WriteRun ==
  ASSUME ShapeInv, NEW w \in Writers, Write(w)
  PROVE  /\ run # Idle /\ run.phase \in {"writing", "revising"} /\ writer[w] \in {"calling", "again"}
         /\ \E stages \in {run.stages, Append(run.stages, Stage(w, run.round))} :
            \E v \in IF run.round = 1 THEN {1} ELSE {run.code.v, run.round} :
              /\ files' = [files EXCEPT ![run.dir][w] = [n |-> run.n, v |-> v]]
              /\ run' = Wrote(w, [n |-> run.n, v |-> v], stages)
         /\ writer' = [writer EXCEPT ![w] = "done"]
         /\ UNCHANGED <<rows, orphans, target, verified, faults>>
  <1>1. run # Idle /\ run.phase \in {"writing", "revising"} /\ writer[w] \in {"calling", "again"}
    BY DEF Write, ShapeInv, WriterTypes
  <1>2. PICK v \in IF run.round = 1 THEN {1} ELSE {run.code.v, run.round} :
          /\ files' = [files EXCEPT ![run.dir][w] = [n |-> run.n, v |-> v]]
          /\ run' = [run EXCEPT ![w] = [n |-> run.n, v |-> v],
                                !.previous = IF w = "code" THEN run.code ELSE @,
                                !.stages = IF run.phase = "revising"
                                           THEN Append(@, Stage(w, run.round)) ELSE @]
    BY DEF Write
  <1>3. RunShape
    BY <1>1 DEF ShapeInv, RunTypes
  <1> DEFINE tree == [n |-> run.n, v |-> v]
             stages == IF run.phase = "revising" THEN Append(run.stages, Stage(w, run.round)) ELSE run.stages
             previous == IF w = "code" THEN run.code ELSE run.previous
  <1>4. stages \in {run.stages, Append(run.stages, Stage(w, run.round))}
    OBVIOUS
  <1>5. CASE w = "code"
    <2>1. run' = [run EXCEPT !.code = tree, !.previous = previous, !.stages = stages]
      BY <1>2, <1>3, <1>5 DEF RunShape
    <2> HIDE DEF tree, stages, previous
    <2>2. run' = Wrote(w, tree, stages)
      BY <1>3, <1>5, <2>1 DEF RunShape, Wrote, previous
    <2> USE DEF tree
    <2> QED  BY <1>1, <1>2, <1>4, <2>2 DEF Write
  <1>6. CASE w = "tests"
    <2>1. run' = [run EXCEPT !.tests = tree, !.previous = previous, !.stages = stages]
      BY <1>2, <1>3, <1>6 DEF RunShape
    <2> HIDE DEF tree, stages, previous
    <2>2. run' = Wrote(w, tree, stages)
      BY <1>3, <1>6, <2>1 DEF RunShape, Wrote, previous
    <2> USE DEF tree
    <2> QED  BY <1>1, <1>2, <1>4, <2>2 DEF Write
  <1> QED  BY <1>5, <1>6 DEF Writers

LEMMA WriteShape ==
  ASSUME ShapeInv, NEW w \in Writers, Write(w) PROVE ShapeInv'
  <1>1. PICK tree, stages :
          files' = [files EXCEPT ![run.dir][w] = tree] /\ run' = Wrote(w, tree, stages)
    <2>1. PICK stages : \E v \in IF run.round = 1 THEN {1} ELSE {run.code.v, run.round} :
            /\ files' = [files EXCEPT ![run.dir][w] = [n |-> run.n, v |-> v]]
            /\ run' = Wrote(w, [n |-> run.n, v |-> v], stages)
      BY WriteRun
    <2> QED  BY <2>1
  <1>2. /\ run # Idle /\ run.phase \in {"writing", "revising"} /\ run.dir \in Dirs
        /\ writer' = [writer EXCEPT ![w] = "done"]
        /\ UNCHANGED <<rows, orphans, faults>>
    BY WriteRun DEF ShapeInv, RunTypes
  <1>3. RunTypes'
    BY <1>1, <1>2 DEF ShapeInv, RunTypes, RunShape, Wrote
  <1>4. WriterTypes'
    <2>1. run'.phase = run.phase /\ Idle.phase = "idle"
      BY <1>1 DEF Idle, Wrote
    <2>2. run' # Idle
      BY <1>2, <2>1
    <2> QED  BY <1>2, <2>1, <2>2 DEF ShapeInv, WriterTypes
  <1>5. FileTypes'
    BY <1>1, <1>2, FileWritten DEF ShapeInv
  <1> QED  BY <1>2, <1>3, <1>4, <1>5 DEF ShapeInv, RowTypes, OrphanTypes, FaultTypes

LEMMA ThrowShape ==
  ASSUME ShapeInv, NEW w \in Writers, Throw(w) PROVE ShapeInv'
  <1>1. /\ run' = Idle /\ writer' = [o \in Writers |-> "idle"]
        /\ UNCHANGED <<files, rows, faults>>
    BY DEF Throw
  <1>2. OrphanTypes'
    <2>1. run.dir \in Dirs
      BY DEF Throw, ShapeInv, WriterTypes, RunTypes
    <2>2. ASSUME NEW o \in orphans' \ orphans PROVE o.dir = run.dir /\ o.writer \in Writers
      BY DEF Throw
    <2> QED  BY <2>1, <2>2 DEF ShapeInv, OrphanTypes
  <1> QED  BY <1>1, <1>2 DEF ShapeInv, RunTypes, WriterTypes, FileTypes, RowTypes, FaultTypes

LEMMA OrphanShape ==
  ASSUME ShapeInv, NEW o \in orphans, OrphanWrites(o) \/ OrphanThrows(o) PROVE ShapeInv'
  <1>1. RunTypes'
    BY DEF OrphanWrites, OrphanThrows, ShapeInv, RunTypes, RunShape, Round
  <1>2. WriterTypes'
    BY DEF OrphanWrites, OrphanThrows, ShapeInv, RunTypes, RunShape, WriterTypes, Writers
  <1>3. FileTypes'
    BY DEF OrphanWrites, OrphanThrows, ShapeInv, RunTypes, FileTypes, OrphanTypes, Writers
  <1>4. RowTypes'
    BY DEF OrphanWrites, OrphanThrows, ShapeInv, RunTypes, RowTypes
  <1>5. OrphanTypes'
    BY DEF OrphanWrites, OrphanThrows, ShapeInv, RunTypes, OrphanTypes
  <1>6. FaultTypes'
    BY DEF OrphanWrites, OrphanThrows, ShapeInv, FaultTypes
  <1> QED  BY <1>1, <1>2, <1>3, <1>4, <1>5, <1>6 DEF ShapeInv

LEMMA MergeShape ==
  ASSUME ShapeInv, Merge PROVE ShapeInv'
  <1>1. RunTypes'
    BY DEF Merge, Ledger, ShapeInv, RunTypes, RunShape, Round
  <1>2. WriterTypes'
    BY DEF Merge, Ledger, ShapeInv, RunTypes, RunShape, WriterTypes, Writers
  <1>3. FileTypes'
    BY DEF Merge, Ledger, ShapeInv, RunTypes, FileTypes, OrphanTypes, Writers
  <1>4. RowTypes'
    BY DEF Merge, Ledger, ShapeInv, RunTypes, RowTypes
  <1>5. OrphanTypes'
    BY DEF Merge, Ledger, ShapeInv, RunTypes, OrphanTypes
  <1>6. FaultTypes'
    BY DEF Merge, Ledger, ShapeInv, FaultTypes
  <1> QED  BY <1>1, <1>2, <1>3, <1>4, <1>5, <1>6 DEF ShapeInv

\* What a run is after the tests of a round.
AfterTests(r, stop) ==
  LET better == run.round = 1 \/ r.passed > run.best
  IN [phase |-> IF stop = None THEN "revising" ELSE "reporting", dir |-> run.dir, n |-> run.n,
      plan |-> run.plan, lessons |-> run.lessons,
      round |-> IF stop = None THEN run.round + 1 ELSE run.round,
      best |-> IF better THEN r.passed ELSE run.best,
      stale |-> IF better THEN 0 ELSE run.stale + 1,
      code |-> run.code, tests |-> run.tests, previous |-> run.previous, merged |-> run.merged,
      stages |-> Append(run.stages, VerifierStage(run.round)),
      results |-> Append(run.results, [code |-> run.code, counts |-> r]), stop |-> stop]

LEMMA TestsEndRun ==
  ASSUME ShapeInv, NEW r \in Results, TestsEnd(r)
  PROVE  /\ run # Idle /\ run.phase = "testing"
         /\ \E stop : /\ stop = StopReason(r.passed, Outcome(r))
                      /\ run' = AfterTests(r, stop)
                      /\ writer' = IF stop = None THEN [writer EXCEPT !["code"] = "calling"] ELSE writer
         /\ verified' = IF Outcome(r) = "pass" THEN verified \union {run.merged} ELSE verified
         /\ UNCHANGED <<files, orphans, target>>
  <1>1. run # Idle /\ run.phase = "testing" /\ RunShape
    BY DEF TestsEnd, ShapeInv, RunTypes
  <1> DEFINE stop == StopReason(r.passed, Outcome(r))
             better == run.round = 1 \/ r.passed > run.best
             results == Append(run.results, [code |-> run.code, counts |-> r])
             stages == Append(run.stages, VerifierStage(run.round))
             best == IF better THEN r.passed ELSE run.best
             stale == IF better THEN 0 ELSE run.stale + 1
             phase == IF stop = None THEN "revising" ELSE "reporting"
             round == IF stop = None THEN run.round + 1 ELSE run.round
  <1>2. run' = [run EXCEPT !.results = results, !.stages = stages, !.best = best, !.stale = stale,
                           !.stop = stop, !.phase = phase, !.round = round]
    BY <1>1 DEF TestsEnd, RunShape
  <1>3. run' = [phase |-> phase, dir |-> run.dir, n |-> run.n, plan |-> run.plan,
                lessons |-> run.lessons, round |-> round, best |-> best, stale |-> stale,
                code |-> run.code, tests |-> run.tests, previous |-> run.previous,
                merged |-> run.merged, stages |-> stages, results |-> results, stop |-> stop]
    <2> HIDE DEF stop, better, results, stages, best, stale, phase, round
    <2> QED  BY <1>1, <1>2 DEF RunShape
  <1> QED  BY <1>1, <1>3 DEF TestsEnd, AfterTests

LEMMA TestsEndShape ==
  ASSUME ShapeInv, LoopInv, NEW r \in Results, TestsEnd(r) PROVE ShapeInv'
  <1>1. PICK stop : /\ run' = AfterTests(r, stop)
                    /\ writer' = IF stop = None THEN [writer EXCEPT !["code"] = "calling"] ELSE writer
    BY TestsEndRun
  <1>2. /\ run # Idle /\ run.phase = "testing" /\ run.code \in Tree
        /\ UNCHANGED <<files, orphans, target>>
        /\ run.results \in Seq(Round) /\ run.round \in Nat \ {0} /\ run.best \in Nat /\ run.stale \in Nat
        /\ run.dir \in Dirs /\ run.n \in Nat /\ r.passed \in Nat
    BY TestsEndRun, PipelineAssumption DEF ShapeInv, RunTypes, LoopInv
  <1>3. RunTypes'
    <2>1. run'.results \in Seq(Round)
      <3>1. [code |-> run.code, counts |-> r] \in Round
        BY <1>2 DEF Round
      <3>2. run'.results = Append(run.results, [code |-> run.code, counts |-> r])
        BY <1>1 DEF AfterTests
      <3> QED  BY <1>2, <3>1, <3>2, AppendProperties
    <2>2. /\ run'.round \in Nat \ {0} /\ run'.best \in Nat /\ run'.stale \in Nat
          /\ run'.dir \in Dirs /\ run'.n \in Nat
          /\ run'.phase \in {"writing", "revising", "testing"} \cup Stopped
      BY <1>1, <1>2 DEF AfterTests, Stopped
    <2>3. RunShape'
      BY <1>1 DEF AfterTests, RunShape
    <2> QED  BY <2>1, <2>2, <2>3 DEF RunTypes
  <1>4. WriterTypes'
    <2>1. run'.phase \in {"revising", "reporting"} /\ Idle.phase = "idle"
      BY <1>1 DEF Idle, AfterTests
    <2>2. run' # Idle
      BY <2>1
    <2>3. \A w \in Writers : writer[w] \notin {"calling", "again"}
      BY <1>2 DEF ShapeInv, WriterTypes
    <2>4. stop = None => run'.phase = "revising"
      BY <1>1 DEF AfterTests
    <2> QED  BY <1>1, <2>2, <2>3, <2>4 DEF ShapeInv, WriterTypes
  <1>5. RowTypes'
    BY DEF TestsEnd, Ledger, ShapeInv, RowTypes
  <1>6. FaultTypes'
    BY DEF TestsEnd, Ledger, ShapeInv, FaultTypes
  <1> QED  BY <1>2, <1>3, <1>4, <1>5, <1>6 DEF ShapeInv, FileTypes, OrphanTypes

LEMMA TestsDieShape ==
  ASSUME ShapeInv, TestsDie PROVE ShapeInv'
  <1>1. RunTypes'
    BY DEF TestsDie, ShapeInv, RunTypes, RunShape, Round
  <1>2. WriterTypes'
    BY DEF TestsDie, ShapeInv, RunTypes, RunShape, WriterTypes, Writers
  <1>3. FileTypes'
    BY DEF TestsDie, ShapeInv, RunTypes, FileTypes, OrphanTypes, Writers
  <1>4. RowTypes'
    BY DEF TestsDie, ShapeInv, RunTypes, RowTypes
  <1>5. OrphanTypes'
    BY DEF TestsDie, ShapeInv, RunTypes, OrphanTypes
  <1>6. FaultTypes'
    BY DEF TestsDie, ShapeInv, FaultTypes
  <1> QED  BY <1>1, <1>2, <1>3, <1>4, <1>5, <1>6 DEF ShapeInv

LEMMA WriteReportShape ==
  ASSUME ShapeInv, WriteReport PROVE ShapeInv'
  <1>1. RunTypes'
    BY DEF WriteReport, Stopped, ShapeInv, RunTypes, RunShape, Round
  <1>2. WriterTypes'
    BY DEF WriteReport, Stopped, ShapeInv, RunTypes, RunShape, WriterTypes, Writers
  <1>3. FileTypes'
    BY DEF WriteReport, Stopped, ShapeInv, RunTypes, FileTypes, OrphanTypes, Writers
  <1>4. RowTypes'
    BY DEF WriteReport, Stopped, ShapeInv, RunTypes, RowTypes
  <1>5. OrphanTypes'
    BY DEF WriteReport, Stopped, ShapeInv, RunTypes, OrphanTypes
  <1>6. FaultTypes'
    BY DEF WriteReport, Stopped, ShapeInv, FaultTypes
  <1> QED  BY <1>1, <1>2, <1>3, <1>4, <1>5, <1>6 DEF ShapeInv

LEMMA WriteTraceShape ==
  ASSUME ShapeInv, WriteTrace PROVE ShapeInv'
  <1>1. RunTypes'
    BY DEF WriteTrace, Stopped, ShapeInv, RunTypes, RunShape, Round
  <1>2. WriterTypes'
    BY DEF WriteTrace, Stopped, ShapeInv, RunTypes, RunShape, WriterTypes, Writers
  <1>3. FileTypes'
    BY DEF WriteTrace, Stopped, ShapeInv, RunTypes, FileTypes, OrphanTypes, Writers
  <1>4. RowTypes'
    BY DEF WriteTrace, Stopped, ShapeInv, RunTypes, RowTypes
  <1>5. OrphanTypes'
    BY DEF WriteTrace, Stopped, ShapeInv, RunTypes, OrphanTypes
  <1>6. FaultTypes'
    BY DEF WriteTrace, Stopped, ShapeInv, FaultTypes
  <1> QED  BY <1>1, <1>2, <1>3, <1>4, <1>5, <1>6 DEF ShapeInv

LEMMA FinishRunShape ==
  ASSUME ShapeInv, FinishRun PROVE ShapeInv'
  <1>1. RunTypes'
    BY DEF FinishRun, ShapeInv, RunTypes, RunShape, Round
  <1>2. WriterTypes'
    BY DEF FinishRun, ShapeInv, RunTypes, RunShape, WriterTypes, Writers
  <1>3. FileTypes'
    BY DEF FinishRun, ShapeInv, RunTypes, FileTypes, OrphanTypes, Writers
  <1>4. RowTypes'
    <2>1. run.dir \in Dirs
      BY DEF FinishRun, ShapeInv, RunTypes
    <2>2. UNCHANGED rows \/ \E status : rows' = [rows EXCEPT ![run.dir].status = status]
      BY DEF FinishRun
    <2> QED  BY <2>1, <2>2 DEF ShapeInv, RowTypes
  <1>5. OrphanTypes'
    BY DEF FinishRun, ShapeInv, RunTypes, OrphanTypes
  <1>6. FaultTypes'
    BY DEF FinishRun, ShapeInv, FaultTypes
  <1> QED  BY <1>1, <1>2, <1>3, <1>4, <1>5, <1>6 DEF ShapeInv

LEMMA CrashShape ==
  ASSUME ShapeInv, Crash PROVE ShapeInv'
  <1>1. /\ run' = Idle /\ writer' = [w \in Writers |-> "idle"] /\ orphans' = {}
        /\ rows' = rows /\ faults' = [faults EXCEPT !.crashes = @ + 1]
    BY DEF Crash
  <1>2. FileTypes'
    <2>1. CASE UNCHANGED files
      BY <2>1 DEF ShapeInv, FileTypes
    <2>2. ASSUME NEW d \in Dirs, NEW w \in Writers, files' = [files EXCEPT ![d][w] = Torn]
          PROVE  FileTypes'
      BY <2>2, FileWritten DEF ShapeInv
    <2>3. run # Idle => run.dir \in Dirs
      BY DEF ShapeInv, RunTypes
    <2>4. \A o \in orphans : o.dir \in Dirs /\ o.writer \in Writers
      BY DEF ShapeInv, OrphanTypes
    <2> QED  BY <2>1, <2>2, <2>3, <2>4 DEF Crash
  <1> QED  BY <1>1, <1>2 DEF ShapeInv, RunTypes, WriterTypes, RowTypes, OrphanTypes, FaultTypes

LEMMA ApplyShape ==
  ASSUME ShapeInv, NEW d \in Dirs, NEW force \in BOOLEAN, Apply(d, force) PROVE ShapeInv'
  <1>1. RunTypes'
    BY DEF Apply, ShapeInv, RunTypes, RunShape, Round
  <1>2. WriterTypes'
    BY DEF Apply, ShapeInv, RunTypes, RunShape, WriterTypes, Writers
  <1>3. FileTypes'
    BY DEF Apply, ShapeInv, RunTypes, FileTypes, OrphanTypes, Writers
  <1>4. RowTypes'
    BY DEF Apply, ShapeInv, RunTypes, RowTypes
  <1>5. OrphanTypes'
    BY DEF Apply, ShapeInv, RunTypes, OrphanTypes
  <1>6. FaultTypes'
    BY DEF Apply, ShapeInv, FaultTypes
  <1> QED  BY <1>1, <1>2, <1>3, <1>4, <1>5, <1>6 DEF ShapeInv

-----------------------------------------------------------------------------
(* What each step does to what the invariants read.                        *)

\* Steps that leave alone all of a run but its phase and what they say of it.
SameRun ==
  /\ run' # Idle /\ run'.dir = run.dir /\ run'.results = run.results /\ run'.round = run.round
  /\ run'.n = run.n /\ run'.best = run.best /\ run'.stale = run.stale /\ run'.code = run.code
  /\ run'.previous = run.previous /\ run'.stop = run.stop /\ run'.plan = run.plan

\* Rows keep their status.
RowsKept == \A d \in Dirs : rows'[d].status = rows[d].status

\* The directories were used as before, and what is lost is not found.
SameUse ==
  /\ faults'.used = faults.used /\ faults'.reused = faults.reused /\ faults'.crashes = faults.crashes
  /\ faults.lost \subseteq faults'.lost

LEMMA StartEffect ==
  ASSUME ShapeInv, NEW d \in Dirs, NEW p, NEW chosen, Start(d, p, chosen)
  PROVE  /\ run = Idle /\ run' # Idle /\ run'.phase = "writing" /\ run'.dir = d /\ run'.results = <<>>
         /\ run'.round = 1 /\ run'.best = 0 /\ run'.stale = 0 /\ run'.stop = None
         /\ writer' = [w \in Writers |-> "calling"]
         /\ \A e \in Dirs \ {d} : rows'[e].status = rows[e].status
         /\ rows[d].status # "none" => rows'[d].status = rows[d].status
         /\ rows[d].status = "none" => rows'[d].status = "started" \/ (rows'[d].status = "none" /\ d \in faults'.lost)
         /\ faults.lost \subseteq faults'.lost /\ faults'.used = faults.used \cup {d} /\ faults'.crashes = faults.crashes
         /\ faults'.reused = faults.reused \cup ({d} \cap faults.used)
         /\ UNCHANGED <<files, orphans, target, verified>>
  <1>1. PICK lost \in BOOLEAN :
          /\ faults' = [faults EXCEPT !.starts = @ + 1,
                                      !.outages = IF lost THEN @ + 1 ELSE @,
                                      !.lost = IF lost THEN @ \union {d} ELSE @,
                                      !.used = @ \union {d},
                                      !.reused = @ \union ({d} \intersect faults.used)]
          /\ rows' = [rows EXCEPT ![d].status = IF @ = "none" /\ ~lost THEN "started" ELSE @]
    BY DEF Start
  <1>2. /\ faults'.used = faults.used \cup {d} /\ faults'.crashes = faults.crashes
        /\ faults'.reused = faults.reused \cup ({d} \cap faults.used)
        /\ faults'.lost = IF lost THEN faults.lost \cup {d} ELSE faults.lost
    BY <1>1 DEF ShapeInv, FaultTypes
  <1>3. \A e \in Dirs \ {d} : rows'[e] = rows[e]
    BY <1>1 DEF ShapeInv, RowTypes
  <1>4. rows'[d].status = IF rows[d].status = "none" /\ ~lost THEN "started" ELSE rows[d].status
    BY <1>1 DEF ShapeInv, RowTypes
  <1>5. /\ run = Idle /\ run'.phase = "writing" /\ run'.dir = d /\ run'.results = <<>>
        /\ run'.round = 1 /\ run'.best = 0 /\ run'.stale = 0 /\ run'.stop = None
        /\ writer' = [w \in Writers |-> "calling"]
        /\ UNCHANGED <<files, orphans, target, verified>>
    BY DEF Start
  <1>6. run' # Idle
    BY <1>5 DEF Idle
  <1> QED  BY <1>1, <1>2, <1>3, <1>4, <1>5, <1>6

LEMMA WriteEffect ==
  ASSUME ShapeInv, NEW w \in Writers, Write(w)
  PROVE  /\ run # Idle /\ run' # Idle /\ run.phase \in {"writing", "revising"} /\ run'.phase = run.phase
         /\ run'.dir = run.dir /\ run'.results = run.results /\ run'.round = run.round
         /\ run'.best = run.best /\ run'.stale = run.stale /\ run'.stop = run.stop
         /\ run'.plan = run.plan /\ run'.merged = run.merged /\ run'.n = run.n
         /\ IF w = "code" THEN run'.previous = run.code ELSE UNCHANGED <<run.code, run.previous>>
         /\ w = "code" /\ run.phase = "writing" /\ run.round = 1 => run'.code \in Tree
         /\ w = "code" /\ run.code \in Tree => run'.code \in Tree
         /\ writer' = [writer EXCEPT ![w] = "done"] /\ writer[w] \in {"calling", "again"}
         /\ \A d \in Dirs : /\ d # run.dir => files'[d].code = files[d].code
                            /\ files'[d].report = files[d].report /\ files'[d].trace = files[d].trace
         /\ UNCHANGED <<rows, orphans, target, verified, faults>>
  <1>0. PICK stages : \E v \in IF run.round = 1 THEN {1} ELSE {run.code.v, run.round} :
          /\ files' = [files EXCEPT ![run.dir][w] = [n |-> run.n, v |-> v]]
          /\ run' = Wrote(w, [n |-> run.n, v |-> v], stages)
    BY WriteRun
  <1>1. PICK v \in IF run.round = 1 THEN {1} ELSE {run.code.v, run.round} :
          /\ files' = [files EXCEPT ![run.dir][w] = [n |-> run.n, v |-> v]]
          /\ run' = Wrote(w, [n |-> run.n, v |-> v], stages)
    BY <1>0
  <1>2. /\ run # Idle /\ run.phase \in {"writing", "revising"} /\ writer[w] \in {"calling", "again"}
        /\ writer' = [writer EXCEPT ![w] = "done"]
        /\ UNCHANGED <<rows, orphans, target, verified, faults>>
    BY WriteRun
  <1>3. /\ run'.phase = run.phase /\ run'.dir = run.dir /\ run'.results = run.results
        /\ run'.round = run.round /\ run'.best = run.best /\ run'.stale = run.stale
        /\ run'.stop = run.stop /\ run'.plan = run.plan /\ run'.merged = run.merged /\ run'.n = run.n
        /\ w = "code" => run'.previous = run.code /\ run'.code = [n |-> run.n, v |-> v]
        /\ w # "code" => run'.previous = run.previous /\ run'.code = run.code
    BY <1>1 DEF Wrote
  <1>4. run' # Idle
    BY <1>2, <1>3 DEF Idle
  <1>5. run.dir \in Dirs /\ run.n \in Nat /\ run.round \in Nat
    BY <1>2 DEF ShapeInv, RunTypes
  <1>6. /\ w = "code" /\ run.round = 1 => run'.code \in Tree
        /\ w = "code" /\ run.code \in Tree => run'.code \in Tree
    BY <1>1, <1>3, <1>5 DEF Tree
  <1>7. \A d \in Dirs : /\ d # run.dir => files'[d].code = files[d].code
                        /\ files'[d].report = files[d].report /\ files'[d].trace = files[d].trace
    <2>1. files' = [files EXCEPT ![run.dir] =
                      [code |-> IF w = "code" THEN [n |-> run.n, v |-> v] ELSE files[run.dir].code,
                       tests |-> IF w = "tests" THEN [n |-> run.n, v |-> v] ELSE files[run.dir].tests,
                       report |-> files[run.dir].report, trace |-> files[run.dir].trace]]
      BY <1>1, <1>5, FileWritten DEF ShapeInv
    <2> QED  BY <1>5, <2>1 DEF ShapeInv, FileTypes
  <1> QED  BY <1>2, <1>3, <1>4, <1>6, <1>7

LEMMA EndEffect ==
  ASSUME ShapeInv, NEW w \in Writers, Throw(w) \/ TestsDie
  PROVE  /\ run # Idle /\ run.phase \in {"writing", "revising", "testing"} /\ run' = Idle
         /\ orphans \subseteq orphans' /\ \A o \in orphans' \ orphans : o.dir = run.dir /\ run.phase # "testing"
         /\ UNCHANGED <<files, rows, target, verified, faults>>
  BY DEF Throw, TestsDie, ShapeInv, WriterTypes, RunTypes

LEMMA OrphanEffect ==
  ASSUME ShapeInv, NEW o \in orphans, OrphanWrites(o) \/ OrphanThrows(o)
  PROVE  /\ orphans' \subseteq orphans
         /\ \A d \in Dirs : /\ d # o.dir => files'[d].code = files[d].code
                            /\ files'[d].report = files[d].report /\ files'[d].trace = files[d].trace
         /\ UNCHANGED <<run, writer, rows, target, verified, faults>>
  <1>1. orphans' \subseteq orphans /\ UNCHANGED <<run, writer, rows, target, verified, faults>>
    BY DEF OrphanWrites, OrphanThrows
  <1>2. CASE UNCHANGED files
    BY <1>1, <1>2
  <1>3. CASE files' = [files EXCEPT ![o.dir][o.writer] = o.tree]
    <2>1. o.dir \in Dirs /\ o.writer \in Writers
      BY DEF ShapeInv, OrphanTypes
    <2>2. files' = [files EXCEPT ![o.dir] =
                      [code |-> IF o.writer = "code" THEN o.tree ELSE files[o.dir].code,
                       tests |-> IF o.writer = "tests" THEN o.tree ELSE files[o.dir].tests,
                       report |-> files[o.dir].report, trace |-> files[o.dir].trace]]
      BY <1>3, <2>1, FileWritten DEF ShapeInv
    <2> QED  BY <1>1, <2>1, <2>2 DEF ShapeInv, FileTypes
  <1> QED  BY <1>2, <1>3 DEF OrphanWrites, OrphanThrows

LEMMA LedgerEffect ==
  ASSUME ShapeInv, NEW d \in Dirs, NEW n \in Nat, Ledger(d, rows[d].status, n)
  PROVE  RowsKept /\ SameUse
  <1>1. PICK k \in 0 .. n :
          /\ faults' = [faults EXCEPT !.outages = IF k < n THEN @ + 1 ELSE @,
                                      !.lost = IF k < n THEN @ \union {d} ELSE @]
          /\ rows' = [rows EXCEPT ![d] =
               [status |-> IF k = n THEN rows[d].status ELSE @.status,
                traces |-> IF n > 0 THEN @.traces + k ELSE @.traces]]
    BY DEF Ledger
  <1>2. SameUse
    BY <1>1 DEF ShapeInv, FaultTypes, SameUse
  <1>3. RowsKept
    BY <1>1 DEF ShapeInv, RowTypes, RowsKept
  <1> QED  BY <1>2, <1>3

LEMMA MergeEffect ==
  ASSUME ShapeInv, Merge
  PROVE  /\ run # Idle /\ run.phase \in {"writing", "revising"} /\ SameRun /\ run'.phase = "testing"
         /\ run'.merged.dir = run.dir /\ run'.merged.code = files[run.dir].code
         /\ writer["code"] = "done"
         /\ RowsKept /\ SameUse
         /\ UNCHANGED <<writer, files, orphans, target, verified>>
  <1>1. RowsKept /\ SameUse
    <2>1. PICK n \in Nat : Ledger(run.dir, rows[run.dir].status, n)
      BY DEF Merge
    <2>2. run.dir \in Dirs
      BY DEF Merge, ShapeInv, RunTypes
    <2> QED  BY <2>1, <2>2, LedgerEffect
  <1>2. /\ run # Idle /\ run.phase \in {"writing", "revising"} /\ writer["code"] = "done"
        /\ UNCHANGED <<writer, files, orphans, target, verified>>
    BY DEF Merge, Writers
  <1>3. /\ SameRun /\ run'.phase = "testing"
        /\ run'.merged.dir = run.dir /\ run'.merged.code = files[run.dir].code
    BY DEF Merge, ShapeInv, RunTypes, RunShape, SameRun, Idle
  <1> QED  BY <1>1, <1>2, <1>3

LEMMA TestsEndEffect ==
  ASSUME ShapeInv, NEW r \in Results, TestsEnd(r)
  PROVE  RowsKept /\ SameUse
  <1>1. run.dir \in Dirs
    BY DEF TestsEnd, ShapeInv, RunTypes
  <1> QED  BY <1>1, LedgerEffect DEF TestsEnd

LEMMA WriteReportEffect ==
  ASSUME ShapeInv, WriteReport
  PROVE  /\ run # Idle /\ run.phase = "reporting" /\ SameRun /\ run'.phase = "tracing" /\ run'.merged = run.merged
         /\ \A d \in Dirs : /\ files'[d].code = files[d].code /\ files'[d].trace = files[d].trace
                            /\ d # run.dir => files'[d].report = files[d].report
         /\ files'[run.dir].report.outcome = Outcome(LastResult)
         /\ UNCHANGED <<writer, rows, orphans, target, verified, faults>>
  BY DEF WriteReport, ShapeInv, RunTypes, RunShape, FileTypes, SameRun, Idle

LEMMA WriteTraceEffect ==
  ASSUME ShapeInv, WriteTrace
  PROVE  /\ run # Idle /\ run.phase = "tracing" /\ SameRun /\ run'.phase = "finishing" /\ run'.merged = run.merged
         /\ \A d \in Dirs : /\ files'[d].code = files[d].code /\ files'[d].report = files[d].report
                            /\ d # run.dir => files'[d].trace = files[d].trace
         /\ UNCHANGED <<writer, rows, orphans, target, verified, faults>>
  BY DEF WriteTrace, ShapeInv, RunTypes, RunShape, FileTypes, SameRun, Idle

LEMMA FinishRunEffect ==
  ASSUME ShapeInv, FinishRun
  PROVE  /\ run # Idle /\ run.phase = "finishing" /\ run' = Idle
         /\ \A d \in Dirs \ {run.dir} : rows'[d].status = rows[d].status
         /\ \/ rows[run.dir].status = "none" /\ rows'[run.dir].status = "none"
            \/ rows'[run.dir].status = rows[run.dir].status /\ run.dir \in faults'.lost
            \/ rows[run.dir].status # "none" /\ rows'[run.dir].status = FinalStatus
         /\ SameUse
         /\ UNCHANGED <<files, orphans, target, verified>>
  <1>1. /\ run # Idle /\ run.phase = "finishing" /\ run.dir \in Dirs /\ run' = Idle
        /\ UNCHANGED <<files, orphans, target, verified>>
    BY DEF FinishRun, ShapeInv, RunTypes
  <1>2. CASE rows[run.dir].status = "none" /\ UNCHANGED <<rows, faults>>
    BY <1>1, <1>2 DEF SameUse
  <1>3. CASE rows[run.dir].status # "none"
    <2>1. PICK lost \in BOOLEAN :
            /\ faults' = [faults EXCEPT !.outages = IF lost THEN @ + 1 ELSE @,
                                        !.lost = IF lost THEN @ \union {run.dir} ELSE @]
            /\ rows' = [rows EXCEPT ![run.dir].status = IF lost THEN @ ELSE FinalStatus]
      BY <1>3 DEF FinishRun
    <2>2. SameUse /\ (lost => run.dir \in faults'.lost)
      BY <2>1 DEF ShapeInv, FaultTypes, SameUse
    <2>3. /\ \A d \in Dirs \ {run.dir} : rows'[d].status = rows[d].status
          /\ rows'[run.dir].status = IF lost THEN rows[run.dir].status ELSE FinalStatus
      BY <1>1, <2>1 DEF ShapeInv, RowTypes
    <2> QED  BY <1>1, <1>3, <2>2, <2>3
  <1> QED  BY <1>2, <1>3 DEF FinishRun

LEMMA CrashEffect ==
  ASSUME ShapeInv, Crash
  PROVE  /\ run' = Idle /\ orphans' = {} /\ faults'.crashes = faults.crashes + 1
         /\ faults'.used = faults.used /\ faults'.reused = faults.reused /\ faults'.lost = faults.lost
         /\ \A d \in Dirs :
              /\ \/ files'[d].code = files[d].code
                 \/ run # Idle /\ d = run.dir /\ run.phase \in {"writing", "revising"}
                 \/ \E o \in orphans : d = o.dir
              /\ files'[d].report = files[d].report /\ files'[d].trace = files[d].trace
         /\ UNCHANGED <<rows, target, verified>>
  <1>1. /\ run' = Idle /\ orphans' = {} /\ faults'.crashes = faults.crashes + 1
        /\ faults'.used = faults.used /\ faults'.reused = faults.reused /\ faults'.lost = faults.lost
        /\ UNCHANGED <<rows, target, verified>>
    BY DEF Crash, ShapeInv, FaultTypes
  <1>2. ASSUME NEW e \in Dirs, NEW w \in Writers, files' = [files EXCEPT ![e][w] = Torn]
        PROVE  \A d \in Dirs : /\ d # e => files'[d].code = files[d].code
                               /\ files'[d].report = files[d].report /\ files'[d].trace = files[d].trace
    <2>1. files' = [files EXCEPT ![e] =
                      [code |-> IF w = "code" THEN Torn ELSE files[e].code,
                       tests |-> IF w = "tests" THEN Torn ELSE files[e].tests,
                       report |-> files[e].report, trace |-> files[e].trace]]
      BY <1>2, FileWritten DEF ShapeInv
    <2> QED  BY <2>1 DEF ShapeInv, FileTypes
  <1>3. CASE UNCHANGED files
    BY <1>1, <1>3
  <1>4. CASE run # Idle /\ \E w \in Writers : /\ writer[w] \in {"calling", "again"}
                                              /\ files' = [files EXCEPT ![run.dir][w] = Torn]
    <2>1. run.dir \in Dirs /\ run.phase \in {"writing", "revising"}
      BY <1>4 DEF ShapeInv, RunTypes, WriterTypes
    <2> QED  BY <1>1, <1>2, <1>4, <2>1
  <1>5. CASE \E o \in orphans : files' = [files EXCEPT ![o.dir][o.writer] = Torn]
    BY <1>1, <1>2, <1>5 DEF ShapeInv, OrphanTypes
  <1> QED  BY <1>3, <1>4, <1>5 DEF Crash

LEMMA ApplyEffect ==
  ASSUME ShapeInv, NEW d \in Dirs, NEW force \in BOOLEAN, Apply(d, force)
  PROVE  /\ files[d].report # None /\ (files[d].report.outcome = "pass" \/ force)
         /\ target'.dir = d /\ target'.code = files[d].code /\ target'.forced = force
         /\ SameUse
         /\ UNCHANGED <<run, writer, files, rows, orphans, verified>>
  BY DEF Apply, CanApply, ShapeInv, FaultTypes, SameUse

-----------------------------------------------------------------------------
(* Directories that are used again.                                        *)

LEMMA StartReuse ==
  ASSUME ShapeInv, ReuseInv, NEW d \in Dirs, NEW p, NEW chosen, Start(d, p, chosen) PROVE ReuseInv'
  BY StartEffect DEF ReuseInv, RunDirectory, OrphanDirectories, ReportedDirectories, AloneInDirectory, Before, Stopped, Passes, LastResult

LEMMA AskAgainReuse ==
  ASSUME ShapeInv, ReuseInv, NEW w \in Writers, AskAgain(w) PROVE ReuseInv'
  BY DEF AskAgain, ReuseInv, RunDirectory, OrphanDirectories, ReportedDirectories, AloneInDirectory, Before, Stopped, Passes, LastResult

LEMMA WriteReuse ==
  ASSUME ShapeInv, ReuseInv, NEW w \in Writers, Write(w) PROVE ReuseInv'
  <1>1. run.dir \in Dirs
    BY WriteEffect DEF ShapeInv, RunTypes
  <1>2. RunDirectory'
    BY <1>1, WriteEffect DEF ReuseInv, RunDirectory, OrphanDirectories, ReportedDirectories, ShapeInv, OrphanTypes, AloneInDirectory, Before, Stopped, Passes, LastResult
  <1>3. OrphanDirectories'
    BY <1>1, WriteEffect DEF ReuseInv, RunDirectory, OrphanDirectories, ReportedDirectories, ShapeInv, OrphanTypes, AloneInDirectory, Before, Stopped, Passes, LastResult
  <1>4. ReportedDirectories'
    BY <1>1, WriteEffect DEF ReuseInv, RunDirectory, OrphanDirectories, ReportedDirectories, ShapeInv, OrphanTypes, AloneInDirectory, Before, Stopped, Passes, LastResult
  <1> QED  BY <1>2, <1>3, <1>4 DEF ReuseInv

LEMMA EndReuse ==
  ASSUME ShapeInv, ReuseInv, NEW w \in Writers, Throw(w) \/ TestsDie PROVE ReuseInv'
  BY EndEffect DEF ReuseInv, RunDirectory, OrphanDirectories, ReportedDirectories, AloneInDirectory, Before, Stopped, Passes, LastResult

LEMMA OrphanReuse ==
  ASSUME ShapeInv, ReuseInv, NEW o \in orphans, OrphanWrites(o) \/ OrphanThrows(o) PROVE ReuseInv'
  <1>1. run # Idle => run.dir \in Dirs
    BY DEF ShapeInv, RunTypes
  <1>2. RunDirectory'
    BY <1>1, OrphanEffect DEF ReuseInv, RunDirectory, OrphanDirectories, ReportedDirectories, ShapeInv, OrphanTypes, AloneInDirectory, Before, Stopped, Passes, LastResult
  <1>3. OrphanDirectories'
    BY <1>1, OrphanEffect DEF ReuseInv, RunDirectory, OrphanDirectories, ReportedDirectories, ShapeInv, OrphanTypes, AloneInDirectory, Before, Stopped, Passes, LastResult
  <1>4. ReportedDirectories'
    BY <1>1, OrphanEffect DEF ReuseInv, RunDirectory, OrphanDirectories, ReportedDirectories, ShapeInv, OrphanTypes, AloneInDirectory, Before, Stopped, Passes, LastResult
  <1> QED  BY <1>2, <1>3, <1>4 DEF ReuseInv

LEMMA MergeReuse ==
  ASSUME ShapeInv, ReuseInv, Merge PROVE ReuseInv'
  BY MergeEffect DEF ReuseInv, RunDirectory, OrphanDirectories, ReportedDirectories, AloneInDirectory, Before, Stopped, Passes, LastResult, SameRun, SameUse

LEMMA WriteReportReuse ==
  ASSUME ShapeInv, ReuseInv, WriteReport PROVE ReuseInv'
  <1>1. run.dir \in Dirs
    BY WriteReportEffect DEF ShapeInv, RunTypes
  <1>2. RunDirectory'
    BY <1>1, WriteReportEffect DEF ReuseInv, RunDirectory, OrphanDirectories, ReportedDirectories, ShapeInv, OrphanTypes, AloneInDirectory, Before, Stopped, Passes, LastResult, SameRun
  <1>3. OrphanDirectories'
    BY <1>1, WriteReportEffect DEF ReuseInv, RunDirectory, OrphanDirectories, ReportedDirectories, ShapeInv, OrphanTypes, AloneInDirectory, Before, Stopped, Passes, LastResult, SameRun
  <1>4. ReportedDirectories'
    BY <1>1, WriteReportEffect DEF ReuseInv, RunDirectory, OrphanDirectories, ReportedDirectories, ShapeInv, OrphanTypes, AloneInDirectory, Before, Stopped, Passes, LastResult, SameRun
  <1> QED  BY <1>2, <1>3, <1>4 DEF ReuseInv

LEMMA WriteTraceReuse ==
  ASSUME ShapeInv, ReuseInv, WriteTrace PROVE ReuseInv'
  <1>1. run.dir \in Dirs
    BY WriteTraceEffect DEF ShapeInv, RunTypes
  <1>2. RunDirectory'
    BY <1>1, WriteTraceEffect DEF ReuseInv, RunDirectory, OrphanDirectories, ReportedDirectories, ShapeInv, OrphanTypes, AloneInDirectory, Before, Stopped, Passes, LastResult, SameRun
  <1>3. OrphanDirectories'
    BY <1>1, WriteTraceEffect DEF ReuseInv, RunDirectory, OrphanDirectories, ReportedDirectories, ShapeInv, OrphanTypes, AloneInDirectory, Before, Stopped, Passes, LastResult, SameRun
  <1>4. ReportedDirectories'
    BY <1>1, WriteTraceEffect DEF ReuseInv, RunDirectory, OrphanDirectories, ReportedDirectories, ShapeInv, OrphanTypes, AloneInDirectory, Before, Stopped, Passes, LastResult, SameRun
  <1> QED  BY <1>2, <1>3, <1>4 DEF ReuseInv

LEMMA FinishRunReuse ==
  ASSUME ShapeInv, ReuseInv, FinishRun PROVE ReuseInv'
  BY FinishRunEffect DEF ReuseInv, RunDirectory, OrphanDirectories, ReportedDirectories, AloneInDirectory, Before, Stopped, Passes, LastResult, SameUse

LEMMA CrashReuse ==
  ASSUME ShapeInv, ReuseInv, Crash PROVE ReuseInv'
  BY CrashEffect DEF ReuseInv, RunDirectory, OrphanDirectories, ReportedDirectories, AloneInDirectory, Before, Stopped, Passes, LastResult

LEMMA ApplyReuse ==
  ASSUME ShapeInv, ReuseInv, NEW d \in Dirs, NEW force \in BOOLEAN, Apply(d, force) PROVE ReuseInv'
  BY ApplyEffect DEF ReuseInv, RunDirectory, OrphanDirectories, ReportedDirectories, AloneInDirectory, Before, Stopped, Passes, LastResult, SameUse

\* The results of a run after one more round.
LEMMA OneMoreRound ==
  ASSUME ShapeInv, run # Idle, NEW r \in Results, NEW stop, run' = AfterTests(r, stop)
  PROVE  /\ Len(run.results) \in Nat /\ Len(run'.results) = Len(run.results) + 1
         /\ run'.results[Len(run.results) + 1] = [code |-> run.code, counts |-> r]
         /\ \A i \in 1 .. Len(run.results) : run'.results[i] = run.results[i]
         /\ LastResult' = r
  <1> DEFINE result == [code |-> run.code, counts |-> r]
  <1>1. run.results \in Seq(Round) /\ run'.results = Append(run.results, result)
    BY DEF ShapeInv, RunTypes, AfterTests
  <1> DEFINE All == Round \cup {result}
  <1>2. run.results \in Seq(All) /\ result \in All
    BY <1>1
  <1> HIDE DEF All, result
  <1>3. /\ Len(run.results) \in Nat /\ Len(run'.results) = Len(run.results) + 1
        /\ run'.results[Len(run.results) + 1] = result
        /\ \A i \in 1 .. Len(run.results) : run'.results[i] = run.results[i]
    BY <1>1, <1>2, LenProperties, AppendProperties
  <1>4. LastResult' = r
    BY <1>3 DEF LastResult, Last, result
  <1> QED  BY <1>3, <1>4 DEF result

LEMMA TestsEndReuse ==
  ASSUME ShapeInv, ReuseInv, NEW r \in Results, TestsEnd(r) PROVE ReuseInv'
  <1>1. PICK stop : stop = StopReason(r.passed, Outcome(r)) /\ run' = AfterTests(r, stop)
    BY TestsEndRun
  <1>2. /\ run # Idle /\ run.phase = "testing" /\ LastResult' = r /\ SameUse
        /\ verified' = IF Outcome(r) = "pass" THEN verified \union {run.merged} ELSE verified
        /\ UNCHANGED <<files, orphans, target>>
    BY <1>1, OneMoreRound, TestsEndRun, TestsEndEffect
  <1>3. run'.dir = run.dir /\ run'.merged = run.merged /\ run'.phase \in {"revising", "reporting"}
    BY <1>1 DEF AfterTests
  <1>4. RunDirectory'
    <2>1. Passes' => run.merged \in verified'
      BY <1>2 DEF Passes
    <2> QED  BY <1>2, <1>3, <2>1 DEF SameUse, ReuseInv, RunDirectory, AloneInDirectory, Before, Stopped
  <1>5. OrphanDirectories' /\ ReportedDirectories'
    BY <1>2 DEF SameUse, ReuseInv, OrphanDirectories, ReportedDirectories
  <1> QED  BY <1>4, <1>5 DEF ReuseInv

-----------------------------------------------------------------------------
(* What an unforced apply copies.                                          *)

\* Only an apply writes the target, and what was verified or used twice stays so.
LEMMA NextTarget ==
  ASSUME ShapeInv, ReuseInv, UnverifiedNeedsReuse, [Next]_allVars
  PROVE  UnverifiedNeedsReuse'
  <1>1. ASSUME UNCHANGED target, verified \subseteq verified', faults.reused \subseteq faults'.reused
        PROVE  UnverifiedNeedsReuse'
    BY <1>1 DEF UnverifiedNeedsReuse
  <1>2. CASE UNCHANGED vars
    BY <1>1, <1>2 DEF vars
  <1>3. ASSUME NEW d \in Dirs, NEW p, RunStarts(d, p) PROVE UnverifiedNeedsReuse'
    BY <1>1, <1>3, StartEffect DEF RunStarts
  <1>4. ASSUME NEW w \in Writers, AskAgain(w) \/ Write(w) \/ Throw(w) PROVE UnverifiedNeedsReuse'
    BY <1>1, <1>4, WriteEffect, EndEffect DEF AskAgain
  <1>5. ASSUME NEW o \in orphans, OrphanWrites(o) \/ OrphanThrows(o) PROVE UnverifiedNeedsReuse'
    BY <1>1, <1>5, OrphanEffect
  <1>6. CASE Merge
    BY <1>1, <1>6, MergeEffect DEF SameUse
  <1>7. ASSUME NEW r \in Results, TestsEnd(r) PROVE UnverifiedNeedsReuse'
    BY <1>1, <1>7, TestsEndRun, TestsEndEffect DEF SameUse
  <1>8. CASE TestsDie
    BY <1>1, <1>8 DEF TestsDie
  <1>9. CASE WriteReport \/ WriteTrace \/ FinishRun \/ Crash
    BY <1>1, <1>9, WriteReportEffect, WriteTraceEffect, FinishRunEffect, CrashEffect DEF SameUse
  <1>10. ASSUME NEW d \in Dirs, NEW force \in BOOLEAN, Apply(d, force) PROVE UnverifiedNeedsReuse'
    BY <1>10, ApplyEffect DEF ReuseInv, ReportedDirectories, SameUse, UnverifiedNeedsReuse
  <1> QED  BY <1>2, <1>3, <1>4, <1>5, <1>6, <1>7, <1>8, <1>9, <1>10, PipelineSteps

-----------------------------------------------------------------------------
(* What the row of a run tells.                                            *)

LEMMA StartRow ==
  ASSUME ShapeInv, ReuseInv, RowInv, NEW d \in Dirs, NEW p, NEW chosen, Start(d, p, chosen) PROVE RowInv'
  BY StartEffect DEF RowInv, Finishing, ReuseInv, RunDirectory, OrphanDirectories, ReportedDirectories, AloneInDirectory, Before, Stopped

LEMMA WriteRow ==
  ASSUME ShapeInv, ReuseInv, RowInv, NEW w \in Writers, Write(w) PROVE RowInv'
  BY WriteEffect DEF RowInv, Finishing, ReuseInv, RunDirectory, OrphanDirectories, ReportedDirectories, AloneInDirectory, Before, Stopped

LEMMA EndRow ==
  ASSUME ShapeInv, ReuseInv, RowInv, NEW w \in Writers, Throw(w) \/ TestsDie PROVE RowInv'
  BY EndEffect DEF RowInv, Finishing, ReuseInv, RunDirectory, OrphanDirectories, ReportedDirectories, AloneInDirectory, Before, Stopped

LEMMA OrphanRow ==
  ASSUME ShapeInv, ReuseInv, RowInv, NEW o \in orphans, OrphanWrites(o) \/ OrphanThrows(o) PROVE RowInv'
  BY OrphanEffect DEF RowInv, Finishing, ReuseInv, RunDirectory, OrphanDirectories, ReportedDirectories, AloneInDirectory, Before, Stopped

LEMMA MergeRow ==
  ASSUME ShapeInv, ReuseInv, RowInv, Merge PROVE RowInv'
  BY MergeEffect DEF RowInv, Finishing, ReuseInv, RunDirectory, OrphanDirectories, ReportedDirectories, AloneInDirectory, Before, Stopped, SameRun, SameUse, RowsKept

LEMMA WriteReportRow ==
  ASSUME ShapeInv, ReuseInv, RowInv, WriteReport PROVE RowInv'
  BY WriteReportEffect DEF RowInv, Finishing, ReuseInv, RunDirectory, OrphanDirectories, ReportedDirectories, AloneInDirectory, Before, Stopped, SameRun, ShapeInv, RunTypes

LEMMA WriteTraceRow ==
  ASSUME ShapeInv, ReuseInv, RowInv, WriteTrace PROVE RowInv'
  BY WriteTraceEffect DEF RowInv, Finishing, ReuseInv, RunDirectory, OrphanDirectories, ReportedDirectories, AloneInDirectory, Before, Stopped, SameRun, ShapeInv, RunTypes

LEMMA FinishRunRow ==
  ASSUME ShapeInv, ReuseInv, RowInv, FinishRun PROVE RowInv'
  BY FinishRunEffect DEF RowInv, Finishing, ReuseInv, RunDirectory, OrphanDirectories, ReportedDirectories, AloneInDirectory, Before, Stopped, SameUse, FinalStatus, Passes, ShapeInv, RunTypes

LEMMA CrashRow ==
  ASSUME ShapeInv, ReuseInv, RowInv, Crash PROVE RowInv'
  BY CrashEffect DEF RowInv, Finishing, ReuseInv, RunDirectory, OrphanDirectories, ReportedDirectories, AloneInDirectory, Before, Stopped, ShapeInv, FaultTypes

LEMMA ApplyRow ==
  ASSUME ShapeInv, ReuseInv, RowInv, NEW d \in Dirs, NEW force \in BOOLEAN, Apply(d, force) PROVE RowInv'
  BY ApplyEffect DEF RowInv, Finishing, ReuseInv, RunDirectory, OrphanDirectories, ReportedDirectories, AloneInDirectory, Before, Stopped, SameUse

LEMMA TestsEndRow ==
  ASSUME ShapeInv, ReuseInv, RowInv, NEW r \in Results, TestsEnd(r) PROVE RowInv'
  <1>1. PICK stop : run' = AfterTests(r, stop)
    BY TestsEndRun
  <1>2. /\ run # Idle /\ run.phase = "testing" /\ SameUse /\ RowsKept
        /\ verified \subseteq verified' /\ UNCHANGED files
    BY TestsEndRun, TestsEndEffect
  <1>3. run'.dir = run.dir /\ run'.phase \in {"revising", "reporting"}
    BY <1>1 DEF AfterTests
  <1> QED  BY <1>2, <1>3 DEF SameUse, RowsKept, RowInv, Finishing

-----------------------------------------------------------------------------
(* Why the loop of a run stopped.                                          *)

\* Nothing about the rounds changes with a run that is only moved on.
LEMMA SameLoop ==
  ASSUME StopIsJustified, run # Idle, run' # Idle,
         run'.results = run.results, run'.round = run.round, run'.stop = run.stop, run'.plan = run.plan
  PROVE  StopIsJustified'
  BY DEF StopIsJustified

LEMMA StartLoop ==
  ASSUME ShapeInv, NEW d \in Dirs, NEW p, NEW chosen, Start(d, p, chosen) PROVE LoopInv'
  <1>1. Len(run'.results) = 0
    BY StartEffect
  <1>2. /\ run'.phase = "writing" /\ run'.round = 1 /\ run'.stop = None /\ run'.stale = 0
        /\ writer'["code"] = "calling"
    BY StartEffect DEF Writers
  <1>3. StopIsJustified'
    BY <1>2 DEF StopIsJustified
  <1> QED  BY <1>1, <1>2, <1>3 DEF LoopInv, Stopped

LEMMA AskAgainLoop ==
  ASSUME ShapeInv, LoopInv, NEW w \in Writers, AskAgain(w) PROVE LoopInv'
  <1>1. run' = run /\ (writer["code"] = "done" <=> writer'["code"] = "done")
    BY DEF AskAgain, ShapeInv, WriterTypes, Writers
  <1> QED  BY <1>1 DEF LoopInv, StopIsJustified, PassedIn

LEMMA WriteLoop ==
  ASSUME ShapeInv, LoopInv, NEW w \in Writers, Write(w) PROVE LoopInv'
  <1>1. /\ run # Idle /\ run' # Idle /\ run.phase \in {"writing", "revising"} /\ run'.phase = run.phase
        /\ run'.results = run.results /\ run'.round = run.round /\ run'.best = run.best
        /\ run'.stale = run.stale /\ run'.stop = run.stop /\ run'.plan = run.plan
    BY WriteEffect
  <1>2. StopIsJustified'
    BY <1>1, SameLoop DEF LoopInv
  <1>3. CASE w = "code"
    <2>1. writer'["code"] = "done" /\ writer["code"] # "done"
      BY <1>3, WriteEffect DEF ShapeInv, WriterTypes
    <2>2. run'.previous = run.code /\ run'.code \in Tree
      BY <1>1, <1>3, WriteEffect DEF LoopInv
    <2> QED  BY <1>1, <1>2, <2>1, <2>2 DEF LoopInv, PassedIn
  <1>4. CASE w # "code"
    <2>1. writer'["code"] = writer["code"]
      BY <1>4, WriteEffect DEF ShapeInv, WriterTypes, Writers
    <2>2. UNCHANGED <<run.code, run.previous>>
      BY <1>4, WriteEffect
    <2> QED  BY <1>1, <1>2, <2>1, <2>2 DEF LoopInv, PassedIn
  <1> QED  BY <1>3, <1>4

LEMMA MergeLoop ==
  ASSUME ShapeInv, LoopInv, Merge PROVE LoopInv'
  <1>1. /\ run # Idle /\ run.phase \in {"writing", "revising"} /\ SameRun /\ run'.phase = "testing"
        /\ writer["code"] = "done"
    BY MergeEffect
  <1>2. StopIsJustified'
    BY <1>1, SameLoop DEF LoopInv, SameRun
  <1> QED  BY <1>1, <1>2 DEF LoopInv, SameRun, PassedIn, Stopped

LEMMA ReportLoop ==
  ASSUME ShapeInv, LoopInv, WriteReport \/ WriteTrace PROVE LoopInv'
  <1>1. run # Idle /\ run.phase \in Stopped /\ SameRun /\ run'.phase \in Stopped
    BY WriteReportEffect, WriteTraceEffect DEF Stopped
  <1>2. StopIsJustified'
    BY <1>1, SameLoop DEF LoopInv, SameRun
  <1> QED  BY <1>1, <1>2 DEF LoopInv, SameRun, PassedIn, Stopped

LEMMA IdleLoop == ASSUME run' = Idle PROVE LoopInv'
  BY DEF LoopInv

LEMMA OtherLoop == ASSUME LoopInv, UNCHANGED <<run, writer>> PROVE LoopInv'
  BY DEF LoopInv, StopIsJustified, PassedIn

\* What StopReason says of the round that ends.
LEMMA StopReasons ==
  ASSUME ShapeInv, NEW passed \in Nat, NEW outcome, NEW stop, stop = StopReason(passed, outcome),
         run # Idle
  PROVE  /\ stop = "pass" <=> outcome = "pass"
         /\ stop = "no_change" <=> outcome # "pass" /\ run.round > 1 /\ run.code = run.previous
         /\ stop = "stuck" => run.round > 1 /\ passed <= run.best /\ run.stale = 1
         /\ stop = "max_rounds" => run.round = run.plan.maxRounds
         /\ stop = None => ~(run.round > 1 /\ passed <= run.best /\ run.stale = 1)
  BY PipelineAssumption DEF StopReason, SameFileHashes

LEMMA TestsEndLoop ==
  ASSUME ShapeInv, LoopInv, NEW r \in Results, TestsEnd(r) PROVE LoopInv'
  <1>1. PICK stop : /\ stop = StopReason(r.passed, Outcome(r))
                    /\ run' = AfterTests(r, stop)
                    /\ writer' = IF stop = None THEN [writer EXCEPT !["code"] = "calling"] ELSE writer
    BY TestsEndRun
  <1>2. PICK n \in Nat, best \in Nat, stale \in Nat :
          n = Len(run.results) /\ best = run.best /\ stale = run.stale
    BY TestsEndRun, LenProperties DEF ShapeInv, RunTypes
  <1>3. /\ run # Idle /\ run.phase = "testing" /\ run.round = n + 1 /\ run.stop = None
        /\ run.code \in Tree /\ (n >= 1 => run.previous = run.results[n].code)
        /\ r.passed \in Nat
    BY <1>2, TestsEndRun, PipelineAssumption DEF LoopInv, Stopped
  <1>4. /\ Len(run'.results) = n + 1
        /\ run'.results[n + 1] = [code |-> run.code, counts |-> r]
        /\ \A i \in 1 .. n : run'.results[i] = run.results[i]
    BY <1>1, <1>2, <1>3, OneMoreRound
  <1>5. /\ stop = "pass" <=> Outcome(r) = "pass"
        /\ stop = "no_change" <=> Outcome(r) # "pass" /\ n >= 1 /\ run.code = run.previous
        /\ stop = "stuck" => n >= 1 /\ r.passed <= best /\ stale = 1
        /\ stop = "max_rounds" => n + 1 = run.plan.maxRounds
        /\ stop = None => ~(n >= 1 /\ r.passed <= best /\ stale = 1)
    BY <1>1, <1>2, <1>3, StopReasons
  <1>6. /\ run'.stop = stop /\ run'.plan = run.plan /\ run'.code = run.code
        /\ run'.phase = IF stop = None THEN "revising" ELSE "reporting"
        /\ run'.round = IF stop = None THEN n + 2 ELSE n + 1
        /\ run'.best = IF n = 0 \/ r.passed > best THEN r.passed ELSE best
        /\ run'.stale = IF n = 0 \/ r.passed > best THEN 0 ELSE stale + 1
    BY <1>1, <1>2, <1>3 DEF AfterTests
  <1>7. /\ \A i \in 1 .. n : Outcome(run.results[i].counts) # "pass"
        /\ n >= 1 => \E i \in 1 .. n : run.results[i].counts.passed = best
        /\ stale >= 1 => \E i \in 1 .. n - 1 : run.results[i].counts.passed = best
                                               /\ run.results[n].counts.passed <= best
    BY <1>2, <1>3 DEF LoopInv, PassedIn
  <1>8. ASSUME stop # None PROVE StopIsJustified'
    <2>1. \A i \in 1 .. n + 1 :
            Outcome(run'.results[i].counts) = "pass" <=> i = n + 1 /\ stop = "pass"
      BY <1>4, <1>5, <1>7
    <2>2. stop = "no_change" <=> /\ stop # "pass" /\ n + 1 > 1
                                 /\ run'.results[n + 1].code = run'.results[n].code
      BY <1>3, <1>4, <1>5
    <2>3. stop = "stuck" =>
            n + 1 > 2 /\ \E i \in 1 .. n - 1 : /\ run'.results[i].counts.passed >= run'.results[n].counts.passed
                                               /\ run'.results[i].counts.passed >= run'.results[n + 1].counts.passed
      BY <1>4, <1>5, <1>7
    <2>4. stop = "max_rounds" => n + 1 = run.plan.maxRounds
      BY <1>5
    <2> QED  BY <1>4, <1>6, <1>8, <2>1, <2>2, <2>3, <2>4 DEF StopIsJustified
  <1>9. ASSUME stop = None
        PROVE  /\ \A i \in 1 .. n + 1 : Outcome(run'.results[i].counts) # "pass"
               /\ \E i \in 1 .. n + 1 : run'.results[i].counts.passed = run'.best
               /\ run'.stale >= 1 => \E i \in 1 .. n : /\ run'.results[i].counts.passed = run'.best
                                                       /\ run'.results[n + 1].counts.passed <= run'.best
    <2>1. \A i \in 1 .. n + 1 : Outcome(run'.results[i].counts) # "pass"
      BY <1>4, <1>5, <1>7, <1>9, PipelineAssumption
    <2>2. CASE n = 0 \/ r.passed > best
      <3>1. run'.best = r.passed /\ run'.stale = 0
        BY <1>6, <2>2
      <3>2. run'.results[n + 1].counts.passed = run'.best
        BY <1>4, <3>1
      <3> QED  BY <2>1, <3>1, <3>2
    <2>3. CASE ~(n = 0 \/ r.passed > best)
      <3>1. run'.best = best /\ n >= 1 /\ r.passed <= best
        BY <1>3, <1>6, <2>3
      <3>2. PICK j \in 1 .. n : run.results[j].counts.passed = best
        BY <1>7, <3>1
      <3>3. run'.results[j].counts.passed = run'.best /\ run'.results[n + 1].counts.passed = r.passed
        BY <1>4, <3>1, <3>2
      <3> QED  BY <2>1, <3>1, <3>3
    <2> QED  BY <2>1, <2>2, <2>3
  <1>10. stop = None => StopIsJustified'
    BY <1>6 DEF StopIsJustified
  <1>11. stop = None => writer'["code"] = "calling"
    BY <1>1 DEF ShapeInv, WriterTypes, Writers
  <1> QED  BY <1>3, <1>4, <1>6, <1>8, <1>9, <1>10, <1>11 DEF LoopInv, PassedIn, Stopped

-----------------------------------------------------------------------------
(* The results.                                                            *)

LEMMA PipelineInit ==
  ASSUME GroupsInit PROVE ShapeInv /\ ReuseInv /\ LoopInv /\ RowInv /\ UnverifiedNeedsReuse
  <1>1. Init
    BY DEF GroupsInit, LearningInit
  <1>2. ShapeInv
    BY <1>1 DEF Init, Empty, ShapeInv, RunTypes, WriterTypes, FileTypes, RowTypes, OrphanTypes, FaultTypes
  <1>3. ReuseInv
    BY <1>1 DEF Init, Empty, ReuseInv, RunDirectory, OrphanDirectories, ReportedDirectories
  <1>4. LoopInv /\ RowInv /\ UnverifiedNeedsReuse
    BY <1>1 DEF Init, Empty, LoopInv, RowInv, UnverifiedNeedsReuse
  <1> QED  BY <1>2, <1>3, <1>4

LEMMA PipelineStep ==
  ASSUME ShapeInv, ReuseInv, LoopInv, RowInv, [Next]_allVars
  PROVE  ShapeInv' /\ ReuseInv' /\ LoopInv' /\ RowInv'
  <1>1. CASE UNCHANGED vars
    <2>1. ShapeInv'
      BY <1>1 DEF vars, ShapeInv, RunTypes, RunShape, WriterTypes, FileTypes, RowTypes, OrphanTypes, FaultTypes
    <2>2. ReuseInv'
      BY <1>1 DEF vars, ReuseInv, RunDirectory, OrphanDirectories, ReportedDirectories,
                  AloneInDirectory, Passes, LastResult
    <2>3. LoopInv' /\ RowInv'
      BY <1>1, OtherLoop DEF vars, RowInv, Finishing
    <2> QED  BY <2>1, <2>2, <2>3
  <1>2. ASSUME NEW d \in Dirs, NEW p, RunStarts(d, p) PROVE ShapeInv' /\ ReuseInv' /\ LoopInv' /\ RowInv'
    <2>1. PICK chosen : Start(d, p, chosen)
      BY <1>2 DEF RunStarts
    <2> QED  BY <2>1, StartShape, StartReuse, StartLoop, StartRow
  <1>3. ASSUME NEW w \in Writers, AskAgain(w) PROVE ShapeInv' /\ ReuseInv' /\ LoopInv' /\ RowInv'
    <2>1. RowInv'
      BY <1>3 DEF AskAgain, RowInv, Finishing
    <2> QED  BY <1>3, <2>1, AskAgainShape, AskAgainReuse, AskAgainLoop
  <1>4. ASSUME NEW w \in Writers, Write(w) PROVE ShapeInv' /\ ReuseInv' /\ LoopInv' /\ RowInv'
    BY <1>4, WriteShape, WriteReuse, WriteLoop, WriteRow
  <1>5. ASSUME NEW w \in Writers, Throw(w) PROVE ShapeInv' /\ ReuseInv' /\ LoopInv' /\ RowInv'
    BY <1>5, ThrowShape, EndReuse, EndEffect, IdleLoop, EndRow
  <1>6. ASSUME NEW o \in orphans, OrphanWrites(o) \/ OrphanThrows(o)
        PROVE  ShapeInv' /\ ReuseInv' /\ LoopInv' /\ RowInv'
    BY <1>6, OrphanShape, OrphanReuse, OrphanEffect, OtherLoop, OrphanRow
  <1>7. ASSUME Merge PROVE ShapeInv' /\ ReuseInv' /\ LoopInv' /\ RowInv'
    BY <1>7, MergeShape, MergeReuse, MergeLoop, MergeRow
  <1>8. ASSUME NEW r \in Results, TestsEnd(r) PROVE ShapeInv' /\ ReuseInv' /\ LoopInv' /\ RowInv'
    BY <1>8, TestsEndShape, TestsEndReuse, TestsEndLoop, TestsEndRow
  <1>9. ASSUME TestsDie PROVE ShapeInv' /\ ReuseInv' /\ LoopInv' /\ RowInv'
    <2>1. PICK w \in Writers : w = "code"
      BY DEF Writers
    <2> QED  BY <1>9, <2>1, TestsDieShape, EndReuse, EndEffect, IdleLoop, EndRow
  <1>10. ASSUME WriteReport \/ WriteTrace PROVE ShapeInv' /\ ReuseInv' /\ LoopInv' /\ RowInv'
    BY <1>10, WriteReportShape, WriteReportReuse, WriteReportRow, WriteTraceShape, WriteTraceReuse,
       WriteTraceRow, ReportLoop
  <1>11. ASSUME FinishRun PROVE ShapeInv' /\ ReuseInv' /\ LoopInv' /\ RowInv'
    BY <1>11, FinishRunShape, FinishRunReuse, FinishRunEffect, IdleLoop, FinishRunRow
  <1>12. ASSUME Crash PROVE ShapeInv' /\ ReuseInv' /\ LoopInv' /\ RowInv'
    BY <1>12, CrashShape, CrashReuse, CrashEffect, IdleLoop, CrashRow
  <1>13. ASSUME NEW d \in Dirs, NEW force \in BOOLEAN, Apply(d, force)
         PROVE  ShapeInv' /\ ReuseInv' /\ LoopInv' /\ RowInv'
    BY <1>13, ApplyShape, ApplyReuse, ApplyEffect, OtherLoop, ApplyRow
  <1> QED  BY <1>1, <1>2, <1>3, <1>4, <1>5, <1>6, <1>7, <1>8, <1>9, <1>10, <1>11, <1>12, <1>13,
              PipelineSteps

\* The inductive invariant of the pipeline holds throughout.
THEOREM PipelineInvariance == Spec => [](ShapeInv /\ ReuseInv /\ LoopInv /\ RowInv)
  BY PipelineInit, PipelineStep, PTL DEF Spec

\* "nothing unverified lands in the repo" (apply.ts): an unforced apply copies a tree that a
\* verifier has seen pass, or comes from a directory that two runs have used.
THEOREM NothingUnverifiedLands == Spec => []UnverifiedNeedsReuse
  BY PipelineInit, PipelineInvariance, NextTarget, PTL DEF Spec

\* The reason for which the loop of runPipeline stopped, kept in a best count and strikes, is
\* the one that all its rounds give, and the row of a run tells how the run ended.
THEOREM OutcomesJustified == Spec => []OutcomesAreJustified
  <1>1. ASSUME ShapeInv, LoopInv, RowInv PROVE OutcomesAreJustified
    <2>1. StopIsJustified
      BY <1>1 DEF LoopInv, StopIsJustified
    <2>2. RowTellsOutcome
      BY <1>1 DEF RowInv, RowTellsOutcome, Finishing, ShapeInv, FaultTypes
    <2> QED  BY <2>1, <2>2 DEF OutcomesAreJustified
  <1> QED  BY <1>1, PipelineInvariance, PTL

-----------------------------------------------------------------------------
(* The evidence of a class.                                                *)

\* The solution of the recursion.
LEMMA PowerExists ==
  ASSUME NEW b \in Nat, NEW n \in Nat
  PROVE  \E p \in [0 .. n -> Nat] : p = [k \in 0 .. n |-> IF k = 0 THEN 1 ELSE b * p[k - 1]]
  <1> DEFINE Solves(m) == \E p \in [0 .. m -> Nat] : \A k \in 0 .. m : p[k] = IF k = 0 THEN 1 ELSE b * p[k - 1]
             bad == {m \in Nat : ~Solves(m)}
  <1>1. Solves(0)
    <2> DEFINE p == [k \in 0 .. 0 |-> 1]
    <2>1. p \in [0 .. 0 -> Nat] /\ \A k \in 0 .. 0 : k = 0 /\ p[k] = 1
      OBVIOUS
    <2> HIDE DEF p
    <2> QED  BY <2>1
  <1>2. ASSUME NEW m \in Nat, Solves(m) PROVE Solves(m + 1)
    <2>1. PICK p \in [0 .. m -> Nat] : \A k \in 0 .. m : p[k] = IF k = 0 THEN 1 ELSE b * p[k - 1]
      BY <1>2
    <2> DEFINE q == [k \in 0 .. m + 1 |-> IF k = m + 1 THEN b * p[m] ELSE p[k]]
    <2>2. p[m] \in Nat /\ b * p[m] \in Nat
      BY <2>1
    <2>3. q \in [0 .. m + 1 -> Nat] /\ q[m + 1] = b * p[m] /\ \A k \in 0 .. m : q[k] = p[k]
      BY <2>2
    <2> HIDE DEF q
    <2>4. \A k \in 0 .. m + 1 : q[k] = IF k = 0 THEN 1 ELSE b * q[k - 1]
      <3> SUFFICES ASSUME NEW k \in 0 .. m + 1 PROVE q[k] = IF k = 0 THEN 1 ELSE b * q[k - 1]
        OBVIOUS
      <3>1. CASE k = m + 1
        BY <2>3, <3>1
      <3>2. CASE k \in 0 .. m
        <4>1. k = 0 \/ k - 1 \in 0 .. m
          BY <3>2
        <4> QED  BY <2>1, <2>3, <3>2, <4>1
      <3> QED  BY <3>1, <3>2
    <2> QED  BY <2>3, <2>4
  <1>3. bad = {}
    <2>1. SUFFICES ASSUME bad # {} PROVE FALSE
      OBVIOUS
    <2>2. PICK m \in bad : \A k \in bad : m <= k
      BY <2>1, LeastOfSome
    <2>3. m # 0
      BY <1>1
    <2> HIDE DEF Solves
    <2>4. m \in Nat /\ m - 1 \in Nat /\ (m - 1) + 1 = m
      BY <2>2, <2>3
    <2>5. m - 1 \notin bad
      BY <2>2, <2>4
    <2>6. Solves(m - 1)
      BY <2>4, <2>5
    <2>7. Solves((m - 1) + 1)
      BY <1>2, <2>4, <2>6
    <2> QED  BY <2>2, <2>4, <2>7
  <1>4. PICK p \in [0 .. n -> Nat] : \A k \in 0 .. n : p[k] = IF k = 0 THEN 1 ELSE b * p[k - 1]
    BY <1>3
  <1>5. p = [k \in 0 .. n |-> IF k = 0 THEN 1 ELSE b * p[k - 1]]
    BY <1>4
  <1> QED  BY <1>5

IsPower(p, b, n) == p = [k \in 0 .. n |-> IF k = 0 THEN 1 ELSE b * p[k - 1]]

LEMMA PowerIs ==
  ASSUME NEW b \in Nat, NEW n \in Nat
  PROVE  \E p \in [0 .. n -> Nat] : /\ \A k \in 0 .. n : p[k] = IF k = 0 THEN 1 ELSE b * p[k - 1]
                                    /\ Power(b, n) = p[n]
  <1> DEFINE q == CHOOSE p : IsPower(p, b, n)
  <1>1. IsPower(q, b, n)
    <2>1. \E p : IsPower(p, b, n)
      BY PowerExists DEF IsPower
    <2> QED  BY <2>1
  <1>2. Power(b, n) = q[n]
    BY DEF Power, IsPower
  <1> HIDE DEF q
  <1>3. PICK p \in [0 .. n -> Nat] : IsPower(p, b, n)
    BY PowerExists DEF IsPower
  <1>4. \A k \in 0 .. n : p[k] = IF k = 0 THEN 1 ELSE b * p[k - 1]
    BY <1>3 DEF IsPower
  <1>5. \A k \in 0 .. n : q[k] = IF k = 0 THEN 1 ELSE b * q[k - 1]
    BY <1>1 DEF IsPower
  <1>6. \A k \in 0 .. n : p[k] = q[k]
    <2> DEFINE bad == {k \in Nat : k <= n /\ p[k] # q[k]}
    <2>1. bad = {}
      <3>1. SUFFICES ASSUME bad # {} PROVE FALSE
        OBVIOUS
      <3>2. PICK m \in bad : \A k \in bad : m <= k
        BY <3>1, LeastOfSome
      <3>3. m \in 0 .. n /\ p[m] # q[m]
        BY <3>2
      <3>4. m # 0
        BY <1>4, <1>5, <3>3
      <3>5. m - 1 \in 0 .. n /\ p[m - 1] = q[m - 1]
        BY <3>2, <3>4
      <3> QED  BY <1>4, <1>5, <3>3, <3>4, <3>5
    <2> QED  BY <2>1
  <1>7. p[n] = q[n]
    BY <1>6
  <1>8. Power(b, n) = p[n]
    BY <1>2, <1>7
  <1> QED  BY <1>4, <1>8

LEMMA PowersOf ==
  ASSUME NEW n \in Nat
  PROVE  Power(5, n) \in Nat /\ Power(9, n) \in Nat /\ Power(5, n) <= Power(9, n)
  <1>1. PICK p \in [0 .. n -> Nat] : /\ \A k \in 0 .. n : p[k] = IF k = 0 THEN 1 ELSE 5 * p[k - 1]
                                     /\ Power(5, n) = p[n]
    BY PowerIs
  <1>2. PICK q \in [0 .. n -> Nat] : /\ \A k \in 0 .. n : q[k] = IF k = 0 THEN 1 ELSE 9 * q[k - 1]
                                     /\ Power(9, n) = q[n]
    BY PowerIs
  <1> DEFINE bad == {k \in Nat : k <= n /\ p[k] > q[k]}
  <1>3. bad = {}
    <2>1. SUFFICES ASSUME bad # {} PROVE FALSE
      OBVIOUS
    <2>2. PICK m \in bad : \A k \in bad : m <= k
      BY <2>1, LeastOfSome
    <2>3. m \in 0 .. n /\ p[m] > q[m] /\ m # 0
      BY <1>1, <1>2, <2>2
    <2>4. m - 1 \in 0 .. n /\ p[m - 1] <= q[m - 1]
      BY <2>2, <2>3
    <2>5. p[m - 1] \in Nat /\ q[m - 1] \in Nat /\ p[m] = 5 * p[m - 1] /\ q[m] = 9 * q[m - 1]
      BY <1>1, <1>2, <2>3, <2>4
    <2> QED  BY <2>3, <2>4, <2>5
  <1>4. p[n] <= q[n] /\ p[n] \in Nat /\ q[n] \in Nat
    <2>1. n \notin bad /\ p[n] \in Nat /\ q[n] \in Nat
      BY <1>3
    <2> QED  BY <2>1
  <1> QED  BY <1>1, <1>2, <1>4

LEMMA SmallPowers == Power(5, 0) = 1 /\ Power(5, 1) = 5
  <1>1. PICK p \in [0 .. 0 -> Nat] : /\ \A k \in 0 .. 0 : p[k] = IF k = 0 THEN 1 ELSE 5 * p[k - 1]
                                     /\ Power(5, 0) = p[0]
    BY PowerIs
  <1>2. PICK q \in [0 .. 1 -> Nat] : /\ \A k \in 0 .. 1 : q[k] = IF k = 0 THEN 1 ELSE 5 * q[k - 1]
                                     /\ Power(5, 1) = q[1]
    <2>1. 5 \in Nat /\ 1 \in Nat
      OBVIOUS
    <2> QED  BY <2>1, PowerIs
  <1>3. q[0] = 1 /\ q[1] = 5 * q[0]
    BY <1>2
  <1> QED  BY <1>1, <1>2, <1>3

\* One recurrence is not enough, whatever the bound of the gate.
LEMMA EvidenceNeedsTwo ==
  ASSUME NEW recurred \in Nat, NEW clean \in Nat, NEW bound \in Nat, bound >= 5,
         EvidenceExceeds(recurred, clean, bound)
  PROVE  recurred >= 2
  <1> DEFINE x == Power(5, clean)
             y == Power(9, clean)
  <1>1. x \in Nat /\ y \in Nat /\ x <= y
    BY PowersOf
  <1>2. Power(5, recurred) * x > bound * y
    BY DEF EvidenceExceeds
  <1> HIDE DEF x, y
  <1>3. 5 * x <= bound * y
    <2>1. bound * y >= 5 * y
      BY <1>1
    <2>2. 5 * y >= 5 * x
      BY <1>1
    <2>3. bound * y \in Nat
      BY <1>1
    <2> QED  BY <1>1, <2>1, <2>2, <2>3
  <1>4. bound * y \in Nat
    BY <1>1
  <1>5. recurred # 0 /\ recurred # 1
    BY <1>1, <1>2, <1>3, <1>4, SmallPowers
  <1> QED  BY <1>5

IsSequence(s) == \E S : s \in Seq(S)

\* The stages of a trace are listed in order.
StagesInv ==
  /\ run # Idle => IsSequence(run.stages)
  /\ \A d \in Dirs : files[d].trace # None => IsSequence(files[d].trace.stages)

LEMMA SequenceGrows ==
  ASSUME NEW s, IsSequence(s), NEW e PROVE IsSequence(Append(s, e))
  <1>1. PICK S : s \in Seq(S)
    BY DEF IsSequence
  <1>2. s \in Seq(S \cup {e})
    <2>1. Len(s) \in Nat /\ s \in [1 .. Len(s) -> S]
      BY <1>1, LenProperties
    <2>2. s \in [1 .. Len(s) -> S \cup {e}]
      BY <2>1
    <2> QED  BY <2>1, <2>2, SeqDef
  <1>3. Append(s, e) \in Seq(S \cup {e})
    BY <1>2, AppendProperties
  <1> QED  BY <1>3 DEF IsSequence

LEMMA SequenceOfTwo == ASSUME NEW a, NEW b PROVE IsSequence(<<>>) /\ IsSequence(<<a, b>>)
  <1>1. <<>> \in Seq({a}) /\ <<a, b>> \in Seq({a, b})
    OBVIOUS
  <1> QED  BY <1>1 DEF IsSequence

LEMMA StagesInit == ASSUME GroupsInit PROVE StagesInv
  BY DEF GroupsInit, LearningInit, Init, Empty, StagesInv

LEMMA StagesStep ==
  ASSUME ShapeInv, StagesInv, [Next]_allVars PROVE StagesInv'
  <1>1. CASE UNCHANGED vars
    BY <1>1 DEF vars, StagesInv
  <1>2. ASSUME NEW d \in Dirs, NEW p, RunStarts(d, p) PROVE StagesInv'
    <2>1. PICK chosen : Start(d, p, chosen)
      BY <1>2 DEF RunStarts
    <2>2. run'.stages = <<>> /\ UNCHANGED files
      BY <2>1 DEF Start
    <2> QED  BY <2>2, SequenceOfTwo DEF StagesInv
  <1>3. ASSUME NEW w \in Writers, AskAgain(w) PROVE StagesInv'
    BY <1>3 DEF AskAgain, StagesInv
  <1>4. ASSUME NEW w \in Writers, Write(w) PROVE StagesInv'
    <2>1. PICK stages \in {run.stages, Append(run.stages, Stage(w, run.round))} :
            \E v \in IF run.round = 1 THEN {1} ELSE {run.code.v, run.round} :
              run' = Wrote(w, [n |-> run.n, v |-> v], stages)
      BY <1>4, WriteRun
    <2>2. run # Idle /\ run'.stages = stages
      BY <1>4, <2>1, WriteRun DEF Wrote
    <2>3. IsSequence(run'.stages)
      BY <2>2, SequenceGrows DEF StagesInv
    <2> QED  BY <1>4, <2>3, WriteEffect DEF StagesInv
  <1>5. ASSUME NEW w \in Writers, Throw(w) PROVE StagesInv'
    BY <1>5, EndEffect DEF StagesInv
  <1>6. ASSUME NEW o \in orphans, OrphanWrites(o) \/ OrphanThrows(o) PROVE StagesInv'
    BY <1>6, OrphanEffect DEF StagesInv
  <1>7. ASSUME Merge PROVE StagesInv'
    <2>1. run # Idle /\ UNCHANGED files /\ RunShape
      BY <1>7 DEF Merge, ShapeInv, RunTypes
    <2>2. run'.stages = IF run.phase = "writing" THEN <<Stage("code", 1), Stage("tests", 1)>> ELSE run.stages
      BY <1>7, <2>1 DEF Merge, RunShape
    <2> QED  BY <2>1, <2>2, SequenceOfTwo DEF StagesInv
  <1>8. ASSUME NEW r \in Results, TestsEnd(r) PROVE StagesInv'
    <2>1. PICK stop : run' = AfterTests(r, stop)
      BY <1>8, TestsEndRun
    <2>2. run # Idle /\ UNCHANGED files /\ run'.stages = Append(run.stages, VerifierStage(run.round))
      BY <1>8, <2>1, TestsEndRun DEF AfterTests
    <2> QED  BY <2>2, SequenceGrows DEF StagesInv
  <1>9. ASSUME TestsDie PROVE StagesInv'
    BY <1>9 DEF TestsDie, StagesInv
  <1>10. ASSUME WriteReport PROVE StagesInv'
    <2>1. run # Idle /\ RunShape
      BY <1>10 DEF WriteReport, ShapeInv, RunTypes
    <2>2. run'.stages = run.stages
      BY <1>10, <2>1 DEF WriteReport, RunShape
    <2> QED  BY <1>10, <2>1, <2>2, WriteReportEffect DEF StagesInv
  <1>11. ASSUME WriteTrace PROVE StagesInv'
    <2>1. run # Idle /\ RunShape /\ run.dir \in Dirs
      BY <1>11 DEF WriteTrace, ShapeInv, RunTypes
    <2>2. run'.stages = run.stages /\ files'[run.dir].trace.stages = run.stages
      BY <1>11, <2>1 DEF WriteTrace, RunShape, ShapeInv, FileTypes
    <2> QED  BY <1>11, <2>1, <2>2, WriteTraceEffect DEF StagesInv
  <1>12. ASSUME FinishRun PROVE StagesInv'
    BY <1>12 DEF FinishRun, StagesInv
  <1>13. ASSUME Crash PROVE StagesInv'
    BY <1>13, CrashEffect DEF StagesInv
  <1>14. ASSUME NEW d \in Dirs, NEW force \in BOOLEAN, Apply(d, force) PROVE StagesInv'
    BY <1>14 DEF Apply, StagesInv
  <1> QED  BY <1>1, <1>2, <1>3, <1>4, <1>5, <1>6, <1>7, <1>8, <1>9, <1>10, <1>11, <1>12, <1>13, <1>14,
              PipelineSteps

LEMMA OneToOne ==
  ASSUME NEW S, IsFiniteSet(S), NEW f, DOMAIN f = S, \A x, y \in S : f[x] = f[y] => x = y
  PROVE  IsFiniteSet({f[x] : x \in S}) /\ Cardinality({f[x] : x \in S}) = Cardinality(S)
  <1> DEFINE T == {f[x] : x \in S}
             g == [x \in S |-> f[x]]
  <1>1. g \in [S -> T] /\ (\A x \in S : g[x] = f[x]) /\ \A t \in T : \E x \in S : f[x] = t
    OBVIOUS
  <1> HIDE DEF T, g
  <1>2. g \in Bijection(S, T)
    BY <1>1 DEF Bijection, Injection, Surjection, IsInjective
  <1>3. ExistsBijection(S, T)
    BY <1>2 DEF ExistsBijection
  <1>4. IsFiniteSet(T) /\ Cardinality(T) = Cardinality(S)
    BY <1>3, FS_Bijection
  <1> QED  BY <1>4 DEF T

\* The charges of one delivery, and those of several: as many as there are stages.
ChargesAt(learn, place, stages) == {[learn |-> learn, place |-> place, stage |-> k] : k \in stages}

LEMMA CountAt ==
  ASSUME NEW learn, NEW place, NEW stages, IsFiniteSet(stages)
  PROVE  /\ IsFiniteSet(ChargesAt(learn, place, stages))
         /\ Cardinality(ChargesAt(learn, place, stages)) = Cardinality(stages)
  <1> DEFINE f == [k \in stages |-> [learn |-> learn, place |-> place, stage |-> k]]
  <1>1. DOMAIN f = stages /\ \A x, y \in stages : f[x] = f[y] => x = y
    OBVIOUS
  <1>2. {f[x] : x \in stages} = ChargesAt(learn, place, stages)
    BY DEF ChargesAt
  <1> HIDE DEF f
  <1> QED  BY <1>1, <1>2, OneToOne

ChargesOf(learn, stagesAt, places) == UNION {ChargesAt(learn, i, stagesAt[i]) : i \in places}

LEMMA CountOf ==
  ASSUME NEW learn, NEW S, IsFiniteSet(S), NEW stagesAt, \A i \in S : IsFiniteSet(stagesAt[i]),
         NEW many, \A i \in S : many[i] = Cardinality(stagesAt[i])
  PROVE  /\ IsFiniteSet(ChargesOf(learn, stagesAt, S))
         /\ Cardinality(ChargesOf(learn, stagesAt, S)) = SumFunctionOnSet(many, S)
  <1> DEFINE Counted(T) == /\ IsFiniteSet(ChargesOf(learn, stagesAt, T))
                           /\ Cardinality(ChargesOf(learn, stagesAt, T)) = SumFunctionOnSet(many, T)
             bad == {n \in Nat : \E T \in SUBSET S : Cardinality(T) = n /\ ~Counted(T)}
  <1>1. \A T \in SUBSET S : IsFiniteSet(T) /\ Cardinality(T) \in Nat
    BY FS_Subset, FS_CardinalityType
  <1>2. \A i \in S : many[i] \in Int /\ many[i] \in Nat
    BY FS_CardinalityType
  <1>3. Counted({})
    <2>1. ChargesOf(learn, stagesAt, {}) = {}
      BY DEF ChargesOf
    <2> QED  BY <2>1, FS_EmptySet, SumOfNone
  <1>4. ASSUME NEW T \in SUBSET S, NEW i \in T, Counted(T \ {i}) PROVE Counted(T)
    <2> DEFINE rest == ChargesOf(learn, stagesAt, T \ {i})
               here == ChargesAt(learn, i, stagesAt[i])
               total == SumFunctionOnSet(many, T \ {i})
    <2>1. ChargesOf(learn, stagesAt, T) = rest \cup here
      BY DEF ChargesOf
    <2>2. rest \cap here = {}
      BY DEF ChargesOf, ChargesAt
    <2>3. IsFiniteSet(here) /\ Cardinality(here) = many[i]
      BY CountAt
    <2>4. IsFiniteSet(rest) /\ Cardinality(rest) = total
      BY <1>4
    <2>5. SumFunctionOnSet(many, T) = many[i] + total
      BY <1>1, <1>2, SumRemove
    <2>6. IsFiniteSet(T \ {i}) /\ \A x \in T \ {i} : many[x] \in Int
      BY <1>1, <1>2
    <2>7. total \in Int
      BY <2>6, SumType
    <2> HIDE DEF rest, here, total
    <2>8. IsFiniteSet(rest \cup here) /\ Cardinality(rest \cup here) = total + many[i]
      <3>1. /\ IsFiniteSet(rest \cup here)
            /\ Cardinality(rest \cup here) = Cardinality(rest) + Cardinality(here) - Cardinality(rest \cap here)
        BY <2>3, <2>4, FS_Union
      <3>2. Cardinality(rest \cap here) = 0
        BY <2>2, FS_EmptySet
      <3> QED  BY <1>2, <2>3, <2>4, <2>7, <3>1, <3>2
    <2> QED  BY <1>2, <2>1, <2>5, <2>7, <2>8
  <1> HIDE DEF Counted
  <1>5. bad = {}
    <2>1. SUFFICES ASSUME bad # {} PROVE FALSE
      OBVIOUS
    <2>2. PICK n \in bad : \A k \in bad : n <= k
      BY <2>1, LeastOfSome
    <2>3. PICK T \in SUBSET S : Cardinality(T) = n /\ ~Counted(T)
      BY <2>2
    <2>4. PICK i \in T : TRUE
      BY <1>3, <2>3
    <2>5. T \ {i} \in SUBSET S /\ Cardinality(T \ {i}) = n - 1 /\ n - 1 \in Nat
      <3>1. Cardinality(T \ {i}) = n - 1
        BY <1>1, <2>3, <2>4, FS_RemoveElement
      <3> QED  BY <1>1, <3>1
    <2>6. Counted(T \ {i})
      BY <2>2, <2>5
    <2> QED  BY <1>4, <2>3, <2>4, <2>6
  <1>6. Counted(S)
    <2>1. S \in SUBSET S /\ Cardinality(S) \in Nat
      BY <1>1
    <2> QED  BY <1>5, <2>1
  <1> QED  BY <1>6 DEF Counted

-----------------------------------------------------------------------------
(* The library.                                                            *)

\* The batch a learn command has loaded.
BatchInv ==
  learning # None =>
    /\ learning.gate \in Gates
    /\ IsFiniteSet(DOMAIN learning.batch)
    /\ \A i \in DOMAIN learning.batch, s \in Slots : IsFiniteSet(learning.batch[i].delivered[s])

\* What is in the library was seen twice, and no lesson was harmed more often than it is
\* charged for.
LibraryInv ==
  /\ learns \in Nat
  /\ \A s \in Slots : library[s] # None =>
       /\ IsLesson(library[s]) /\ Cardinality(DOMAIN library[s].observed) >= 2
       /\ library[s].harmful <= Cardinality(charges[s])
  /\ \A s \in Slots : IsFiniteSet(charges[s])
  /\ \A s \in Slots : \A c \in charges[s] :
       c.learn \in Nat /\ c.learn <= learns /\ (learning # None => c.learn < learns)

LEMMA LibraryInit == ASSUME GroupsInit PROVE BatchInv /\ LibraryInv
  <1>1. /\ library \in Libraries /\ learning = None /\ learns = 0
        /\ charges = [s \in Slots |->
             IF library[s] = None THEN {}
             ELSE {[learn |-> 0, place |-> 0, stage |-> k] : k \in 1 .. library[s].harmful}]
    BY DEF GroupsInit, LearningInit
  <1>2. ASSUME NEW s \in Slots
        PROVE  /\ IsFiniteSet(charges[s]) /\ \A c \in charges[s] : c.learn = 0
               /\ library[s] # None =>
                    /\ IsLesson(library[s]) /\ Cardinality(DOMAIN library[s].observed) >= 2
                    /\ library[s].harmful <= Cardinality(charges[s])
    <2>1. CASE library[s] = None
      BY <1>1, <2>1, FS_EmptySet
    <2>2. CASE library[s] # None
      <3>1. charges[s] = ChargesAt(0, 0, 1 .. library[s].harmful)
        BY <1>1, <2>2 DEF ChargesAt
      <3>2. IsLesson(library[s]) /\ Cardinality(DOMAIN library[s].observed) >= 2
        BY <1>1, <2>2, LearningAssumption
      <3>3. library[s].harmful \in Nat
        BY <3>2 DEF IsLesson
      <3>4. IsFiniteSet(1 .. library[s].harmful) /\ Cardinality(1 .. library[s].harmful) = library[s].harmful
        <4>1. PICK n \in Nat : n = library[s].harmful
          BY <3>3
        <4>2. IsFiniteSet(1 .. n) /\ Cardinality(1 .. n) = IF 1 > n THEN 0 ELSE n - 1 + 1
          BY FS_Interval
        <4>3. Cardinality(1 .. n) = n
          BY <4>2
        <4> QED  BY <4>1, <4>2, <4>3
      <3>5. IsFiniteSet(charges[s]) /\ Cardinality(charges[s]) = library[s].harmful
        BY <3>1, <3>4, CountAt
      <3>6. \A c \in charges[s] : c.learn = 0
        BY <3>1 DEF ChargesAt
      <3> QED  BY <3>2, <3>3, <3>5, <3>6
    <2> QED  BY <2>1, <2>2
  <1>3. BatchInv
    BY <1>1 DEF BatchInv
  <1>4. learns \in Nat /\ learning = None
    BY <1>1
  <1>5. \A s \in Slots : \A c \in charges[s] : c.learn \in Nat /\ c.learn <= learns
    BY <1>1, <1>2
  <1> QED  BY <1>2, <1>3, <1>4, <1>5 DEF LibraryInv

LEMMA BeginsBatch ==
  ASSUME StagesInv, LibraryInv, NEW ds \in Batches, NEW gate \in Gates, LearnBegins(ds, gate)
  PROVE  BatchInv' /\ LibraryInv'
  <1>1. /\ learning = None /\ learns' = learns + 1 /\ UNCHANGED <<library, charges>>
        /\ \A d \in ToSet(ds) : Loadable(d)
    BY DEF LearnBegins
  <1>2. PICK verdict :
          learning' = [gate |-> gate, out |-> Head(ds),
                       batch |-> [i \in DOMAIN ds |-> Analysis(ds[i], verdict[i])]]
    BY DEF LearnBegins
  <1>3. ds \in Seq(Dirs)
    BY LearningAssumption
  <1>4. DOMAIN ds = 1 .. Len(ds) /\ Len(ds) \in Nat
    BY <1>3, LenProperties
  <1>5. IsFiniteSet(DOMAIN ds)
    BY <1>4, FS_Interval
  <1>6. ASSUME NEW i \in DOMAIN ds, NEW s \in Slots
        PROVE  IsFiniteSet(Analysis(ds[i], verdict[i]).delivered[s])
    <2>1. ds[i] \in Dirs /\ ds[i] \in ToSet(ds)
      BY <1>3, <1>4 DEF ToSet
    <2>2. PICK d \in Dirs : d = ds[i]
      BY <2>1
    <2>3. IsSequence(files[d].trace.stages)
      BY <1>1, <2>1, <2>2 DEF Loadable, StagesInv
    <2>4. PICK S : files[d].trace.stages \in Seq(S)
      BY <2>3 DEF IsSequence
    <2>5. IsFiniteSet(DOMAIN files[d].trace.stages)
      <3>1. /\ DOMAIN files[d].trace.stages = 1 .. Len(files[d].trace.stages)
            /\ Len(files[d].trace.stages) \in Nat
        BY <2>4, LenProperties
      <3> QED  BY <3>1, FS_Interval
    <2>6. Analysis(ds[i], verdict[i]).delivered[s] = Delivered(files[d].trace, s)
      BY <2>2 DEF Analysis
    <2>7. Delivered(files[d].trace, s) \in SUBSET DOMAIN files[d].trace.stages
      BY DEF Delivered
    <2> QED  BY <2>5, <2>6, <2>7, FS_Subset
  <1>7. /\ learning'.gate = gate /\ DOMAIN learning'.batch = DOMAIN ds
        /\ \A i \in DOMAIN ds : learning'.batch[i] = Analysis(ds[i], verdict[i])
    BY <1>2
  <1>8. BatchInv'
    BY <1>5, <1>6, <1>7 DEF BatchInv
  <1>9. LibraryInv'
    BY <1>1 DEF LibraryInv
  <1> QED  BY <1>8, <1>9

LEMMA PromotedRecurs ==
  ASSUME NEW batch, IsFiniteSet(DOMAIN batch), NEW c, NEW gate \in Gates, Promoted(batch, c, gate)
  PROVE  Cardinality(Having(batch, c)) >= 2
  <1>1. /\ Having(batch, c) \in SUBSET DOMAIN batch /\ Clean(batch, c) \in SUBSET DOMAIN batch
    BY DEF Having, Clean
  <1>2. Cardinality(Having(batch, c)) \in Nat /\ Cardinality(Clean(batch, c)) \in Nat
    BY <1>1, FS_Subset, FS_CardinalityType
  <1>3. OneOverAlpha[gate] \in Nat /\ OneOverAlpha[gate] >= 5
    BY LearningAssumption DEF OneOverAlpha
  <1>4. EvidenceExceeds(Cardinality(Having(batch, c)), Cardinality(Clean(batch, c)), OneOverAlpha[gate])
    BY DEF Promoted
  <1> QED  BY <1>2, <1>3, <1>4, EvidenceNeedsTwo

\* The counters of a lesson grow by what the batch delivered, and its charges with them.
LEMMA TimesCounted ==
  ASSUME NEW batch, IsFiniteSet(DOMAIN batch), NEW s \in Slots,
         \A i \in DOMAIN batch : IsFiniteSet(batch[i].delivered[s])
  PROVE  /\ Times(batch, s, HelpfulIn(batch, s)) \in Nat
         /\ Times(batch, s, HarmfulIn(batch, s)) \in Nat
         /\ IsFiniteSet(Charge(batch, s))
         /\ Cardinality(Charge(batch, s)) = Times(batch, s, HarmfulIn(batch, s))
         /\ \A c \in Charge(batch, s) : c.learn = learns
  <1> DEFINE many == [i \in DOMAIN batch |-> Cardinality(batch[i].delivered[s])]
             stagesAt == [i \in DOMAIN batch |-> batch[i].delivered[s]]
             harmful == HarmfulIn(batch, s)
             helpful == HelpfulIn(batch, s)
  <1>1. harmful \in SUBSET DOMAIN batch /\ helpful \in SUBSET DOMAIN batch
    BY DEF HarmfulIn, HelpfulIn
  <1>2. IsFiniteSet(harmful) /\ IsFiniteSet(helpful)
    BY <1>1, FS_Subset
  <1>3. \A i \in DOMAIN batch : /\ many[i] = Cardinality(stagesAt[i]) /\ many[i] \in Nat
                                /\ IsFiniteSet(stagesAt[i]) /\ stagesAt[i] = batch[i].delivered[s]
    BY FS_CardinalityType
  <1>4. /\ Times(batch, s, helpful) = SumFunctionOnSet(many, helpful)
        /\ Times(batch, s, harmful) = SumFunctionOnSet(many, harmful)
    BY DEF Times
  <1>5. Charge(batch, s) = ChargesOf(learns, stagesAt, harmful)
    <2>1. \A i \in harmful : {[learn |-> learns, place |-> i, stage |-> k] : k \in batch[i].delivered[s]}
                               = ChargesAt(learns, i, stagesAt[i])
      BY <1>1, <1>3 DEF ChargesAt
    <2>2. Charge(batch, s) = UNION {{[learn |-> learns, place |-> i, stage |-> k] : k \in batch[i].delivered[s]} :
                                      i \in harmful}
      BY DEF Charge
    <2> HIDE DEF stagesAt, harmful
    <2>3. {{[learn |-> learns, place |-> i, stage |-> k] : k \in batch[i].delivered[s]} : i \in harmful}
            = {ChargesAt(learns, i, stagesAt[i]) : i \in harmful}
      BY <2>1
    <2> QED  BY <2>2, <2>3 DEF ChargesOf
  <1>6. \A c \in Charge(batch, s) : c.learn = learns
    BY DEF Charge
  <1> HIDE DEF many, stagesAt, harmful, helpful
  <1>7. /\ SumFunctionOnSet(many, helpful) \in Nat /\ SumFunctionOnSet(many, harmful) \in Nat
    <2>1. (\A i \in helpful : many[i] \in Nat) /\ (\A i \in harmful : many[i] \in Nat)
      BY <1>1, <1>3
    <2> QED  BY <1>2, <2>1, SumNat
  <1>8. /\ IsFiniteSet(ChargesOf(learns, stagesAt, harmful))
        /\ Cardinality(ChargesOf(learns, stagesAt, harmful)) = SumFunctionOnSet(many, harmful)
    <2>1. (\A i \in harmful : IsFiniteSet(stagesAt[i])) /\ (\A i \in harmful : many[i] = Cardinality(stagesAt[i]))
      BY <1>1, <1>3
    <2> QED  BY <1>2, <2>1, CountOf
  <1> QED  BY <1>4, <1>5, <1>6, <1>7, <1>8 DEF harmful, helpful

LEMMA CreditedRecord ==
  ASSUME NEW v, NEW a \in Nat, NEW b \in Nat, NEW o, NEW helpful \in Nat, NEW harmful \in Nat
  PROVE  Credited([vehicle |-> v, helpful |-> a, harmful |-> b, observed |-> o], helpful, harmful)
           = [vehicle |-> v, helpful |-> a + helpful, harmful |-> b + harmful, observed |-> o]
  <1> DEFINE lesson == [vehicle |-> v, helpful |-> a, harmful |-> b, observed |-> o]
             x == a + helpful
             y == b + harmful
  <1>1. Credited(lesson, helpful, harmful) = [lesson EXCEPT !.helpful = x, !.harmful = y]
    BY DEF Credited
  <1> HIDE DEF x, y
  <1>2. [lesson EXCEPT !.helpful = x, !.harmful = y]
          = [vehicle |-> v, helpful |-> x, harmful |-> y, observed |-> o]
    <2> DEFINE more == [lesson EXCEPT !.helpful = x]
    <2>1. more = [vehicle |-> v, helpful |-> x, harmful |-> b, observed |-> o]
      OBVIOUS
    <2>2. [lesson EXCEPT !.helpful = x, !.harmful = y] = [more EXCEPT !.harmful = y]
      OBVIOUS
    <2> HIDE DEF more
    <2> QED  BY <2>1, <2>2
  <1> QED  BY <1>1, <1>2 DEF x, y

LEMMA CreditedLesson ==
  ASSUME NEW lesson, IsLesson(lesson), NEW helpful \in Nat, NEW harmful \in Nat
  PROVE  LET credited == Credited(lesson, helpful, harmful)
         IN /\ IsLesson(credited) /\ credited.observed = lesson.observed
            /\ credited.harmful = lesson.harmful + harmful
  <1>1. Credited(lesson, helpful, harmful) =
          [vehicle |-> lesson.vehicle, helpful |-> lesson.helpful + helpful,
           harmful |-> lesson.harmful + harmful, observed |-> lesson.observed]
    <2>0. PICK a \in Nat, b \in Nat : \E v, o :
            lesson = [vehicle |-> v, helpful |-> a, harmful |-> b, observed |-> o]
      BY DEF IsLesson
    <2>1. PICK v, o : lesson = [vehicle |-> v, helpful |-> a, harmful |-> b, observed |-> o]
      BY <2>0
    <2>2. Credited([vehicle |-> v, helpful |-> a, harmful |-> b, observed |-> o], helpful, harmful)
            = [vehicle |-> v, helpful |-> a + helpful, harmful |-> b + harmful, observed |-> o]
      BY CreditedRecord
    <2> QED  BY <2>1, <2>2
  <1>2. /\ lesson.vehicle \in Vehicles
        /\ lesson.helpful + helpful \in Nat /\ lesson.harmful + harmful \in Nat
    BY DEF IsLesson
  <1> QED  BY <1>1, <1>2 DEF IsLesson

LEMMA EndsLibrary ==
  ASSUME BatchInv, LibraryInv, LearnEnds PROVE BatchInv' /\ LibraryInv'
  <1> DEFINE batch == learning.batch
             promoted == {c \in Present(batch) : Promoted(batch, c, learning.gate)}
             installed == {<<Place(batch, c), c>> : c \in promoted}
             New(s, vehicle) == [vehicle |-> vehicle[ClassOf(s)], helpful |-> 0, harmful |-> 0,
                                 observed |-> [i \in Having(batch, ClassOf(s)) |-> batch[i].run]]
             Stocked(vehicle) == installPromotedLessons([s \in installed |-> New(s, vehicle)])
             Helped(s) == Times(batch, s, HelpfulIn(batch, s))
             Harmed(s) == Times(batch, s, HarmfulIn(batch, s))
  <1>1. PICK vehicle \in [promoted -> Vehicles] :
          /\ library' = [s \in Slots |-> IF Stocked(vehicle)[s] = None THEN None
                                         ELSE Credited(Stocked(vehicle)[s], Helped(s), Harmed(s))]
          /\ charges' = [s \in Slots |->
               IF Stocked(vehicle)[s] = None THEN {}
               ELSE (IF s \in installed THEN {} ELSE charges[s]) \union Charge(batch, s)]
    BY DEF LearnEnds
  <1> DEFINE stocked == Stocked(vehicle)
  <1>2. learning # None /\ learning' = None /\ learns' = learns
    BY DEF LearnEnds
  <1>3. \A s \in Slots : stocked[s] = IF s \in installed THEN New(s, vehicle) ELSE library[s]
    BY DEF installPromotedLessons
  <1>4. ASSUME NEW s \in installed
        PROVE  LET new == New(s, vehicle)
               IN IsLesson(new) /\ Cardinality(DOMAIN new.observed) >= 2 /\ new.harmful = 0
    <2>1. PICK c \in promoted : s = <<Place(batch, c), c>>
      OBVIOUS
    <2>2. ClassOf(s) = c
      BY <2>1 DEF ClassOf
    <2>3. Cardinality(Having(batch, c)) >= 2
      BY <1>2, PromotedRecurs DEF BatchInv
    <2>4. vehicle[c] \in Vehicles
      OBVIOUS
    <2> QED  BY <2>2, <2>3, <2>4 DEF IsLesson
  <1>5. ASSUME NEW s \in Slots
        PROVE  /\ Helped(s) \in Nat /\ Harmed(s) \in Nat
               /\ IsFiniteSet(Charge(batch, s)) /\ Cardinality(Charge(batch, s)) = Harmed(s)
               /\ \A c \in Charge(batch, s) : c.learn = learns
    BY <1>2, TimesCounted DEF BatchInv
  <1>6. ASSUME NEW s \in Slots
        PROVE  /\ library'[s] = IF stocked[s] = None THEN None
                                ELSE Credited(stocked[s], Helped(s), Harmed(s))
               /\ charges'[s] = IF stocked[s] = None THEN {}
                                ELSE (IF s \in installed THEN {} ELSE charges[s]) \union Charge(batch, s)
    BY <1>1
  <1> HIDE DEF batch, promoted, installed, New, Stocked, Helped, Harmed, stocked
  <1>7. ASSUME NEW s \in Slots
        PROVE  /\ IsFiniteSet(charges'[s])
               /\ \A c \in charges'[s] : c.learn \in Nat /\ c.learn <= learns
               /\ library'[s] # None =>
                    /\ IsLesson(library'[s]) /\ Cardinality(DOMAIN library'[s].observed) >= 2
                    /\ library'[s].harmful <= Cardinality(charges'[s])
    <2>1. CASE stocked[s] = None
      BY <1>6, <2>1, FS_EmptySet
    <2>2. CASE stocked[s] # None
      <3> DEFINE old == IF s \in installed THEN {} ELSE charges[s]
      <3>1. library'[s] = Credited(stocked[s], Helped(s), Harmed(s)) /\ charges'[s] = old \cup Charge(batch, s)
        BY <1>6, <2>2
      <3>2. /\ IsLesson(stocked[s]) /\ Cardinality(DOMAIN stocked[s].observed) >= 2
            /\ IsFiniteSet(old) /\ stocked[s].harmful <= Cardinality(old)
            /\ \A c \in old : c.learn \in Nat /\ c.learn < learns
        <4>1. CASE s \in installed
          BY <1>3, <1>4, <4>1, FS_EmptySet
        <4>2. CASE s \notin installed
          BY <1>2, <1>3, <2>2, <4>2 DEF LibraryInv
        <4> QED  BY <4>1, <4>2
      <3> HIDE DEF old
      <3>3. stocked[s].harmful \in Nat /\ Cardinality(old) \in Nat /\ learns \in Nat
        BY <3>2, FS_CardinalityType DEF IsLesson, LibraryInv
      <3>4. /\ IsLesson(library'[s]) /\ library'[s].observed = stocked[s].observed
            /\ library'[s].harmful = stocked[s].harmful + Harmed(s)
        <4>1. PICK helpful \in Nat, harmful \in Nat :
                helpful = Helped(s) /\ harmful = Harmed(s)
          BY <1>5
        <4>2. PICK lesson : lesson = stocked[s] /\ IsLesson(lesson)
          BY <3>2
        <4>3. LET credited == Credited(lesson, helpful, harmful)
              IN /\ IsLesson(credited) /\ credited.observed = lesson.observed
                 /\ credited.harmful = lesson.harmful + harmful
          BY <4>2, CreditedLesson
        <4> QED  BY <3>1, <4>1, <4>2, <4>3
      <3>5. old \cap Charge(batch, s) = {}
        BY <1>5, <3>2, <3>3
      <3>6. /\ IsFiniteSet(charges'[s])
            /\ Cardinality(charges'[s]) = Cardinality(old) + Harmed(s)
        <4>1. /\ IsFiniteSet(old \cup Charge(batch, s))
              /\ Cardinality(old \cup Charge(batch, s))
                   = Cardinality(old) + Cardinality(Charge(batch, s)) - Cardinality(old \cap Charge(batch, s))
          BY <1>5, <3>2, FS_Union
        <4>2. Cardinality(old \cap Charge(batch, s)) = 0
          BY <3>5, FS_EmptySet
        <4> QED  BY <1>5, <3>1, <3>3, <4>1, <4>2
      <3>7. \A c \in charges'[s] : c.learn \in Nat /\ c.learn <= learns
        BY <1>5, <3>1, <3>2, <3>3
      <3> QED  BY <1>5, <3>2, <3>3, <3>4, <3>6, <3>7
    <2> QED  BY <2>1, <2>2
  <1>8. BatchInv'
    BY <1>2 DEF BatchInv
  <1> QED  BY <1>2, <1>7, <1>8 DEF LibraryInv

LEMMA LibraryStep ==
  ASSUME StagesInv, BatchInv, LibraryInv, [Next]_allVars PROVE BatchInv' /\ LibraryInv'
  <1>1. CASE UNCHANGED learnVars
    BY <1>1 DEF learnVars, BatchInv, LibraryInv
  <1>2. CASE \E ds \in Batches, gate \in Gates : LearnBegins(ds, gate)
    BY <1>2, BeginsBatch
  <1>3. CASE LearnEnds
    BY <1>3, EndsLibrary
  <1>4. CASE LearnAborts
    BY <1>4 DEF LearnAborts, BatchInv, LibraryInv
  <1>5. CASE \E d \in Dirs, status \in {"accepted", "rejected"} : Review(d, status)
    BY <1>5 DEF Review, BatchInv, LibraryInv
  <1>6. UNCHANGED learnVars \/ LoopNext
    BY DEF Next, LoopStep, InsideStep, RulesStep, EvaluationStep, allVars
  <1>7. CASE Step /\ UNCHANGED learnVars
    BY <1>1, <1>7
  <1>8. CASE \E d \in Dirs : \E p \in UNION {Plans[n] : n \in DOMAIN Plans} : RunStarts(d, p)
    BY <1>1, <1>8 DEF RunStarts
  <1> QED  BY <1>1, <1>2, <1>3, <1>4, <1>5, <1>6, <1>7, <1>8 DEF LoopNext

LEMMA LibraryEarned ==
  ASSUME LibraryInv PROVE PromotionNeedsRecurrence /\ DemotionIsEarned
  <1>1. PromotionNeedsRecurrence
    BY DEF LibraryInv, PromotionNeedsRecurrence
  <1>2. ASSUME NEW s \in Slots, library[s] # None, IsDemoted(library[s]) PROVE Cardinality(charges[s]) >= 2
    <2>1. /\ IsLesson(library[s]) /\ library[s].harmful <= Cardinality(charges[s])
          /\ IsFiniteSet(charges[s])
      BY <1>2 DEF LibraryInv
    <2>2. library[s].harmful \in Nat /\ Cardinality(charges[s]) \in Nat
      BY <2>1, FS_CardinalityType DEF IsLesson
    <2> QED  BY <1>2, <2>1, <2>2 DEF IsDemoted
  <1> QED  BY <1>1, <1>2 DEF DemotionIsEarned

-----------------------------------------------------------------------------
(* Learned rules.                                                          *)

LEMMA SeqOfSet ==
  ASSUME NEW S, IsFiniteSet(S)
  PROVE  LET n == Cardinality(S)
         IN /\ n \in Nat /\ SetToSeq(S) \in [1 .. n -> S]
            /\ \A i, j \in 1 .. n : SetToSeq(S)[i] = SetToSeq(S)[j] => i = j
            /\ \A x \in S : \E i \in 1 .. n : SetToSeq(S)[i] = x
  <1> DEFINE n == Cardinality(S)
             f == SetToSeq(S)
  <1>1. n \in Nat /\ ExistsBijection(1 .. n, S)
    BY FS_CardinalityType
  <1>2. \E g \in [1 .. n -> S] : IsInjective(g)
    BY <1>1 DEF ExistsBijection, Bijection, Injection
  <1>3. f \in [1 .. n -> S] /\ IsInjective(f)
    BY <1>2 DEF SetToSeq
  <1> HIDE DEF f
  <1>4. f \in Injection(1 .. n, S)
    BY <1>3 DEF Injection
  <1>5. IsFiniteSet(1 .. n) /\ Cardinality(1 .. n) = n
    <2>1. PICK k \in Nat : k = n
      BY <1>1
    <2>2. IsFiniteSet(1 .. k) /\ Cardinality(1 .. k) = IF 1 > k THEN 0 ELSE k - 1 + 1
      BY FS_Interval
    <2> QED  BY <2>1, <2>2
  <1>6. f \in Surjection(1 .. n, S)
    BY <1>4, <1>5, FS_Injection
  <1>7. \A x \in S : \E i \in 1 .. n : f[i] = x
    BY <1>6 DEF Surjection
  <1>8. \A i, j \in 1 .. n : f[i] = f[j] => i = j
    BY <1>3 DEF IsInjective
  <1> QED  BY <1>1, <1>3, <1>7, <1>8 DEF f

LEMMA MaxIs ==
  ASSUME NEW S \in SUBSET Nat, NEW m \in S, \A x \in S : x <= m
  PROVE  Max(S) = m
  <1> DEFINE Top(x) == x \in S /\ \A y \in S : x >= y
  <1>1. Top(m)
    OBVIOUS
  <1>2. \A x : Top(x) => x = m
    <2> SUFFICES ASSUME NEW x, Top(x) PROVE x = m
      OBVIOUS
    <2>1. x \in Nat /\ m \in Nat /\ x >= m /\ x <= m
      OBVIOUS
    <2> QED  BY <2>1
  <1>3. Max(S) = CHOOSE x : Top(x)
    BY DEF Max
  <1> HIDE DEF Top
  <1>4. Top(CHOOSE x : Top(x))
    BY <1>1
  <1> QED  BY <1>2, <1>3, <1>4

LEMMA MaxOfSome ==
  ASSUME NEW n \in Nat, NEW S \in SUBSET (1 .. n), S # {}
  PROVE  Max(S) \in S
  <1> DEFINE B == {k \in Nat : n - k \in S}
  <1>1. B # {}
    <2>1. PICK x \in S : TRUE
      OBVIOUS
    <2>2. n - x \in Nat /\ n - (n - x) = x
      BY <2>1
    <2> QED  BY <2>1, <2>2
  <1>2. PICK k \in B : \A j \in B : k <= j
    BY <1>1, LeastOfSome
  <1>3. n - k \in S /\ k \in Nat
    BY <1>2
  <1>4. ASSUME NEW x \in S PROVE x <= n - k
    <2>1. x \in 1 .. n
      OBVIOUS
    <2>2. n - x \in Nat /\ n - (n - x) = x
      BY <2>1
    <2>3. k <= n - x
      BY <1>2, <2>2
    <2> QED  BY <1>3, <2>1, <2>3
  <1>5. S \in SUBSET Nat
    OBVIOUS
  <1> QED  BY <1>3, <1>4, <1>5, MaxIs

LEMMA Grown ==
  ASSUME NEW T, NEW s \in Seq(T), NEW e
  PROVE  /\ DOMAIN Append(s, e) = (DOMAIN s) \cup {Len(s) + 1} /\ Append(s, e)[Len(s) + 1] = e
         /\ Len(s) + 1 \notin DOMAIN s
         /\ \A i \in DOMAIN s : Append(s, e)[i] = s[i]
         /\ e \in T => Append(s, e) \in Seq(T)
  <1>1. Len(s) \in Nat /\ DOMAIN s = 1 .. Len(s) /\ s \in [1 .. Len(s) -> T]
    BY LenProperties
  <1>2. s \in Seq(T \cup {e})
    <2>1. s \in [1 .. Len(s) -> T \cup {e}]
      BY <1>1
    <2> QED  BY <1>1, <2>1, SeqDef
  <1>3. /\ Append(s, e) \in Seq(T \cup {e}) /\ Len(Append(s, e)) = Len(s) + 1
        /\ Append(s, e)[Len(s) + 1] = e
        /\ \A i \in 1 .. Len(s) : Append(s, e)[i] = s[i]
    BY <1>2, AppendProperties
  <1>4. DOMAIN Append(s, e) = 1 .. Len(s) + 1
    BY <1>3, LenProperties
  <1>5. e \in T => Append(s, e) \in Seq(T)
    BY AppendProperties
  <1>6. 1 .. Len(s) + 1 = (1 .. Len(s)) \cup {Len(s) + 1}
    BY <1>1
  <1> QED  BY <1>1, <1>3, <1>4, <1>5, <1>6

\* The log replays to the row of each rule; an application that a delta marks is open no more.
RulesInv ==
  /\ rule \in [Rules -> [status : RuleStatuses \cup {"none"}, helpful : Nat, harmful : Nat]]
  /\ IsSequence(ruleLog)
  /\ IsFiniteSet(DOMAIN applications)
  /\ \A i \in DOMAIN ruleLog : \A a \in ruleLog[i].application :
       a \in DOMAIN applications /\ applications[a] # "pending"
  /\ RulesReplay

LEMMA RulesInvInit == ASSUME GroupsInit PROVE RulesInv
  <1>1. rule = [r \in Rules |-> NoRule] /\ ruleLog = <<>> /\ applications = <<>>
    BY DEF GroupsInit, RulesInit
  <1>2. DOMAIN ruleLog = {} /\ DOMAIN applications = {} /\ IsSequence(ruleLog)
    <2>1. DOMAIN <<>> = {}
      OBVIOUS
    <2> QED  BY <1>1, <2>1, SequenceOfTwo
  <1>3. \A r \in Rules : \A types : DeltasOf(r, types) = {}
    BY <1>2 DEF DeltasOf
  <1>4. RulesReplay
    BY <1>1, <1>2, <1>3, FS_EmptySet DEF RulesReplay, NoRule
  <1>5. rule \in [Rules -> [status : RuleStatuses \cup {"none"}, helpful : Nat, harmful : Nat]]
    BY <1>1 DEF NoRule
  <1> QED  BY <1>2, <1>4, <1>5, FS_EmptySet DEF RulesInv

\* A delta that sets the status of a rule.
LEMMA StatusReplays ==
  ASSUME RulesInv, NEW r \in Rules, NEW status \in RuleStatuses,
         rule' = [rule EXCEPT ![r].status = status],
         ruleLog' = Append(ruleLog, Delta(r, status, {})),
         UNCHANGED applications
  PROVE  RulesInv'
  <1> DEFINE n == Len(ruleLog)
  <1>1. PICK S : ruleLog \in Seq(S)
    BY DEF RulesInv, IsSequence
  <1>2. n \in Nat /\ DOMAIN ruleLog = 1 .. n
    BY <1>1, LenProperties
  <1>3. /\ DOMAIN ruleLog' = 1 .. n + 1 /\ ruleLog'[n + 1] = Delta(r, status, {})
        /\ \A i \in 1 .. n : ruleLog'[i] = ruleLog[i]
    BY <1>1, <1>2, Grown
  <1>4. IsSequence(ruleLog')
    BY SequenceGrows DEF RulesInv
  <1> HIDE DEF n
  <1>5. rule \in [Rules -> [status : RuleStatuses \cup {"none"}, helpful : Nat, harmful : Nat]]
    BY DEF RulesInv
  <1>6. rule' \in [Rules -> [status : RuleStatuses \cup {"none"}, helpful : Nat, harmful : Nat]]
    BY <1>5
  <1>7. \A i \in DOMAIN ruleLog' : ruleLog'[i].application = IF i = n + 1 THEN {} ELSE ruleLog[i].application
    BY <1>2, <1>3 DEF Delta
  <1>8. ASSUME NEW i \in DOMAIN ruleLog', NEW a \in ruleLog'[i].application
        PROVE  a \in DOMAIN applications' /\ applications'[a] # "pending"
    BY <1>2, <1>3, <1>7, <1>8 DEF RulesInv
  <1>9. ASSUME NEW i \in DOMAIN ruleLog', NEW j \in DOMAIN ruleLog', i # j
        PROVE  ruleLog'[i].application \cap ruleLog'[j].application = {}
    <2>1. CASE i # n + 1 /\ j # n + 1
      <3>1. i \in DOMAIN ruleLog /\ j \in DOMAIN ruleLog
        BY <1>2, <1>3, <2>1
      <3> QED  BY <1>7, <1>9, <2>1, <3>1 DEF RulesInv, RulesReplay
    <2>2. CASE i = n + 1 \/ j = n + 1
      BY <1>7, <2>2
    <2> QED  BY <2>1, <2>2
  <1>10. ASSUME NEW q \in Rules, NEW types
         PROVE  DeltasOf(q, types)' = IF q = r /\ status \in types THEN DeltasOf(q, types) \cup {n + 1}
                                      ELSE DeltasOf(q, types)
    BY <1>2, <1>3 DEF DeltasOf, Delta
  <1>11. ASSUME NEW q \in Rules
         PROVE  /\ rule'[q].helpful = Cardinality(DeltasOf(q, {"helpful"}))'
                /\ rule'[q].harmful = Cardinality(DeltasOf(q, {"harmful"}))'
                /\ rule'[q].status = IF DeltasOf(q, RuleStatuses)' = {} THEN "none"
                                     ELSE ruleLog'[Max(DeltasOf(q, RuleStatuses)')].type
    <2>1. rule'[q].helpful = rule[q].helpful /\ rule'[q].harmful = rule[q].harmful
      BY <1>5
    <2>2. rule'[q].status = IF q = r THEN status ELSE rule[q].status
      BY <1>5
    <2>3. status \notin {"helpful"} /\ status \notin {"harmful"}
      BY DEF RuleStatuses
    <2>4. /\ DeltasOf(q, {"helpful"})' = DeltasOf(q, {"helpful"})
          /\ DeltasOf(q, {"harmful"})' = DeltasOf(q, {"harmful"})
      BY <1>10, <2>3
    <2>5. DeltasOf(q, RuleStatuses) \in SUBSET (1 .. n)
      BY <1>2 DEF DeltasOf
    <2>6. CASE q = r
      <3>1. DeltasOf(q, RuleStatuses)' = DeltasOf(q, RuleStatuses) \cup {n + 1}
        BY <1>10, <2>6
      <3>2. Max(DeltasOf(q, RuleStatuses) \cup {n + 1}) = n + 1
        <4>1. /\ DeltasOf(q, RuleStatuses) \cup {n + 1} \in SUBSET Nat
              /\ n + 1 \in DeltasOf(q, RuleStatuses) \cup {n + 1}
              /\ \A x \in DeltasOf(q, RuleStatuses) \cup {n + 1} : x <= n + 1
          BY <1>2, <2>5
        <4> QED  BY <4>1, MaxIs
      <3>3. ruleLog'[n + 1].type = status
        <4>1. Delta(r, status, {}).type = status
          BY DEF Delta
        <4> QED  BY <1>3, <4>1
      <3>4. DeltasOf(q, RuleStatuses)' # {}
        BY <3>1
      <3> QED  BY <2>1, <2>2, <2>4, <2>6, <3>1, <3>2, <3>3, <3>4 DEF RulesInv, RulesReplay
    <2>7. CASE q # r
      <3>1. DeltasOf(q, RuleStatuses)' = DeltasOf(q, RuleStatuses)
        BY <1>10, <2>7
      <3>2. DeltasOf(q, RuleStatuses) # {} => Max(DeltasOf(q, RuleStatuses)) \in 1 .. n
        BY <1>2, <2>5, MaxOfSome
      <3>3. DeltasOf(q, RuleStatuses) # {} =>
              ruleLog'[Max(DeltasOf(q, RuleStatuses))] = ruleLog[Max(DeltasOf(q, RuleStatuses))]
        BY <1>3, <3>2
      <3> QED  BY <2>1, <2>2, <2>4, <2>7, <3>1, <3>3 DEF RulesInv, RulesReplay
    <2> QED  BY <2>6, <2>7
  <1>12. RulesReplay'
    BY <1>9, <1>11 DEF RulesReplay
  <1> QED  BY <1>4, <1>6, <1>8, <1>12 DEF RulesInv

\* Deltas that count a run's open applications.
LEMMA MarksReplay ==
  ASSUME RulesInv, NEW x, NEW outcome \in Outcomes, RecordRuleOutcome(x, outcome)
  PROVE  RulesInv'
  <1> DEFINE counted == Uncounted(x)
             marks == SetToSeq(counted)
             m == Cardinality(counted)
             n == Len(ruleLog)
             more == [i \in DOMAIN marks |-> Delta(marks[i].rule, outcome, {marks[i]})]
             New(r) == {i \in 1 .. m : marks[i].rule = r}
             Later(r) == {n + i : i \in New(r)}
  <1>1. PICK S : ruleLog \in Seq(S)
    BY DEF RulesInv, IsSequence
  <1>2. n \in Nat /\ DOMAIN ruleLog = 1 .. n /\ ruleLog \in [1 .. n -> S]
    BY <1>1, LenProperties
  <1>3. /\ IsFiniteSet(DOMAIN applications) /\ counted \in SUBSET DOMAIN applications
        /\ \A a \in counted : applications[a] = "pending"
    BY DEF RulesInv, Uncounted
  <1>4. IsFiniteSet(counted)
    BY <1>3, FS_Subset
  <1>5. /\ m \in Nat /\ marks \in [1 .. m -> counted] /\ DOMAIN marks = 1 .. m
        /\ \A i, j \in 1 .. m : marks[i] = marks[j] => i = j
        /\ \A a \in counted : \E i \in 1 .. m : marks[i] = a
    BY <1>4, SeqOfSet
  <1>6. /\ rule' = [r \in Rules |->
              [rule[r] EXCEPT !.helpful = @ + (IF outcome = "helpful" THEN TimesApplied(r, counted) ELSE 0),
                              !.harmful = @ + (IF outcome = "harmful" THEN TimesApplied(r, counted) ELSE 0)]]
        /\ applications' = [a \in DOMAIN applications |-> IF a \in counted THEN outcome ELSE applications[a]]
        /\ ruleLog' = ruleLog \o more
    BY DEF RecordRuleOutcome
  <1> HIDE DEF counted, marks, m
  <1>7. more \in [1 .. m -> {more[i] : i \in 1 .. m}] /\ DOMAIN more = 1 .. m
    BY <1>5
  <1>8. \A i \in 1 .. m : /\ more[i].rule = marks[i].rule /\ more[i].type = outcome
                          /\ more[i].application = {marks[i]}
    <2> SUFFICES ASSUME NEW i \in 1 .. m
                 PROVE  /\ more[i].rule = marks[i].rule /\ more[i].type = outcome
                        /\ more[i].application = {marks[i]}
      OBVIOUS
    <2>1. more[i] = Delta(marks[i].rule, outcome, {marks[i]})
      BY <1>5
    <2> HIDE DEF more
    <2> QED  BY <2>1 DEF Delta
  <1> HIDE DEF more
  <1>9. /\ IsSequence(ruleLog') /\ DOMAIN ruleLog' = 1 .. n + m
        /\ \A i \in 1 .. n : ruleLog'[i] = ruleLog[i]
        /\ \A i \in 1 .. m : ruleLog'[n + i] = more[i]
    <2> DEFINE T == S \cup {more[i] : i \in 1 .. m}
    <2>1. ruleLog \in [1 .. n -> T] /\ more \in [1 .. m -> T]
      BY <1>2, <1>7
    <2> HIDE DEF T
    <2>2. ruleLog \in Seq(T) /\ more \in Seq(T)
      BY <1>2, <1>5, <2>1, SeqDef
    <2>3. Len(more) = m
      BY <1>5, <1>7, <2>2, LenProperties
    <2>4. /\ ruleLog \o more \in Seq(T) /\ Len(ruleLog \o more) = n + m
          /\ \A i \in 1 .. n + m : (ruleLog \o more)[i] = IF i <= n THEN ruleLog[i] ELSE more[i - n]
      BY <1>2, <1>5, <2>2, <2>3, ConcatProperties
    <2>5. IsSequence(ruleLog') /\ DOMAIN ruleLog' = 1 .. n + m
      BY <1>6, <2>4, LenProperties DEF IsSequence
    <2>6. ASSUME NEW i \in 1 .. n PROVE ruleLog'[i] = ruleLog[i]
      <3>1. i \in 1 .. n + m /\ i <= n
        BY <1>2, <1>5
      <3> QED  BY <1>6, <2>4, <3>1
    <2>7. ASSUME NEW i \in 1 .. m PROVE ruleLog'[n + i] = more[i]
      <3>1. n + i \in 1 .. n + m /\ ~(n + i <= n) /\ (n + i) - n = i
        BY <1>2, <1>5
      <3> QED  BY <1>6, <2>4, <3>1
    <2> QED  BY <2>5, <2>6, <2>7
  <1> HIDE DEF n
  <1>10. \A k \in DOMAIN ruleLog' : k \in 1 .. n \/ \E i \in 1 .. m : k = n + i
    <2> SUFFICES ASSUME NEW k \in 1 .. n + m, k \notin 1 .. n PROVE \E i \in 1 .. m : k = n + i
      BY <1>9
    <2>1. k - n \in 1 .. m /\ k = n + (k - n)
      BY <1>2, <1>5
    <2> QED  BY <2>1
  <1>11. \A i \in 1 .. m : n + i \in DOMAIN ruleLog' /\ n + i \notin 1 .. n
    BY <1>2, <1>5, <1>9
  <1>12. rule \in [Rules -> [status : RuleStatuses \cup {"none"}, helpful : Nat, harmful : Nat]]
    BY DEF RulesInv
  <1>13. ASSUME NEW r \in Rules
         PROVE  /\ TimesApplied(r, counted) \in Nat /\ IsFiniteSet(Later(r))
                /\ TimesApplied(r, counted) = Cardinality(Later(r))
    <2> DEFINE f == [i \in New(r) |-> marks[i]]
               g == [i \in New(r) |-> n + i]
    <2>1. New(r) \in SUBSET (1 .. m)
      OBVIOUS
    <2>2. IsFiniteSet(New(r))
      <3>1. IsFiniteSet(1 .. m)
        BY <1>5, FS_Interval
      <3> QED  BY <2>1, <3>1, FS_Subset
    <2>3. DOMAIN f = New(r) /\ \A i, j \in New(r) : f[i] = f[j] => i = j
      BY <1>5, <2>1
    <2>4. DOMAIN g = New(r) /\ \A i, j \in New(r) : g[i] = g[j] => i = j
      BY <1>2, <1>5, <2>1
    <2>5. {f[i] : i \in New(r)} = {a \in counted : a.rule = r}
      <3>1. \A i \in New(r) : f[i] = marks[i] /\ marks[i] \in counted /\ marks[i].rule = r
        BY <1>5
      <3>2. \A a \in counted : a.rule = r => \E i \in New(r) : marks[i] = a
        BY <1>5
      <3> HIDE DEF f, New
      <3>3. \A a \in counted : a.rule = r => a \in {f[i] : i \in New(r)}
        BY <3>1, <3>2
      <3> QED  BY <3>1, <3>3
    <2>6. {g[i] : i \in New(r)} = Later(r)
      OBVIOUS
    <2> HIDE DEF f, g, New
    <2>7. Cardinality({f[i] : i \in New(r)}) = Cardinality(New(r))
      BY <2>2, <2>3, OneToOne
    <2>8. IsFiniteSet({g[i] : i \in New(r)}) /\ Cardinality({g[i] : i \in New(r)}) = Cardinality(New(r))
      BY <2>2, <2>4, OneToOne
    <2>9. TimesApplied(r, counted) = Cardinality(New(r))
      BY <2>5, <2>7 DEF TimesApplied
    <2> QED  BY <2>2, <2>6, <2>8, <2>9, FS_CardinalityType
  <1>14. ASSUME NEW r \in Rules, NEW types
         PROVE  DeltasOf(r, types)' = DeltasOf(r, types) \cup (IF outcome \in types THEN Later(r) ELSE {})
    <2>1. DeltasOf(r, types)' = {k \in DOMAIN ruleLog' : ruleLog'[k].rule = r /\ ruleLog'[k].type \in types}
      BY DEF DeltasOf
    <2>2. \A k \in 1 .. n : k \in DeltasOf(r, types)' <=> k \in DeltasOf(r, types)
      <3>1. \A k \in 1 .. n : k \in DOMAIN ruleLog'
        BY <1>2, <1>5, <1>9
      <3> QED  BY <1>2, <1>9, <2>1, <3>1 DEF DeltasOf
    <2>3. \A i \in 1 .. m : n + i \in DeltasOf(r, types)' <=> i \in New(r) /\ outcome \in types
      BY <1>8, <1>9, <1>11, <2>1
    <2>4. \A k \in Later(r) : \E i \in 1 .. m : k = n + i /\ i \in New(r)
      OBVIOUS
    <2>5. DeltasOf(r, types) \in SUBSET (1 .. n)
      BY <1>2 DEF DeltasOf
    <2>6. \A k : k \in DeltasOf(r, types)' => k \in DOMAIN ruleLog'
      BY <2>1
    <2> QED  BY <1>10, <2>2, <2>3, <2>4, <2>5, <2>6
  <1>15. ASSUME NEW r \in Rules
         PROVE  /\ DeltasOf(r, {"helpful"}) \cap Later(r) = {}
                /\ DeltasOf(r, {"harmful"}) \cap Later(r) = {}
    <2>1. \A types : DeltasOf(r, types) \in SUBSET (1 .. n)
      BY <1>2 DEF DeltasOf
    <2>2. \A k \in Later(r) : k \notin 1 .. n
      BY <1>11
    <2> QED  BY <2>1, <2>2
  <1> HIDE DEF New, Later
  <1>16. ASSUME NEW r \in Rules, NEW type \in {"helpful", "harmful"}
         PROVE  Cardinality(DeltasOf(r, {type}))' =
                  Cardinality(DeltasOf(r, {type})) + (IF outcome = type THEN TimesApplied(r, counted) ELSE 0)
    <2>1. IsFiniteSet(DeltasOf(r, {type}))
      <3>1. IsFiniteSet(1 .. n)
        BY <1>2, FS_Interval
      <3>2. DeltasOf(r, {type}) \in SUBSET (1 .. n)
        BY <1>2 DEF DeltasOf
      <3> QED  BY <3>1, <3>2, FS_Subset
    <2>2. PICK c \in Nat : c = Cardinality(DeltasOf(r, {type}))
      BY <2>1, FS_CardinalityType
    <2>3. PICK t \in Nat : t = TimesApplied(r, counted) /\ t = Cardinality(Later(r)) /\ IsFiniteSet(Later(r))
      BY <1>13
    <2>4. CASE outcome = type
      <3>1. DeltasOf(r, {type})' = DeltasOf(r, {type}) \cup Later(r)
        BY <1>14, <2>4
      <3>2. Cardinality(DeltasOf(r, {type}) \cap Later(r)) = 0
        BY <1>15, FS_EmptySet
      <3>3. Cardinality(DeltasOf(r, {type}) \cup Later(r)) =
              Cardinality(DeltasOf(r, {type})) + Cardinality(Later(r)) - Cardinality(DeltasOf(r, {type}) \cap Later(r))
        BY <2>1, <2>3, FS_Union
      <3>4. Cardinality(DeltasOf(r, {type}) \cup Later(r)) = c + t
        BY <2>2, <2>3, <3>2, <3>3
      <3> QED  BY <2>2, <2>3, <2>4, <3>1, <3>4
    <2>5. CASE outcome # type
      <3>1. DeltasOf(r, {type})' = DeltasOf(r, {type})
        <4>1. outcome \notin {type}
          BY <2>5
        <4>2. DeltasOf(r, {type})' = DeltasOf(r, {type}) \cup {}
          BY <1>14, <4>1
        <4> QED  BY <4>2
      <3> QED  BY <2>2, <2>5, <3>1
    <2> QED  BY <2>4, <2>5
  <1>17. ASSUME NEW r \in Rules
         PROVE  /\ rule'[r].status = rule[r].status
                /\ rule'[r].helpful = rule[r].helpful + (IF outcome = "helpful" THEN TimesApplied(r, counted) ELSE 0)
                /\ rule'[r].harmful = rule[r].harmful + (IF outcome = "harmful" THEN TimesApplied(r, counted) ELSE 0)
                /\ rule'[r] \in [status : RuleStatuses \cup {"none"}, helpful : Nat, harmful : Nat]
    <2> DEFINE h == rule[r].helpful + (IF outcome = "helpful" THEN TimesApplied(r, counted) ELSE 0)
               k == rule[r].harmful + (IF outcome = "harmful" THEN TimesApplied(r, counted) ELSE 0)
               more1 == [rule[r] EXCEPT !.helpful = h]
    <2>1. rule[r] \in [status : RuleStatuses \cup {"none"}, helpful : Nat, harmful : Nat]
      BY <1>12
    <2>2. h \in Nat /\ k \in Nat
      BY <1>13, <2>1
    <2>3. rule'[r] = [rule[r] EXCEPT !.helpful = h, !.harmful = k]
      BY <1>6
    <2> HIDE DEF h, k
    <2>4. /\ more1 \in [status : RuleStatuses \cup {"none"}, helpful : Nat, harmful : Nat]
          /\ more1.status = rule[r].status /\ more1.helpful = h
      BY <2>1, <2>2
    <2>5. rule'[r] = [more1 EXCEPT !.harmful = k]
      BY <2>3
    <2> HIDE DEF more1
    <2>6. /\ rule'[r] \in [status : RuleStatuses \cup {"none"}, helpful : Nat, harmful : Nat]
          /\ rule'[r].status = rule[r].status /\ rule'[r].helpful = h /\ rule'[r].harmful = k
      BY <2>2, <2>4, <2>5
    <2> QED  BY <2>6 DEF h, k
  <1>18. rule' \in [Rules -> [status : RuleStatuses \cup {"none"}, helpful : Nat, harmful : Nat]]
    <2>1. rule' = [r \in Rules |-> rule'[r]]
      BY <1>6
    <2> QED  BY <1>17, <2>1
  <1>19. ASSUME NEW r \in Rules
         PROVE  rule'[r].status = IF DeltasOf(r, RuleStatuses)' = {} THEN "none"
                                  ELSE ruleLog'[Max(DeltasOf(r, RuleStatuses)')].type
    <2>1. DeltasOf(r, RuleStatuses)' = DeltasOf(r, RuleStatuses)
      <3>1. outcome \notin RuleStatuses
        BY DEF Outcomes, RuleStatuses
      <3> QED  BY <1>14, <3>1
    <2>2. DeltasOf(r, RuleStatuses) \in SUBSET (1 .. n)
      BY <1>2 DEF DeltasOf
    <2>3. DeltasOf(r, RuleStatuses) # {} => Max(DeltasOf(r, RuleStatuses)) \in 1 .. n
      BY <1>2, <2>2, MaxOfSome
    <2>4. DeltasOf(r, RuleStatuses) # {} =>
            ruleLog'[Max(DeltasOf(r, RuleStatuses))] = ruleLog[Max(DeltasOf(r, RuleStatuses))]
      BY <1>9, <2>3
    <2> QED  BY <1>17, <2>1, <2>4 DEF RulesInv, RulesReplay
  <1>20. ASSUME NEW r \in Rules
         PROVE  /\ rule'[r].helpful = Cardinality(DeltasOf(r, {"helpful"}))'
                /\ rule'[r].harmful = Cardinality(DeltasOf(r, {"harmful"}))'
    BY <1>16, <1>17 DEF RulesInv, RulesReplay
  <1>21. /\ \A k \in 1 .. n : ruleLog'[k].application = ruleLog[k].application
         /\ \A i \in 1 .. m : ruleLog'[n + i].application = {marks[i]} /\ marks[i] \in counted
    BY <1>5, <1>8, <1>9
  <1>22. \A k \in 1 .. n : ruleLog[k].application \cap counted = {}
    BY <1>2, <1>3 DEF RulesInv
  <1>23. ASSUME NEW k \in DOMAIN ruleLog', NEW l \in DOMAIN ruleLog', k # l
         PROVE  ruleLog'[k].application \cap ruleLog'[l].application = {}
    <2>1. CASE k \in 1 .. n /\ l \in 1 .. n
      BY <1>2, <1>21, <1>23, <2>1 DEF RulesInv, RulesReplay
    <2>2. ASSUME NEW i \in 1 .. m, k = n + i, l \in 1 .. n
          PROVE  ruleLog'[k].application \cap ruleLog'[l].application = {}
      BY <1>21, <1>22, <2>2
    <2>3. ASSUME NEW i \in 1 .. m, l = n + i, k \in 1 .. n
          PROVE  ruleLog'[k].application \cap ruleLog'[l].application = {}
      BY <1>21, <1>22, <2>3
    <2>4. ASSUME NEW i \in 1 .. m, NEW j \in 1 .. m, k = n + i, l = n + j
          PROVE  ruleLog'[k].application \cap ruleLog'[l].application = {}
      <3>1. i # j
        BY <1>23, <2>4
      <3>2. marks[i] # marks[j]
        BY <1>5, <3>1
      <3> QED  BY <1>21, <2>4, <3>2
    <2> QED  BY <1>10, <2>1, <2>2, <2>3, <2>4
  <1>24. ASSUME NEW k \in DOMAIN ruleLog', NEW a \in ruleLog'[k].application
         PROVE  a \in DOMAIN applications' /\ applications'[a] # "pending"
    <2>1. /\ DOMAIN applications' = DOMAIN applications
          /\ \A b \in DOMAIN applications : applications'[b] = IF b \in counted THEN outcome ELSE applications[b]
      BY <1>6
    <2>2. outcome # "pending"
      BY DEF Outcomes
    <2>3. CASE k \in 1 .. n
      <3>1. a \in ruleLog[k].application /\ k \in DOMAIN ruleLog
        BY <1>2, <1>21, <1>24, <2>3
      <3>2. a \in DOMAIN applications /\ applications[a] # "pending"
        BY <3>1 DEF RulesInv
      <3> QED  BY <2>1, <2>2, <3>2
    <2>4. ASSUME NEW i \in 1 .. m, k = n + i PROVE a \in DOMAIN applications' /\ applications'[a] # "pending"
      <3>1. a = marks[i] /\ a \in counted
        BY <1>21, <1>24, <2>4
      <3> QED  BY <1>3, <2>1, <2>2, <3>1
    <2> QED  BY <1>10, <2>3, <2>4
  <1>25. IsFiniteSet(DOMAIN applications')
    BY <1>3, <1>6
  <1>26. RulesReplay'
    BY <1>19, <1>20, <1>23 DEF RulesReplay
  <1> QED  BY <1>9, <1>18, <1>24, <1>25, <1>26 DEF RulesInv

\* What a step of the learning program is to the rules.
LEMMA RulesSteps ==
  ASSUME [Next]_allVars
  PROVE  \/ UNCHANGED <<rule, ruleLog, applications>>
         \/ \E r \in Rules, status \in RuleStatuses : CreateRule(r, status) \/ SetRuleStatus(r, status)
         \/ \E r \in Rules : ApplyRule(r)
         \/ \E x : \E outcome \in Outcomes : RecordRuleOutcome(x, outcome)
  <1>1. CASE UNCHANGED ruleVars
    BY <1>1 DEF ruleVars
  <1>2. CASE RulesNext
    BY <1>2 DEF RulesNext, ReadActiveRules, StopApplying
  <1>3. CASE EvalNext
    <2>1. ASSUME NEW task \in EvalTasks, NEW baseline \in Baselines, StartEpisode(task, baseline)
          PROVE  UNCHANGED <<rule, ruleLog, applications>>
      BY <2>1 DEF StartEpisode, ReadActiveRules, ruleVars
    <2>2. CASE ApplyGate
      BY <2>2 DEF ApplyGate
    <2>3. CASE \E success \in BOOLEAN : FinishEpisode(success)
      BY <2>3 DEF FinishEpisode, ruleVars
    <2>4. CASE LoseEpisode
      BY <2>4 DEF LoseEpisode, StopApplying, ruleVars
    <2>5. CASE \E i \in DOMAIN episodes, mark \in {"false_gate", "regression"} : MarkRow(i, mark)
      BY <2>5 DEF MarkRow, ruleVars
    <2>6. CASE ChangeRules
      <3>1. "active" \in RuleStatuses /\ "retired" \in RuleStatuses /\ "helpful" \in Outcomes
        BY DEF RuleStatuses, Outcomes
      <3> QED  BY <2>6, <3>1 DEF ChangeRules
    <2> QED  BY <1>3, <2>1, <2>2, <2>3, <2>4, <2>5, <2>6 DEF EvalNext
  <1> QED  BY <1>1, <1>2, <1>3 DEF Next, LoopStep, InsideStep, RulesStep, EvaluationStep, allVars

LEMMA RulesInvStep ==
  ASSUME RulesInv, [Next]_allVars PROVE RulesInv'
  <1>1. CASE UNCHANGED <<rule, ruleLog, applications>>
    BY <1>1 DEF RulesInv, RulesReplay, DeltasOf
  <1>2. ASSUME NEW r \in Rules, NEW status \in RuleStatuses, CreateRule(r, status) \/ SetRuleStatus(r, status)
        PROVE  RulesInv'
    BY <1>2, StatusReplays DEF CreateRule, SetRuleStatus
  <1>3. ASSUME NEW r \in Rules, ApplyRule(r) PROVE RulesInv'
    <2>1. PICK a : applications' = OpenApplication(a)
      BY <1>3 DEF ApplyRule
    <2>2. UNCHANGED <<rule, ruleLog>>
      BY <1>3 DEF ApplyRule
    <2>3. /\ DOMAIN applications' = DOMAIN applications \cup {a}
          /\ \A b \in DOMAIN applications : applications'[b] = applications[b]
      BY <2>1 DEF OpenApplication
    <2>4. IsFiniteSet(DOMAIN applications')
      BY <2>3, FS_AddElement DEF RulesInv
    <2>5. RulesReplay'
      <3>1. RulesReplay
        BY DEF RulesInv
      <3> QED  BY <2>2, <3>1 DEF RulesReplay, DeltasOf
    <2> QED  BY <2>2, <2>3, <2>4, <2>5 DEF RulesInv
  <1>4. ASSUME NEW x, NEW outcome \in Outcomes, RecordRuleOutcome(x, outcome) PROVE RulesInv'
    BY <1>4, MarksReplay
  <1> QED  BY <1>1, <1>2, <1>3, <1>4, RulesSteps

-----------------------------------------------------------------------------
(* The evaluation of rules.                                                *)

EpisodeRow == [id : Nat, task : EvalTasks, baseline : Baselines, gates : SUBSET Rules,
               success : BOOLEAN, mark : {"none", "false_gate", "regression"}]

AppliedTo(x) == {a.rule : a \in {c \in DOMAIN applications : c.run = x}}

\* Episodes are numbered; what was applied in one, and what it is still to apply, are its gates.
EpisodeInv ==
  /\ started \in Nat
  /\ applying = [rules |-> applying.rules, run |-> applying.run, trigger |-> applying.trigger]
  /\ \A a \in DOMAIN applications : a.run \in Nat /\ a.run <= started
  /\ \A i \in DOMAIN episodes :
       /\ AppliedTo(episodes[i].id) = episodes[i].gates
       /\ episodes[i].id \in Nat /\ episodes[i].id <= started
       /\ episode # NoEpisode => episodes[i].id < started
       /\ episodes[i].gates # {} => episodes[i].baseline = "B4"
  /\ episode = NoEpisode => applying.rules = {}
  /\ episode # NoEpisode =>
       /\ episode \in Episode /\ episode.id = started
       /\ AppliedTo(episode.id) \cup applying.rules = episode.gates
       /\ applying.rules # {} => applying.run = episode.id
       /\ episode.gates # {} => episode.baseline = "B4"

EvalInv ==
  /\ episodes \in Seq(EpisodeRow)
  /\ IF active = "rules" THEN episodes = <<>> ELSE EpisodeInv

LEMMA EvalInvInit == ASSUME GroupsInit PROVE EvalInv
  <1>1. started = 0 /\ episode = NoEpisode /\ episodes = <<>> /\ applications = <<>> /\ applying = NotApplying
    BY DEF GroupsInit, EvalInit, RulesInit
  <1>2. DOMAIN <<>> = {} /\ <<>> \in Seq(EpisodeRow)
    OBVIOUS
  <1>3. EpisodeInv
    BY <1>1, <1>2 DEF EpisodeInv, NotApplying
  <1> QED  BY <1>1, <1>2, <1>3 DEF EvalInv

LEMMA StartEval ==
  ASSUME EpisodeInv, NEW task \in EvalTasks, NEW baseline \in Baselines, StartEpisode(task, baseline)
  PROVE  EpisodeInv'
  <1> DEFINE gates == IF baseline = "B4" THEN RuleGates(task) ELSE {}
             new == [id |-> started + 1, task |-> task, baseline |-> baseline, gates |-> gates]
  <1>1. /\ episode = NoEpisode /\ started' = started + 1 /\ episode' = new /\ UNCHANGED episodes
        /\ IF gates = {} THEN UNCHANGED ruleVars ELSE ReadActiveRules(gates, started + 1, task)
    BY DEF StartEpisode
  <1>2. gates \in SUBSET Rules /\ \A r \in gates : rule[r].status = "active"
    BY EvalAssumption DEF RuleGates
  <1> HIDE DEF gates
  <1>3. UNCHANGED applications /\ applying'.rules = gates /\ (gates # {} => applying'.run = started + 1)
    <2>1. CASE gates = {}
      BY <1>1, <2>1 DEF ruleVars, EpisodeInv
    <2>2. CASE gates # {}
      BY <1>1, <1>2, <2>2 DEF ReadActiveRules
    <2> QED  BY <2>1, <2>2
  <1>4. started \in Nat
    BY DEF EpisodeInv
  <1>5. new \in Episode /\ new # NoEpisode
    BY <1>2, <1>4, EvalAssumption DEF Episode
  <1>6. \A x : AppliedTo(x)' = AppliedTo(x)
    BY <1>3 DEF AppliedTo
  <1>7. AppliedTo(started + 1) = {}
    BY <1>4 DEF AppliedTo, EpisodeInv
  <1>8. gates # {} => baseline = "B4"
    BY DEF gates
  <1>9. /\ episode'.id = started' /\ episode'.gates = gates /\ episode'.baseline = baseline
        /\ episode' \in Episode /\ episode' # NoEpisode
    BY <1>1, <1>5
  <1> HIDE DEF new
  <1>10. PICK x \in Nat : x = started + 1
    BY <1>4
  <1>11. AppliedTo(x)' = {}
    BY <1>6, <1>7, <1>10
  <1>12. \A i \in DOMAIN episodes : /\ AppliedTo(episodes[i].id) = episodes[i].gates
                                    /\ episodes[i].id \in Nat /\ episodes[i].id <= started
                                    /\ episodes[i].gates # {} => episodes[i].baseline = "B4"
    BY DEF EpisodeInv
  <1>13. ASSUME NEW i \in DOMAIN episodes
         PROVE  /\ (AppliedTo(episodes[i].id) = episodes[i].gates)'
                /\ episodes'[i].id \in Nat /\ episodes'[i].id <= started' /\ episodes'[i].id < started'
                /\ episodes'[i].gates # {} => episodes'[i].baseline = "B4"
    <2>1. PICK y : y = episodes[i].id
      OBVIOUS
    <2>2. AppliedTo(y)' = episodes[i].gates /\ y = episodes'[i].id
      BY <1>1, <1>6, <1>12, <2>1
    <2>3. (AppliedTo(episodes[i].id) = episodes[i].gates)'
      BY <1>1, <2>2
    <2>4. y \in Nat /\ y <= started
      BY <1>12, <2>1
    <2>5. y <= started + 1 /\ y < started + 1
      BY <1>4, <2>4
    <2>6. /\ episodes'[i].id \in Nat /\ episodes'[i].id <= started' /\ episodes'[i].id < started'
          /\ episodes'[i].gates = episodes[i].gates /\ episodes'[i].baseline = episodes[i].baseline
      BY <1>1, <2>2, <2>4, <2>5
    <2> QED  BY <1>12, <2>3, <2>6
  <1>14. (AppliedTo(episode.id) \cup applying.rules = episode.gates)'
    BY <1>1, <1>3, <1>9, <1>10, <1>11
  <1>15. \A a \in DOMAIN applications' : a.run \in Nat /\ a.run <= started'
    BY <1>1, <1>3, <1>4 DEF EpisodeInv
  <1>16. applying' = [rules |-> applying'.rules, run |-> applying'.run, trigger |-> applying'.trigger]
    BY <1>1 DEF ReadActiveRules, ruleVars, EpisodeInv
  <1> QED  BY <1>1, <1>3, <1>4, <1>8, <1>9, <1>13, <1>14, <1>15, <1>16 DEF EpisodeInv

\* Rows, episodes and applications that stay as they are.
LEMMA SameEpisodes ==
  ASSUME EpisodeInv, UNCHANGED evalVars, UNCHANGED applying, DOMAIN applications' = DOMAIN applications
  PROVE  EpisodeInv'
  <1>1. \A x : AppliedTo(x)' = AppliedTo(x)
    BY DEF AppliedTo
  <1>2. UNCHANGED <<started, episode, episodes>>
    BY DEF evalVars
  <1>3. ASSUME NEW i \in DOMAIN episodes PROVE (AppliedTo(episodes[i].id) = episodes[i].gates)'
    <2>1. PICK y : y = episodes[i].id
      OBVIOUS
    <2>2. AppliedTo(y)' = episodes[i].gates /\ y = episodes'[i].id
      BY <1>1, <1>2, <2>1 DEF EpisodeInv
    <2> QED  BY <1>2, <2>2
  <1>4. episode # NoEpisode => (AppliedTo(episode.id) \cup applying.rules = episode.gates)'
    <2>1. PICK y : y = episode.id
      OBVIOUS
    <2>2. AppliedTo(y)' = AppliedTo(y) /\ y = episode'.id
      BY <1>1, <1>2, <2>1
    <2> QED  BY <1>2, <2>1, <2>2 DEF EpisodeInv
  <1> QED  BY <1>2, <1>3, <1>4 DEF EpisodeInv

LEMMA ApplyGateEval ==
  ASSUME EpisodeInv, ApplyGate PROVE EpisodeInv'
  <1>1. PICK r \in applying.rules :
          /\ applications' = OpenApplication(Application(r, applying.run, applying.trigger))
          /\ applying' = IF applying.rules = {r} THEN NotApplying
                         ELSE [applying EXCEPT !.rules = @ \ {r}]
    BY DEF ApplyGate, ApplyRule
  <1>2. UNCHANGED <<started, episode, episodes>>
    BY DEF ApplyGate, evalVars
  <1>3. /\ episode # NoEpisode /\ applying.run = started /\ episode.id = started /\ started \in Nat
        /\ AppliedTo(started) \cup applying.rules = episode.gates
    BY <1>1 DEF EpisodeInv
  <1>4. PICK a : a = Application(r, applying.run, applying.trigger)
    OBVIOUS
  <1>5. a.rule = r /\ a.run = started /\ DOMAIN applications' = DOMAIN applications \cup {a}
    BY <1>1, <1>3, <1>4 DEF Application, OpenApplication
  <1>6. \A x : AppliedTo(x)' = IF x = started THEN AppliedTo(x) \cup {r} ELSE AppliedTo(x)
    BY <1>5 DEF AppliedTo
  <1>7. /\ applying'.rules = applying.rules \ {r}
        /\ applying'.rules # {} => applying'.run = started
        /\ applying' = [rules |-> applying'.rules, run |-> applying'.run, trigger |-> applying'.trigger]
    <2>1. applying = [rules |-> applying.rules, run |-> applying.run, trigger |-> applying.trigger]
      BY DEF EpisodeInv
    <2>2. CASE applying.rules = {r}
      BY <1>1, <2>2 DEF NotApplying
    <2>3. CASE applying.rules # {r}
      <3>1. applying' = [applying EXCEPT !.rules = applying.rules \ {r}]
        BY <1>1, <2>3
      <3>2. applying' = [rules |-> applying.rules \ {r}, run |-> applying.run, trigger |-> applying.trigger]
        BY <2>1, <3>1
      <3> QED  BY <1>3, <3>2
    <2> QED  BY <2>2, <2>3
  <1>8. ASSUME NEW i \in DOMAIN episodes PROVE (AppliedTo(episodes[i].id) = episodes[i].gates)'
    <2>1. PICK y : y = episodes[i].id
      OBVIOUS
    <2>2. y # started /\ AppliedTo(y) = episodes[i].gates
      BY <1>3, <2>1 DEF EpisodeInv
    <2>3. AppliedTo(y)' = episodes[i].gates /\ y = episodes'[i].id
      BY <1>2, <1>6, <2>1, <2>2
    <2> QED  BY <1>2, <2>3
  <1>9. (AppliedTo(episode.id) \cup applying.rules = episode.gates)'
    <2>1. PICK y : y = started
      OBVIOUS
    <2>2. AppliedTo(y)' = AppliedTo(y) \cup {r} /\ y = episode'.id
      BY <1>2, <1>3, <1>6, <2>1
    <2> QED  BY <1>1, <1>2, <1>3, <1>7, <2>1, <2>2
  <1>10. \A b \in DOMAIN applications' : b.run \in Nat /\ b.run <= started
    BY <1>3, <1>5 DEF EpisodeInv
  <1> QED  BY <1>2, <1>3, <1>7, <1>8, <1>9, <1>10 DEF EpisodeInv

LEMMA FinishEval ==
  ASSUME EpisodeInv, episodes \in Seq(EpisodeRow), NEW success \in BOOLEAN, FinishEpisode(success)
  PROVE  EpisodeInv' /\ episodes' \in Seq(EpisodeRow)
  <1> DEFINE row == [id |-> episode.id, task |-> episode.task, baseline |-> episode.baseline,
                     gates |-> episode.gates, success |-> success, mark |-> "none"]
             k == Len(episodes) + 1
  <1>1. /\ episode # NoEpisode /\ applying.rules = {} /\ episodes' = Append(episodes, row)
        /\ episode' = NoEpisode /\ UNCHANGED <<started, rule, ruleLog, applications, applying>>
    BY DEF FinishEpisode, ruleVars
  <1>2. /\ episode \in Episode /\ episode.id = started /\ AppliedTo(started) = episode.gates
        /\ started \in Nat
        /\ episode.gates # {} => episode.baseline = "B4"
    BY <1>1 DEF EpisodeInv
  <1>3. /\ row \in EpisodeRow /\ row.id = started /\ row.gates = episode.gates
        /\ row.baseline = episode.baseline
    BY <1>2 DEF Episode, EpisodeRow
  <1> HIDE DEF row
  <1>4. /\ DOMAIN episodes' = DOMAIN episodes \cup {k} /\ episodes'[k] = row
        /\ \A i \in DOMAIN episodes : episodes'[i] = episodes[i]
        /\ episodes' \in Seq(EpisodeRow)
    BY <1>1, <1>3, Grown
  <1>5. \A x : AppliedTo(x)' = AppliedTo(x)
    BY <1>1 DEF AppliedTo
  <1> HIDE DEF k
  <1>6. ASSUME NEW i \in DOMAIN episodes'
        PROVE  /\ (AppliedTo(episodes[i].id) = episodes[i].gates)'
               /\ episodes'[i].id \in Nat /\ episodes'[i].id <= started
               /\ episodes'[i].gates # {} => episodes'[i].baseline = "B4"
    <2>1. PICK y : y = episodes'[i].id
      OBVIOUS
    <2>2. CASE i = k
      <3>1. y = started /\ AppliedTo(y) = episodes'[i].gates
        BY <1>2, <1>3, <1>4, <2>1, <2>2
      <3>2. AppliedTo(y)' = episodes'[i].gates
        BY <1>5, <3>1
      <3> QED  BY <1>2, <1>3, <1>4, <2>1, <2>2, <3>1, <3>2
    <2>3. CASE i \in DOMAIN episodes
      <3>1. /\ y = episodes[i].id /\ AppliedTo(y) = episodes'[i].gates /\ y \in Nat /\ y <= started
            /\ episodes'[i].gates # {} => episodes'[i].baseline = "B4"
        BY <1>4, <2>1, <2>3 DEF EpisodeInv
      <3>2. AppliedTo(y)' = episodes'[i].gates
        BY <1>5, <3>1
      <3> QED  BY <2>1, <3>1, <3>2
    <2> QED  BY <1>4, <2>2, <2>3
  <1> QED  BY <1>1, <1>4, <1>6 DEF EpisodeInv

LEMMA LoseEval ==
  ASSUME EpisodeInv, LoseEpisode PROVE EpisodeInv'
  <1>1. /\ episode' = NoEpisode /\ UNCHANGED <<started, episodes, applications>>
        /\ applying'.rules = {}
        /\ applying' = [rules |-> applying'.rules, run |-> applying'.run, trigger |-> applying'.trigger]
    BY DEF LoseEpisode, ruleVars, StopApplying, NotApplying, EpisodeInv
  <1>2. \A x : AppliedTo(x)' = AppliedTo(x)
    BY <1>1 DEF AppliedTo
  <1>3. ASSUME NEW i \in DOMAIN episodes PROVE (AppliedTo(episodes[i].id) = episodes[i].gates)'
    <2>1. PICK y : y = episodes[i].id
      OBVIOUS
    <2>2. AppliedTo(y)' = episodes[i].gates /\ y = episodes'[i].id
      BY <1>1, <1>2, <2>1 DEF EpisodeInv
    <2> QED  BY <1>1, <2>2
  <1> QED  BY <1>1, <1>3 DEF EpisodeInv

LEMMA MarkEval ==
  ASSUME EpisodeInv, episodes \in Seq(EpisodeRow),
         NEW k \in DOMAIN episodes, NEW mark \in {"false_gate", "regression"}, MarkRow(k, mark)
  PROVE  EpisodeInv' /\ episodes' \in Seq(EpisodeRow)
  <1>1. /\ episodes' = [episodes EXCEPT ![k].mark = mark]
        /\ UNCHANGED <<started, episode, rule, ruleLog, applications, applying>>
    BY DEF MarkRow, ruleVars
  <1>2. /\ Len(episodes) \in Nat /\ DOMAIN episodes = 1 .. Len(episodes)
        /\ episodes \in [1 .. Len(episodes) -> EpisodeRow]
    BY LenProperties
  <1>3. DOMAIN episodes' = DOMAIN episodes
    BY <1>1
  <1>4. ASSUME NEW i \in DOMAIN episodes
        PROVE  /\ episodes'[i] \in EpisodeRow
               /\ episodes'[i].id = episodes[i].id /\ episodes'[i].gates = episodes[i].gates
               /\ episodes'[i].baseline = episodes[i].baseline
    <2>1. episodes[i] \in EpisodeRow /\ episodes[k] \in EpisodeRow
      BY <1>2
    <2>2. CASE i = k
      <3>1. episodes'[i] = [episodes[i] EXCEPT !.mark = mark]
        BY <1>1, <2>2
      <3> QED  BY <2>1, <3>1 DEF EpisodeRow
    <2>3. CASE i # k
      BY <1>1, <2>1, <2>3
    <2> QED  BY <2>2, <2>3
  <1>5. episodes' \in Seq(EpisodeRow)
    <2>1. episodes' = [i \in 1 .. Len(episodes) |-> episodes'[i]]
      BY <1>1, <1>2
    <2>2. episodes' \in [1 .. Len(episodes) -> EpisodeRow]
      BY <1>2, <1>4, <2>1
    <2> QED  BY <1>2, <2>2, SeqDef
  <1>6. \A x : AppliedTo(x)' = AppliedTo(x)
    BY <1>1 DEF AppliedTo
  <1>7. ASSUME NEW i \in DOMAIN episodes PROVE (AppliedTo(episodes[i].id) = episodes[i].gates)'
    <2>1. PICK y : y = episodes[i].id
      OBVIOUS
    <2>2. AppliedTo(y)' = episodes[i].gates /\ y = episodes'[i].id
      BY <1>4, <1>6, <2>1 DEF EpisodeInv
    <2> QED  BY <1>4, <2>2
  <1>8. episode # NoEpisode => (AppliedTo(episode.id) \cup applying.rules = episode.gates)'
    <2>1. PICK y : y = episode.id
      OBVIOUS
    <2>2. AppliedTo(y)' = AppliedTo(y) /\ y = episode'.id
      BY <1>1, <1>6, <2>1
    <2> QED  BY <1>1, <2>1, <2>2 DEF EpisodeInv
  <1> QED  BY <1>1, <1>3, <1>4, <1>5, <1>7, <1>8 DEF EpisodeInv

LEMMA EvalInvStep ==
  ASSUME EvalInv, [Next]_allVars PROVE EvalInv'
  <1>1. CASE UNCHANGED <<evalVars, ruleVars, active>>
    <2>1. EpisodeInv => EpisodeInv'
      BY <1>1, SameEpisodes DEF ruleVars
    <2> QED  BY <1>1, <2>1 DEF EvalInv, evalVars
  <1>2. CASE RulesStep
    BY <1>2 DEF RulesStep, EvalInv, evalVars
  <1>3. CASE EvaluationStep
    <2>1. EvalNext /\ active = "evaluation" /\ active' = active
      BY <1>3 DEF EvaluationStep
    <2>2. EpisodeInv /\ episodes \in Seq(EpisodeRow)
      BY <2>1 DEF EvalInv
    <2>3. SUFFICES EpisodeInv' /\ episodes' \in Seq(EpisodeRow)
      BY <2>1 DEF EvalInv
    <2>4. ASSUME NEW task \in EvalTasks, NEW baseline \in Baselines, StartEpisode(task, baseline)
          PROVE  EpisodeInv' /\ episodes' \in Seq(EpisodeRow)
      BY <2>2, <2>4, StartEval DEF StartEpisode
    <2>5. CASE ApplyGate
      BY <2>2, <2>5, ApplyGateEval DEF ApplyGate, evalVars
    <2>6. CASE \E success \in BOOLEAN : FinishEpisode(success)
      BY <2>2, <2>6, FinishEval
    <2>7. CASE LoseEpisode
      BY <2>2, <2>7, LoseEval DEF LoseEpisode
    <2>8. CASE \E i \in DOMAIN episodes, mark \in {"false_gate", "regression"} : MarkRow(i, mark)
      BY <2>2, <2>8, MarkEval
    <2>9. CASE ChangeRules
      <3>1. UNCHANGED evalVars /\ UNCHANGED applying /\ DOMAIN applications' = DOMAIN applications
        BY <2>9 DEF ChangeRules, CreateRule, SetRuleStatus, RecordRuleOutcome
      <3> QED  BY <2>2, <3>1, SameEpisodes DEF evalVars
    <2> QED  BY <2>1, <2>4, <2>5, <2>6, <2>7, <2>8, <2>9 DEF EvalNext
  <1> QED  BY <1>1, <1>2, <1>3 DEF Next, LoopStep, InsideStep, allVars

LEMMA Quotient ==
  ASSUME NEW x \in Nat, NEW d \in Nat \ {0}
  PROVE  x \div d \in Nat /\ d * (x \div d) <= x /\ x < d * (x \div d) + d
  OBVIOUS

LEMMA QuotientGrows ==
  ASSUME NEW x \in Nat, NEW y \in Nat, NEW d \in Nat \ {0}, x <= y
  PROVE  x \div d <= y \div d
  <1>1. PICK p \in Nat : p = x \div d /\ d * p <= x
    BY Quotient
  <1>2. PICK q \in Nat : q = y \div d /\ y < d * q + d
    BY Quotient
  <1>3. ASSUME p > q PROVE FALSE
    <2>1. PICK k \in Nat : p = q + 1 + k
      <3>1. p - q - 1 \in Nat /\ p = q + 1 + (p - q - 1)
        BY <1>3
      <3> QED  BY <3>1
    <2>2. d * p = d * q + d + d * k
      BY <2>1
    <2>3. d * k \in Nat /\ d * q \in Nat /\ d * p \in Nat
      OBVIOUS
    <2> QED  BY <1>1, <1>2, <2>2, <2>3
  <1> QED  BY <1>1, <1>2, <1>3

\* A whole step further on, the quotient is larger.
LEMMA QuotientSteps ==
  ASSUME NEW x \in Nat, NEW y \in Nat, NEW d \in Nat \ {0}, x + d <= y
  PROVE  x \div d < y \div d
  <1>1. PICK p \in Nat : p = x \div d /\ d * p <= x
    BY Quotient
  <1>2. PICK q \in Nat : q = y \div d /\ y < d * q + d
    BY Quotient
  <1>3. ASSUME p >= q PROVE FALSE
    <2>1. PICK k \in Nat : p = q + k
      <3>1. p - q \in Nat /\ p = q + (p - q)
        BY <1>3
      <3> QED  BY <3>1
    <2>2. d * p = d * q + d * k
      BY <2>1
    <2>3. d * k \in Nat /\ d * q \in Nat /\ d * p \in Nat
      OBVIOUS
    <2> QED  BY <1>1, <1>2, <2>2, <2>3
  <1> QED  BY <1>1, <1>2, <1>3

\* Of two collections of rows one has no more, if it has no more of any task.
LEMMA PartsCompare ==
  ASSUME NEW E, IsFiniteSet(E), NEW X, IsFiniteSet(X), NEW Y, IsFiniteSet(Y), NEW task,
         \A i \in X \cup Y : task[i] \in E,
         \A e \in E : Cardinality({i \in X : task[i] = e}) <= Cardinality({i \in Y : task[i] = e})
  PROVE  Cardinality(X) <= Cardinality(Y)
  <1> DEFINE Of(S, F) == {i \in S : task[i] \in F}
             One(S, e) == {i \in S : task[i] = e}
             Fine(F) == Cardinality(Of(X, F)) <= Cardinality(Of(Y, F))
             bad == {n \in Nat : \E F \in SUBSET E : Cardinality(F) = n /\ ~Fine(F)}
  <1>1. \A F \in SUBSET E : IsFiniteSet(F) /\ Cardinality(F) \in Nat
    BY FS_Subset, FS_CardinalityType
  <1>2. Fine({})
    <2>1. Of(X, {}) = {} /\ Of(Y, {}) = {}
      OBVIOUS
    <2> QED  BY <2>1, FS_EmptySet
  <1>3. ASSUME NEW S, IsFiniteSet(S), NEW F \in SUBSET E, NEW e \in F
        PROVE  /\ Cardinality(Of(S, F)) = Cardinality(Of(S, F \ {e})) + Cardinality(One(S, e))
               /\ Cardinality(Of(S, F \ {e})) \in Nat /\ Cardinality(One(S, e)) \in Nat
    <2>1. /\ Of(S, F) = Of(S, F \ {e}) \cup One(S, e)
          /\ Of(S, F \ {e}) \cap One(S, e) = {}
          /\ Of(S, F \ {e}) \in SUBSET S /\ One(S, e) \in SUBSET S
      OBVIOUS
    <2> HIDE DEF Of, One
    <2>2. IsFiniteSet(Of(S, F \ {e})) /\ IsFiniteSet(One(S, e))
      BY <1>3, <2>1, FS_Subset
    <2>3. PICK a \in Nat, b \in Nat : a = Cardinality(Of(S, F \ {e})) /\ b = Cardinality(One(S, e))
      BY <2>2, FS_CardinalityType
    <2>4. Cardinality(Of(S, F)) =
            Cardinality(Of(S, F \ {e})) + Cardinality(One(S, e)) - Cardinality(Of(S, F \ {e}) \cap One(S, e))
      BY <2>1, <2>2, FS_Union
    <2>5. Cardinality(Of(S, F \ {e}) \cap One(S, e)) = 0
      BY <2>1, FS_EmptySet
    <2> QED  BY <2>3, <2>4, <2>5
  <1>4. ASSUME NEW F \in SUBSET E, NEW e \in F, Fine(F \ {e}) PROVE Fine(F)
    <2>1. Cardinality(One(X, e)) <= Cardinality(One(Y, e))
      OBVIOUS
    <2> HIDE DEF Of, One
    <2>2. PICK a \in Nat, b \in Nat : /\ a = Cardinality(Of(X, F \ {e})) /\ b = Cardinality(One(X, e))
                                      /\ Cardinality(Of(X, F)) = a + b
      BY <1>3
    <2>3. PICK c \in Nat, d \in Nat : /\ c = Cardinality(Of(Y, F \ {e})) /\ d = Cardinality(One(Y, e))
                                      /\ Cardinality(Of(Y, F)) = c + d
      BY <1>3
    <2> QED  BY <1>4, <2>1, <2>2, <2>3
  <1> HIDE DEF Fine
  <1>5. bad = {}
    <2>1. SUFFICES ASSUME bad # {} PROVE FALSE
      OBVIOUS
    <2>2. PICK n \in bad : \A k \in bad : n <= k
      BY <2>1, LeastOfSome
    <2>3. PICK F \in SUBSET E : Cardinality(F) = n /\ ~Fine(F)
      BY <2>2
    <2>4. PICK e \in F : TRUE
      BY <1>2, <2>3
    <2>5. F \ {e} \in SUBSET E /\ Cardinality(F \ {e}) = n - 1 /\ n - 1 \in Nat
      <3>1. Cardinality(F \ {e}) = n - 1
        BY <1>1, <2>3, <2>4, FS_RemoveElement
      <3> QED  BY <1>1, <3>1
    <2>6. Fine(F \ {e})
      BY <2>2, <2>5
    <2> QED  BY <1>4, <2>3, <2>4, <2>6
  <1>6. Fine(E)
    <2>1. E \in SUBSET E /\ Cardinality(E) \in Nat
      BY <1>1
    <2> QED  BY <1>5, <2>1
  <1>7. Of(X, E) = X /\ Of(Y, E) = Y
    OBVIOUS
  <1> HIDE DEF Of
  <1> QED  BY <1>6, <1>7 DEF Fine

\* What a rate counts it counts out of all.
LEMMA RateOrder ==
  ASSUME NEW n \in Nat \ {0}, NEW c \in Nat, NEW d \in Nat
  PROVE  LET R(k) == (20000 * k + n) \div (2 * n)
         IN /\ R(c) \in Nat
            /\ c <= d => R(c) <= R(d)
            /\ c < d /\ n <= 10000 => R(c) < R(d)
  <1>1. 2 * n \in Nat \ {0} /\ 20000 * c + n \in Nat /\ 20000 * d + n \in Nat
    OBVIOUS
  <1>2. c <= d => 20000 * c + n <= 20000 * d + n
    OBVIOUS
  <1>3. c < d /\ n <= 10000 => (20000 * c + n) + 2 * n <= 20000 * d + n
    OBVIOUS
  <1> QED  BY <1>1, <1>2, <1>3, Quotient, QuotientGrows, QuotientSteps

LEMMA RateIs ==
  ASSUME NEW all, IsFiniteSet(all), all # {}, NEW counted \in SUBSET all
  PROVE  /\ Cardinality(all) \in Nat \ {0} /\ Cardinality(counted) \in Nat
         /\ rate(counted, all) =
              (20000 * Cardinality(counted) + Cardinality(all)) \div (2 * Cardinality(all))
         /\ rate(counted, all) \in Nat
  <1>1. Cardinality(all) \in Nat \ {0} /\ Cardinality(counted) \in Nat
    <2>1. Cardinality(all) # 0
      BY FS_EmptySet
    <2> QED  BY <2>1, FS_Subset, FS_CardinalityType
  <1> QED  BY <1>1, RateOrder DEF rate

LEMMA RateOf ==
  ASSUME NEW all, NEW counted, NEW n, n = Cardinality(all), NEW k, k = Cardinality(counted)
  PROVE  rate(counted, all) = (20000 * k + n) \div (2 * n)
  BY DEF rate

LEMMA AcceptanceEarned == ASSUME episodes \in Seq(EpisodeRow) PROVE AcceptanceIsEarned
  <1> SUFFICES ASSUME NEW b \in Baselines, NEW t \in Baselines, buildEvalReport(b, t) = "accept"
               PROVE  /\ buildEvalReport(t, b) = "reject"
                      /\ SameTasks(b, t) =>
                           /\ \E task \in EvalTasks :
                                Cardinality(Passed(TaskRows(t, task))) > Cardinality(Passed(TaskRows(b, task)))
                           /\ Resolved(b) => \A mark \in {"false_gate", "regression"} :
                                Cardinality(WithMark(Rows(t), mark)) <= Cardinality(WithMark(Rows(b), mark))
    BY DEF AcceptanceIsEarned
  <1>1. /\ Len(episodes) \in Nat /\ DOMAIN episodes = 1 .. Len(episodes)
        /\ \A i \in DOMAIN episodes : episodes[i] \in EpisodeRow
    <2>1. episodes \in [1 .. Len(episodes) -> EpisodeRow]
      BY LenProperties
    <2> QED  BY <2>1, LenProperties
  <1>2. IsFiniteSet(DOMAIN episodes)
    BY <1>1, FS_Interval
  <1>3. \A x : Rows(x) \in SUBSET DOMAIN episodes /\ IsFiniteSet(Rows(x))
    <2>1. \A x : Rows(x) \in SUBSET DOMAIN episodes
      BY DEF Rows
    <2> QED  BY <1>2, <2>1, FS_Subset
  <1>4. Rows(b) # {} /\ Rows(t) # {}
    BY DEF buildEvalReport
  <1> DEFINE Success(x) == rate(Passed(Rows(x)), Rows(x))
             Marks(x, mark) == rate(WithMark(Rows(x), mark), Rows(x))
  <1>5. \A x : summarizeBaseline(Rows(x)) = [successRate    |-> Success(x),
                                             falseGateRate  |-> Marks(x, "false_gate"),
                                             regressionRate |-> Marks(x, "regression")]
    BY DEF summarizeBaseline, Passed, WithMark
  <1>6. \A x : Passed(Rows(x)) \in SUBSET Rows(x) /\ \A mark : WithMark(Rows(x), mark) \in SUBSET Rows(x)
    BY DEF Passed, WithMark
  <1>7. \A x \in {b, t} : /\ Success(x) \in Nat
                          /\ Marks(x, "false_gate") \in Nat /\ Marks(x, "regression") \in Nat
    <2> SUFFICES ASSUME NEW x \in {b, t}
                 PROVE  /\ Success(x) \in Nat
                        /\ Marks(x, "false_gate") \in Nat /\ Marks(x, "regression") \in Nat
      OBVIOUS
    <2>1. Rows(x) # {} /\ IsFiniteSet(Rows(x))
      BY <1>3, <1>4
    <2>2. /\ Passed(Rows(x)) \in SUBSET Rows(x)
          /\ WithMark(Rows(x), "false_gate") \in SUBSET Rows(x)
          /\ WithMark(Rows(x), "regression") \in SUBSET Rows(x)
      BY <1>6
    <2> QED  BY <2>1, <2>2, RateIs
  <1> HIDE DEF Success, Marks
  <1>8. /\ ~(Marks(t, "false_gate") > Marks(b, "false_gate"))
        /\ ~(Marks(t, "regression") > Marks(b, "regression"))
        /\ ~(Success(t) <= Success(b))
    BY <1>5 DEF buildEvalReport, decideRuleGate
  <1>9. buildEvalReport(t, b) = "reject"
    <2>1. Success(b) <= Success(t)
      BY <1>7, <1>8
    <2> QED  BY <1>4, <1>5, <2>1 DEF buildEvalReport, decideRuleGate
  <1>10. ASSUME SameTasks(b, t) PROVE Cardinality(Rows(b)) = Cardinality(Rows(t))
    <2> DEFINE task == [i \in DOMAIN episodes |-> episodes[i].task]
    <2>1. \A i \in DOMAIN episodes : task[i] = episodes[i].task /\ task[i] \in EvalTasks
      BY <1>1 DEF EpisodeRow
    <2> HIDE DEF task
    <2>2. \A x : \A e \in EvalTasks : TaskRows(x, e) = {i \in Rows(x) : task[i] = e}
      BY <1>3, <2>1 DEF TaskRows
    <2>3. \A e \in EvalTasks :
            Cardinality({i \in Rows(b) : task[i] = e}) = Cardinality({i \in Rows(t) : task[i] = e})
      BY <1>10, <2>2 DEF SameTasks
    <2>4. \A e \in EvalTasks : \A x :
            /\ IsFiniteSet({i \in Rows(x) : task[i] = e})
            /\ Cardinality({i \in Rows(x) : task[i] = e}) \in Nat
      <3>1. \A e \in EvalTasks : \A x : {i \in Rows(x) : task[i] = e} \in SUBSET Rows(x)
        OBVIOUS
      <3> QED  BY <1>3, <3>1, FS_Subset, FS_CardinalityType
    <2>5. \A e \in EvalTasks :
            /\ Cardinality({i \in Rows(b) : task[i] = e}) <= Cardinality({i \in Rows(t) : task[i] = e})
            /\ Cardinality({i \in Rows(t) : task[i] = e}) <= Cardinality({i \in Rows(b) : task[i] = e})
      <3> SUFFICES ASSUME NEW e \in EvalTasks
                   PROVE  /\ Cardinality({i \in Rows(b) : task[i] = e}) <= Cardinality({i \in Rows(t) : task[i] = e})
                          /\ Cardinality({i \in Rows(t) : task[i] = e}) <= Cardinality({i \in Rows(b) : task[i] = e})
        OBVIOUS
      <3>1. Cardinality({i \in Rows(b) : task[i] = e}) = Cardinality({i \in Rows(t) : task[i] = e})
        BY <2>3
      <3>2. Cardinality({i \in Rows(t) : task[i] = e}) \in Nat
        BY <2>4
      <3> QED  BY <3>1, <3>2
    <2>6. \A i \in Rows(b) \cup Rows(t) : task[i] \in EvalTasks
      BY <1>3, <2>1
    <2>7. IsFiniteSet(EvalTasks)
      BY EvalAssumption
    <2>8. \A i \in Rows(t) \cup Rows(b) : task[i] \in EvalTasks
      BY <2>6
    <2>9. Cardinality(Rows(b)) <= Cardinality(Rows(t))
      BY <1>3, <2>5, <2>6, <2>7, PartsCompare
    <2>10. Cardinality(Rows(t)) <= Cardinality(Rows(b))
      <3>1. \A e \in EvalTasks :
              Cardinality({i \in Rows(t) : task[i] = e}) <= Cardinality({i \in Rows(b) : task[i] = e})
        BY <2>5
      <3>2. IsFiniteSet(Rows(t)) /\ IsFiniteSet(Rows(b))
        BY <1>3
      <3> QED  BY <2>7, <2>8, <3>1, <3>2, PartsCompare
    <2>11. Cardinality(Rows(b)) \in Nat /\ Cardinality(Rows(t)) \in Nat
      BY <1>3, FS_CardinalityType
    <2> QED  BY <2>9, <2>10, <2>11
  <1>11. ASSUME SameTasks(b, t), NEW c, NEW d, c \in SUBSET Rows(b), d \in SUBSET Rows(t)
         PROVE  /\ Cardinality(c) \in Nat /\ Cardinality(d) \in Nat
                /\ Cardinality(d) <= Cardinality(c) => rate(d, Rows(t)) <= rate(c, Rows(b))
                /\ Cardinality(c) < Cardinality(d) /\ Resolved(b) => rate(c, Rows(b)) < rate(d, Rows(t))
    <2>1. PICK n \in Nat \ {0} : n = Cardinality(Rows(b)) /\ n = Cardinality(Rows(t))
      BY <1>3, <1>4, <1>10, <1>11, RateIs
    <2>2. PICK k \in Nat : k = Cardinality(c) /\ rate(c, Rows(b)) = (20000 * k + n) \div (2 * n)
      <3>1. /\ Cardinality(c) \in Nat
            /\ rate(c, Rows(b)) =
                 (20000 * Cardinality(c) + Cardinality(Rows(b))) \div (2 * Cardinality(Rows(b)))
        BY <1>3, <1>4, <1>11, RateIs
      <3>2. PICK k \in Nat : k = Cardinality(c)
        BY <3>1
      <3>3. rate(c, Rows(b)) = (20000 * k + n) \div (2 * n)
        <4>1. n = Cardinality(Rows(b))
          BY <2>1
        <4> QED  BY <3>2, <4>1, RateOf
      <3> QED  BY <3>2, <3>3
    <2>3. PICK l \in Nat : l = Cardinality(d) /\ rate(d, Rows(t)) = (20000 * l + n) \div (2 * n)
      <3>1. /\ Cardinality(d) \in Nat
            /\ rate(d, Rows(t)) =
                 (20000 * Cardinality(d) + Cardinality(Rows(t))) \div (2 * Cardinality(Rows(t)))
        BY <1>3, <1>4, <1>11, RateIs
      <3> QED  BY <2>1, <3>1
    <2>4. l <= k => (20000 * l + n) \div (2 * n) <= (20000 * k + n) \div (2 * n)
      BY RateOrder
    <2>5. k < l /\ n <= 10000 => (20000 * k + n) \div (2 * n) < (20000 * l + n) \div (2 * n)
      BY RateOrder
    <2> QED  BY <2>1, <2>2, <2>3, <2>4, <2>5 DEF Resolved
  <1>12. ASSUME SameTasks(b, t),
                \A task \in EvalTasks :
                  ~(Cardinality(Passed(TaskRows(t, task))) > Cardinality(Passed(TaskRows(b, task))))
         PROVE  FALSE
    <2> DEFINE task == [i \in DOMAIN episodes |-> episodes[i].task]
               P(x) == Passed(Rows(x))
    <2>1. \A i \in DOMAIN episodes : task[i] = episodes[i].task /\ task[i] \in EvalTasks
      BY <1>1 DEF EpisodeRow
    <2> HIDE DEF task
    <2>2. \A x : \A e \in EvalTasks : Passed(TaskRows(x, e)) = {i \in P(x) : task[i] = e}
      BY <1>3, <2>1 DEF TaskRows, Passed
    <2>3. \A x : P(x) \in SUBSET Rows(x) /\ IsFiniteSet(P(x))
      BY <1>3, <1>6, FS_Subset
    <2> HIDE DEF P
    <2>4. \A e \in EvalTasks : \A x : Cardinality({i \in P(x) : task[i] = e}) \in Nat
      <3>1. \A e \in EvalTasks : \A x : {i \in P(x) : task[i] = e} \in SUBSET P(x)
        OBVIOUS
      <3> QED  BY <2>3, <3>1, FS_Subset, FS_CardinalityType
    <2>5. \A e \in EvalTasks :
            Cardinality({i \in P(t) : task[i] = e}) <= Cardinality({i \in P(b) : task[i] = e})
      <3> SUFFICES ASSUME NEW e \in EvalTasks
                   PROVE  Cardinality({i \in P(t) : task[i] = e}) <= Cardinality({i \in P(b) : task[i] = e})
        OBVIOUS
      <3>1. ~(Cardinality({i \in P(t) : task[i] = e}) > Cardinality({i \in P(b) : task[i] = e}))
        <4>1. ~(Cardinality(Passed(TaskRows(t, e))) > Cardinality(Passed(TaskRows(b, e))))
          BY <1>12
        <4>2. /\ Passed(TaskRows(t, e)) = {i \in P(t) : task[i] = e}
              /\ Passed(TaskRows(b, e)) = {i \in P(b) : task[i] = e}
          BY <2>2
        <4> QED  BY <4>1, <4>2
      <3>2. /\ Cardinality({i \in P(t) : task[i] = e}) \in Nat
            /\ Cardinality({i \in P(b) : task[i] = e}) \in Nat
        BY <2>4
      <3> QED  BY <3>1, <3>2
    <2>6. \A i \in P(t) \cup P(b) : task[i] \in EvalTasks
      BY <1>3, <2>1, <2>3
    <2>7. IsFiniteSet(EvalTasks)
      BY EvalAssumption
    <2>8. Cardinality(P(t)) <= Cardinality(P(b))
      BY <2>3, <2>5, <2>6, <2>7, PartsCompare
    <2>9. rate(P(t), Rows(t)) <= rate(P(b), Rows(b))
      BY <1>11, <1>12, <2>3, <2>8
    <2> QED  BY <1>8, <2>9 DEF P, Success
  <1>13. ASSUME SameTasks(b, t), Resolved(b), NEW mark \in {"false_gate", "regression"}
         PROVE  Cardinality(WithMark(Rows(t), mark)) <= Cardinality(WithMark(Rows(b), mark))
    <2>1. Marks(b, mark) \in Nat /\ Marks(t, mark) \in Nat /\ ~(Marks(t, mark) > Marks(b, mark))
      BY <1>7, <1>8
    <2>2. ~(rate(WithMark(Rows(b), mark), Rows(b)) < rate(WithMark(Rows(t), mark), Rows(t)))
      BY <2>1 DEF Marks
    <2> QED  BY <1>6, <1>11, <1>13, <2>2
  <1> QED  BY <1>9, <1>12, <1>13

\* What is counted: the stages of the traces, the loaded batch, the library, the rules, and
\* the episodes that evaluate them.
EarnedInv == StagesInv /\ BatchInv /\ LibraryInv /\ RulesInv /\ EvalInv

THEOREM EarnedInvariance == Spec => []EarnedInv
  <1>1. GroupsInit => EarnedInv
    BY StagesInit, LibraryInit, RulesInvInit, EvalInvInit DEF EarnedInv
  <1>2. ShapeInv /\ EarnedInv /\ [Next]_allVars => EarnedInv'
    BY StagesStep, LibraryStep, RulesInvStep, EvalInvStep DEF EarnedInv
  <1> QED  BY <1>1, <1>2, PipelineInvariance, PTL DEF Spec

\* What is learned stands on what was observed: a lesson on two analyses that showed its class,
\* its demotion on two deliveries in which the class came back, the row of a rule on its log,
\* each application on one mark, and the acceptance of a rule on a task that passed more often.
THEOREM CountersEarned == Spec => []CountersAreEarned
  <1>1. ASSUME EarnedInv PROVE CountersAreEarned
    <2>1. PromotionNeedsRecurrence /\ DemotionIsEarned
      BY <1>1, LibraryEarned DEF EarnedInv
    <2>2. RulesReplay
      BY <1>1 DEF EarnedInv, RulesInv
    <2>3. AcceptanceIsEarned
      BY <1>1, AcceptanceEarned DEF EarnedInv, EvalInv
    <2>4. GatesAreApplied
      <3>1. CASE active = "rules"
        <4>1. episodes = <<>> /\ DOMAIN <<>> = {}
          BY <1>1, <3>1 DEF EarnedInv, EvalInv
        <4> QED  BY <4>1 DEF GatesAreApplied
      <3>2. CASE active # "rules"
        BY <1>1, <3>2 DEF EarnedInv, EvalInv, EpisodeInv, AppliedTo, GatesAreApplied
      <3> QED  BY <3>1, <3>2
    <2> QED  BY <2>1, <2>2, <2>3, <2>4 DEF CountersAreEarned, EvaluationIsEarned
  <1> QED  BY <1>1, EarnedInvariance, PTL

-----------------------------------------------------------------------------
(* Inside a run: paths.                                                    *)

\* The prover knows of no string that it is in STRING.
Part == STRING \cup {"."}

Path == Seq(Part)

LEMMA PartsGrow == ASSUME NEW parts \in Path, NEW part \in Part PROVE AddPart(parts, part) \in Path
  <1>1. CASE part \in {"", "."}
    BY <1>1 DEF AddPart
  <1>2. Len(parts) \in Nat /\ \A i \in 1 .. Len(parts) : parts[i] \in Part
    BY DEF Path
  <1>3. Front(parts) \in Path
    <2>1. \A i \in 1 .. Len(parts) - 1 : parts[i] \in Part
      BY <1>2
    <2> QED  BY <1>2, <2>1, SubSeqProperties DEF Front, Path
  <1>4. Append(parts, part) \in Path
    BY AppendProperties DEF Path
  <1> QED  BY <1>1, <1>3, <1>4 DEF AddPart

\* The last of some positions.
LEMMA LastOfSome ==
  ASSUME NEW n \in Nat, NEW s \in SUBSET (1 .. n), s # {}
  PROVE  Max(s) \in s /\ \A i \in s : i <= Max(s)
  <1> DEFINE bounds == {k \in Nat : \A i \in s : i <= k}
  <1>1. PICK m \in bounds : \A k \in bounds : m <= k
    <2>1. n \in bounds
      OBVIOUS
    <2> QED  BY <2>1, LeastOfSome
  <1>2. m \in s
    <2>1. SUFFICES ASSUME m \notin s PROVE FALSE
      OBVIOUS
    <2>2. m \in Nat /\ \A i \in s : i \in Nat /\ i >= 1 /\ i <= m /\ i # m
      BY <1>1, <2>1
    <2>3. PICK i \in s : TRUE
      OBVIOUS
    <2>4. m - 1 \in Nat
      BY <2>2, <2>3
    <2>5. \A k \in s : k <= m - 1
      BY <2>2
    <2>6. m - 1 \in bounds
      BY <2>4, <2>5
    <2> QED  BY <1>1, <2>2, <2>6
  <1>3. \E x \in s : \A y \in s : x >= y
    BY <1>1, <1>2
  <1>4. Max(s) \in s /\ \A y \in s : Max(s) >= y
    BY <1>3 DEF Max
  <1> QED  BY <1>4

\* The fold of a path, at one set of its positions.
Folds(path, g, s) == g[s] = IF s = {} THEN <<>> ELSE AddPart(g[s \ {Max(s)}], path[Max(s)])

IsFold(path, g) ==
  g = [s \in SUBSET DOMAIN path |-> IF s = {} THEN <<>> ELSE AddPart(g[s \ {Max(s)}], path[Max(s)])]

LEMMA WithoutLast ==
  ASSUME NEW path \in Path, NEW s \in SUBSET DOMAIN path, s # {}
  PROVE  /\ Max(s) \in DOMAIN path /\ s \ {Max(s)} \in SUBSET DOMAIN path
         /\ path[Max(s)] \in Part
         /\ Cardinality(s) \in Nat \ {0} /\ Cardinality(s \ {Max(s)}) = Cardinality(s) - 1
  <1>1. Len(path) \in Nat /\ DOMAIN path = 1 .. Len(path) /\ path \in [1 .. Len(path) -> Part]
    BY LenProperties DEF Path
  <1>2. Max(s) \in s
    BY <1>1, LastOfSome
  <1>3. IsFiniteSet(s)
    <2>1. IsFiniteSet(1 .. Len(path))
      BY <1>1, FS_Interval
    <2> QED  BY <1>1, <2>1, FS_Subset
  <1>4. Cardinality(s) \in Nat /\ Cardinality(s) # 0
    BY <1>3, FS_CardinalityType, FS_EmptySet
  <1>5. Cardinality(s \ {Max(s)}) = Cardinality(s) - 1
    BY <1>2, <1>3, FS_RemoveElement
  <1> QED  BY <1>1, <1>2, <1>4, <1>5

LEMMA PlacesCount ==
  ASSUME NEW path \in Path, NEW s \in SUBSET DOMAIN path
  PROVE  Cardinality(s) \in Nat /\ (Cardinality(s) <= 0 => s = {})
  <1>1. CASE s = {}
    BY <1>1, FS_EmptySet
  <1>2. CASE s # {}
    <2>1. Cardinality(s) \in Nat \ {0}
      BY <1>2, WithoutLast
    <2> QED  BY <1>2, <2>1
  <1> QED  BY <1>1, <1>2

LEMMA FoldExists == ASSUME NEW path \in Path PROVE \E g : IsFold(path, g)
  <1> DEFINE D == DOMAIN path
             Good(m) == \E g \in [SUBSET D -> Path] : \A s \in SUBSET D : Cardinality(s) <= m => Folds(path, g, s)
             bad == {m \in Nat : ~Good(m)}
  <1>1. ASSUME NEW m \in bad, \A k \in bad : m <= k PROVE FALSE
    <2>1. CASE m = 0
      <3> DEFINE g == [s \in SUBSET D |-> <<>>]
      <3>1. \A s \in SUBSET D : Cardinality(s) <= 0 => s = {}
        BY PlacesCount
      <3>2. <<>> \in Path
        BY DEF Path
      <3>3. g \in [SUBSET D -> Path] /\ \A s \in SUBSET D : Cardinality(s) <= 0 => Folds(path, g, s)
        BY <3>1, <3>2 DEF Folds
      <3> QED  BY <2>1, <3>3
    <2>2. CASE m # 0
      <3>1. m \in Nat /\ m - 1 \in Nat /\ ~(m <= m - 1)
        BY <2>2
      <3>2. PICK g \in [SUBSET D -> Path] : \A s \in SUBSET D : Cardinality(s) <= m - 1 => Folds(path, g, s)
        BY <1>1, <3>1
      <3> DEFINE h == [s \in SUBSET D |->
                         IF s = {} THEN <<>> ELSE AddPart(g[s \ {Max(s)}], path[Max(s)])]
      <3>3. h \in [SUBSET D -> Path]
        <4>1. ASSUME NEW s \in SUBSET D, s # {} PROVE AddPart(g[s \ {Max(s)}], path[Max(s)]) \in Path
          <5>1. g[s \ {Max(s)}] \in Path /\ path[Max(s)] \in Part
            BY <4>1, WithoutLast
          <5> QED  BY <5>1, PartsGrow
        <4>2. <<>> \in Path
          BY DEF Path
        <4> QED  BY <4>1, <4>2
      <3>4. \A s \in SUBSET D : Cardinality(s) <= m - 1 => h[s] = g[s]
        BY <3>2 DEF Folds
      <3>5. ASSUME NEW s \in SUBSET D, Cardinality(s) <= m PROVE Folds(path, h, s)
        <4>1. CASE s = {}
          BY <4>1 DEF Folds
        <4>2. CASE s # {}
          <5>1. s \ {Max(s)} \in SUBSET D /\ Cardinality(s \ {Max(s)}) <= m - 1
            BY <3>1, <3>5, <4>2, WithoutLast
          <5>2. h[s] = AddPart(g[s \ {Max(s)}], path[Max(s)])
            BY <4>2
          <5> HIDE DEF h
          <5> QED  BY <3>4, <4>2, <5>1, <5>2 DEF Folds
        <4> QED  BY <4>1, <4>2
      <3> HIDE DEF h
      <3> QED  BY <1>1, <3>3, <3>5
    <2> QED  BY <2>1, <2>2
  <1>2. bad = {}
    <2> HIDE DEF Good
    <2> QED  BY <1>1, LeastOfSome
  <1>3. Cardinality(D) \in Nat
    BY PlacesCount
  <1>4. PICK g \in [SUBSET D -> Path] : \A s \in SUBSET D : Cardinality(s) <= Cardinality(D) => Folds(path, g, s)
    BY <1>2, <1>3
  <1>5. \A s \in SUBSET D : Cardinality(s) <= Cardinality(D)
    <2>1. Len(path) \in Nat /\ D = 1 .. Len(path)
      BY LenProperties DEF Path
    <2>2. IsFiniteSet(D)
      BY <2>1, FS_Interval
    <2> QED  BY <2>2, FS_Subset
  <1> QED  BY <1>4, <1>5 DEF IsFold, Folds

LEMMA FoldIsPath == ASSUME NEW path \in Path, NEW g, IsFold(path, g) PROVE g[DOMAIN path] \in Path
  <1> DEFINE bad == {n \in Nat : \E s \in SUBSET DOMAIN path : Cardinality(s) = n /\ g[s] \notin Path}
  <1>1. \A s \in SUBSET DOMAIN path : Cardinality(s) \in Nat
    BY PlacesCount
  <1>2. ASSUME NEW m \in bad, \A k \in bad : m <= k PROVE FALSE
    <2>1. PICK s \in SUBSET DOMAIN path : Cardinality(s) = m /\ g[s] \notin Path
      BY <1>2
    <2>2. s # {}
      <3>1. <<>> \in Path
        BY DEF Path
      <3> QED  BY <2>1, <3>1 DEF IsFold
    <2>3. /\ s \ {Max(s)} \in SUBSET DOMAIN path /\ path[Max(s)] \in Part
          /\ Cardinality(s \ {Max(s)}) = m - 1 /\ m - 1 \in Nat
      BY <2>1, <2>2, WithoutLast
    <2>4. m - 1 \notin bad
      BY <1>2, <2>3
    <2>5. g[s \ {Max(s)}] \in Path
      BY <2>3, <2>4
    <2>6. g[s] = AddPart(g[s \ {Max(s)}], path[Max(s)])
      BY <2>2 DEF IsFold
    <2> QED  BY <2>1, <2>3, <2>5, <2>6, PartsGrow
  <1>3. bad = {}
    BY <1>2, LeastOfSome
  <1> QED  BY <1>1, <1>3

LEMMA LocationType == ASSUME NEW path \in Path PROVE Location(path) \in Path
  <1> DEFINE g == CHOOSE g : IsFold(path, g)
             parts == FoldLeft(AddPart, <<>>, path)
  <1>1. IsFold(path, g)
    BY FoldExists
  <1>2. parts = g[DOMAIN path]
    BY DEF FoldLeft, MapThenFoldSet, IsFold
  <1>3. parts \in Path
    <2> HIDE DEF g
    <2> QED  BY <1>1, <1>2, FoldIsPath
  <1>4. <<".">> \in Path
    <2>1. "." \in Part
      BY DEF Part
    <2> QED  BY <2>1 DEF Path
  <1>5. Location(path) = IF parts = <<>> THEN <<".">> ELSE parts
    BY DEF Location
  <1> HIDE DEF parts
  <1> QED  BY <1>3, <1>4, <1>5

\* Two prefixes of one path overlap.
LEMMA BelowBoth ==
  ASSUME NEW p \in Path, NEW A \in SUBSET Path, NEW B \in SUBSET Path, Below(p, A), Below(p, B)
  PROVE  Overlap(A, B)
  <1>1. PICK a \in A : IsPrefix(Location(a), p)
    BY DEF Below
  <1>2. PICK b \in B : IsPrefix(Location(b), p)
    BY DEF Below
  <1>3. ASSUME NEW s \in Path, NEW t \in Path, IsPrefix(s, p), IsPrefix(t, p), Len(s) <= Len(t)
        PROVE  IsPrefix(s, t)
    <2>1. /\ Len(s) \in Nat /\ Len(t) \in Nat /\ Len(p) \in Nat
          /\ \A i \in 1 .. Len(t) : t[i] \in Part
          /\ \A i \in 1 .. Len(s) : s[i] \in Part
          /\ \A i \in 1 .. Len(p) : p[i] \in Part
      BY DEF Path
    <2>2. Len(s) <= Len(p) /\ Len(t) <= Len(p)
      BY <1>3 DEF IsPrefix
    <2>3. \A i \in 1 .. Len(t) : SubSeq(t, 1, Len(t))[i] = t[i] /\ SubSeq(p, 1, Len(t))[i] = p[i]
      <3>1. \A i \in 1 .. Len(t) : p[i] \in Part
        BY <2>1, <2>2
      <3> QED  BY <2>1, <3>1, SubSeqProperties
    <2>4. \A i \in 1 .. Len(t) : t[i] = p[i]
      BY <1>3, <2>3 DEF IsPrefix
    <2>5. /\ SubSeq(s, 1, Len(s)) = SubSeq(p, 1, Len(s))
          /\ SubSeq(t, 1, Len(s)) \in Path /\ Len(SubSeq(t, 1, Len(s))) = Len(s)
          /\ SubSeq(p, 1, Len(s)) \in Path /\ Len(SubSeq(p, 1, Len(s))) = Len(s)
          /\ \A i \in 1 .. Len(s) : SubSeq(t, 1, Len(s))[i] = t[i] /\ SubSeq(p, 1, Len(s))[i] = p[i]
      <3>1. \A i \in 1 .. Len(s) : p[i] \in Part /\ t[i] \in Part
        BY <1>3, <2>1, <2>2
      <3>2. /\ SubSeq(t, 1, Len(s)) \in Path /\ Len(SubSeq(t, 1, Len(s))) = Len(s)
            /\ \A i \in 1 .. Len(s) : SubSeq(t, 1, Len(s))[i] = t[i]
        BY <2>1, <3>1, SubSeqProperties DEF Path
      <3>3. /\ SubSeq(p, 1, Len(s)) \in Path /\ Len(SubSeq(p, 1, Len(s))) = Len(s)
            /\ \A i \in 1 .. Len(s) : SubSeq(p, 1, Len(s))[i] = p[i]
        BY <2>1, <3>1, SubSeqProperties DEF Path
      <3> QED  BY <1>3, <3>2, <3>3 DEF IsPrefix
    <2>6. SubSeq(t, 1, Len(s)) = SubSeq(p, 1, Len(s))
      <3>1. \A i \in 1 .. Len(s) : SubSeq(t, 1, Len(s))[i] = SubSeq(p, 1, Len(s))[i]
        BY <1>3, <2>1, <2>4, <2>5
      <3> QED  BY <2>5, <3>1, SeqEqual DEF Path
    <2> QED  BY <1>3, <2>5, <2>6 DEF IsPrefix
  <1>4. /\ Location(a) \in Path /\ Location(b) \in Path
        /\ Len(Location(a)) \in Nat /\ Len(Location(b)) \in Nat
    BY LocationType DEF Path
  <1>5. IsPrefix(Location(a), Location(b)) \/ IsPrefix(Location(b), Location(a))
    BY <1>1, <1>2, <1>3, <1>4
  <1> QED  BY <1>5 DEF Overlap

-----------------------------------------------------------------------------
(* Inside a run: the blocks of a reply.                                    *)

Block == [tag : STRING, path : Path]
Reply == Seq(Block)

Takes(raw, i, taken) == i > 1 /\ raw[i - 1].tag = "declares" /\ i - 1 \notin taken

IsTaken(raw, t) == t = [i \in DOMAIN raw |-> i > 1 /\ raw[i - 1].tag = "declares" /\ ~t[i - 1]]

LEMMA ReplyDomain ==
  ASSUME NEW raw \in Reply
  PROVE  /\ Len(raw) \in Nat /\ DOMAIN raw = 1 .. Len(raw)
         /\ \A i \in DOMAIN raw : i \in Nat /\ raw[i] \in Block /\ raw[i].path \in Path
  <1>1. Len(raw) \in Nat /\ DOMAIN raw = 1 .. Len(raw) /\ raw \in [1 .. Len(raw) -> Block]
    BY LenProperties DEF Reply
  <1> QED  BY <1>1 DEF Block

LEMMA TakenExists ==
  ASSUME NEW raw \in Reply
  PROVE  \E t : IsTaken(raw, t)
  <1> DEFINE Good(m) == \E taken \in SUBSET DOMAIN raw :
                          \A i \in DOMAIN raw : i <= m => (i \in taken <=> Takes(raw, i, taken))
             bad == {m \in Nat : ~Good(m)}
  <1>1. DOMAIN raw = 1 .. Len(raw) /\ Len(raw) \in Nat
    BY ReplyDomain
  <1>2. ASSUME NEW m \in bad, \A k \in bad : m <= k PROVE FALSE
    <2>1. CASE m = 0
      <3>1. {} \in SUBSET DOMAIN raw /\ \A i \in DOMAIN raw : ~(i <= 0)
        BY <1>1
      <3>2. Good(0)
        BY <3>1
      <3> QED  BY <2>1, <3>2
    <2>2. CASE m # 0
      <3>1. m \in Nat /\ m - 1 \in Nat /\ ~(m <= m - 1)
        BY <2>2
      <3>2. PICK taken \in SUBSET DOMAIN raw :
              \A i \in DOMAIN raw : i <= m - 1 => (i \in taken <=> Takes(raw, i, taken))
        BY <1>2, <3>1
      <3> DEFINE more == {i \in DOMAIN raw : IF i = m THEN Takes(raw, m, taken) ELSE i \in taken}
      <3>3. more \in SUBSET DOMAIN raw /\ \A i \in DOMAIN raw : i # m => (i \in more <=> i \in taken)
        OBVIOUS
      <3>4. \A i \in DOMAIN raw : i <= m => (Takes(raw, i, more) <=> Takes(raw, i, taken))
        <4> SUFFICES ASSUME NEW i \in DOMAIN raw, i <= m
                     PROVE  Takes(raw, i, more) <=> Takes(raw, i, taken)
          OBVIOUS
        <4>1. i > 1 => i - 1 \in DOMAIN raw /\ i - 1 # m
          BY <1>1, <3>1
        <4>2. i > 1 => (i - 1 \in more <=> i - 1 \in taken)
          BY <3>3, <4>1
        <4> QED  BY <4>2 DEF Takes
      <3>5. \A i \in DOMAIN raw : i <= m => (i \in more <=> Takes(raw, i, more))
        <4> SUFFICES ASSUME NEW i \in DOMAIN raw, i <= m PROVE i \in more <=> Takes(raw, i, more)
          OBVIOUS
        <4>1. CASE i = m
          <5>1. i \in more <=> Takes(raw, i, taken)
            BY <4>1
          <5> QED  BY <3>4, <5>1
        <4>2. CASE i # m
          <5>1. i <= m - 1
            BY <1>1, <3>1, <4>2
          <5> HIDE DEF more
          <5> QED  BY <3>2, <3>3, <3>4, <4>2, <5>1
        <4> QED  BY <4>1, <4>2
      <3> HIDE DEF more
      <3>6. Good(m)
        BY <3>3, <3>5
      <3> QED  BY <1>2, <3>6
    <2> QED  BY <2>1, <2>2
  <1>3. bad = {}
    <2> HIDE DEF Good
    <2> QED  BY <1>2, LeastOfSome
  <1>4. PICK taken \in SUBSET DOMAIN raw :
          \A i \in DOMAIN raw : i <= Len(raw) => (i \in taken <=> Takes(raw, i, taken))
    BY <1>1, <1>3
  <1> DEFINE t == [i \in DOMAIN raw |-> i \in taken]
  <1>5. \A i \in DOMAIN raw : t[i] = (i > 1 /\ raw[i - 1].tag = "declares" /\ ~t[i - 1])
    <2> SUFFICES ASSUME NEW i \in DOMAIN raw
                 PROVE  t[i] = (i > 1 /\ raw[i - 1].tag = "declares" /\ ~t[i - 1])
      OBVIOUS
    <2>1. i <= Len(raw) /\ (i > 1 => i - 1 \in DOMAIN raw)
      BY <1>1
    <2>2. t[i] = (i \in taken)
      OBVIOUS
    <2>3. i > 1 => t[i - 1] = (i - 1 \in taken)
      BY <2>1
    <2>4. i \in taken <=> i > 1 /\ raw[i - 1].tag = "declares" /\ i - 1 \notin taken
      BY <1>4, <2>1 DEF Takes
    <2> HIDE DEF t
    <2>5. (i \in taken) = (i > 1 /\ raw[i - 1].tag = "declares" /\ ~(i - 1 \in taken))
      BY <2>4, SMT
    <2>6. CASE i > 1
      <3>1. t[i - 1] = (i - 1 \in taken)
        BY <2>3, <2>6, Zenon
      <3> QED  BY <2>2, <2>5, <3>1, Zenon
    <2>7. CASE ~(i > 1)
      <3>1. t[i] = FALSE
        BY <2>2, <2>5, <2>7, Zenon
      <3>2. (i > 1 /\ raw[i - 1].tag = "declares" /\ ~t[i - 1]) = FALSE
        BY <2>7, Zenon
      <3> QED  BY <3>1, <3>2, Zenon
    <2> QED  BY <2>6, <2>7
  <1>6. t = [i \in DOMAIN raw |-> i > 1 /\ raw[i - 1].tag = "declares" /\ ~t[i - 1]]
    <2> QED  BY <1>5, Zenon
  <1> HIDE DEF t
  <1> QED  BY <1>6 DEF IsTaken

LEMMA TakenIs ==
  ASSUME NEW raw \in Reply
  PROVE  /\ Taken(raw) \subseteq DOMAIN raw
         /\ \A i \in DOMAIN raw : i \in Taken(raw) <=> Takes(raw, i, Taken(raw))
  <1> DEFINE t == CHOOSE t : IsTaken(raw, t)
  <1>1. IsTaken(raw, t)
    BY TakenExists
  <1>2. Taken(raw) = {i \in DOMAIN raw : t[i]}
    BY DEF Taken, IsTaken
  <1> HIDE DEF t
  <1>3. ASSUME NEW i \in DOMAIN raw PROVE i \in Taken(raw) <=> Takes(raw, i, Taken(raw))
    <2>1. i > 1 => i - 1 \in DOMAIN raw
      BY ReplyDomain
    <2>2. t[i] = (i > 1 /\ raw[i - 1].tag = "declares" /\ ~t[i - 1])
      <3> DEFINE u == [k \in DOMAIN raw |-> k > 1 /\ raw[k - 1].tag = "declares" /\ ~t[k - 1]]
      <3>1. t = u
        BY <1>1 DEF IsTaken
      <3>2. u[i] = (i > 1 /\ raw[i - 1].tag = "declares" /\ ~t[i - 1])
        BY Zenon
      <3> HIDE DEF u
      <3>3. t[i] = u[i]
        BY <3>1
      <3> QED  BY <3>2, <3>3, Zenon
    <2>3. i \in Taken(raw) <=> t[i]
      BY <1>2, Zenon
    <2>4. i > 1 => (i - 1 \in Taken(raw) <=> t[i - 1])
      BY <1>2, <2>1, Zenon
    <2> QED  BY <2>2, <2>3, <2>4, Zenon DEF Takes
  <1> QED  BY <1>2, <1>3

\* A block is the content of one file at most.
LEMMA ContentsDiffer ==
  ASSUME NEW raw \in Reply, NEW i \in parseFileBlocks(raw), NEW j \in parseFileBlocks(raw)
  PROVE  /\ ContentOf(raw, i) \in Nat /\ ContentOf(raw, i) >= i
         /\ ContentOf(raw, i) = ContentOf(raw, j) => i = j
  <1>1. /\ i \in DOMAIN raw /\ i \notin Taken(raw) /\ i \in Nat /\ i >= 1 /\ i <= Len(raw)
        /\ j \in DOMAIN raw /\ j \notin Taken(raw) /\ j \in Nat /\ j >= 1 /\ j <= Len(raw)
        /\ Len(raw) \in Nat
    BY ReplyDomain DEF parseFileBlocks
  <1>2. ~Takes(raw, i, Taken(raw)) /\ ~Takes(raw, j, Taken(raw))
    BY <1>1, TakenIs
  <1>3. /\ ContentOf(raw, i) = i \/ (ContentOf(raw, i) = i + 1 /\ raw[i].tag = "declares")
        /\ ContentOf(raw, j) = j \/ (ContentOf(raw, j) = j + 1 /\ raw[j].tag = "declares")
    BY DEF ContentOf
  <1>4. ~(j = i + 1 /\ raw[i].tag = "declares") /\ ~(i = j + 1 /\ raw[j].tag = "declares")
    <2>1. j = i + 1 => j > 1 /\ j - 1 = i
      BY <1>1
    <2>2. i = j + 1 => i > 1 /\ i - 1 = j
      BY <1>1
    <2> QED  BY <1>1, <1>2, <2>1, <2>2 DEF Takes
  <1> QED  BY <1>1, <1>3, <1>4

\* What a reply writes, place by place.
LEMMA AcceptedIs ==
  ASSUME NEW raw \in Reply, NEW outputs, NEW w, NEW f, f = FilesAccepted(raw, outputs, w)
  PROVE  /\ f = [p \in DOMAIN f |-> f[p]]
         /\ \A i \in AcceptedBlocks(raw, outputs) : Location(raw[i].path) \in DOMAIN f
         /\ \A p \in DOMAIN f : \E i \in AcceptedBlocks(raw, outputs) :
              /\ Location(raw[i].path) = p
              /\ f[p] = [by |-> w, round |-> stageRound, block |-> ContentOf(raw, i)]
              /\ \A j \in AcceptedBlocks(raw, outputs) : Location(raw[j].path) = p => j <= i
  <1> DEFINE blocks == AcceptedBlocks(raw, outputs)
             writing(p) == {i \in blocks : Location(raw[i].path) = p}
  <1>1. f = [p \in {Location(raw[i].path) : i \in blocks} |->
               [by |-> w, round |-> stageRound, block |-> ContentOf(raw, Max(writing(p)))]]
    BY DEF FilesAccepted
  <1>2. blocks \subseteq 1 .. Len(raw) /\ Len(raw) \in Nat
    BY ReplyDomain DEF AcceptedBlocks, parseFileBlocks
  <1>3. ASSUME NEW p \in DOMAIN f
        PROVE  Max(writing(p)) \in writing(p) /\ \A j \in writing(p) : j <= Max(writing(p))
    <2>1. writing(p) # {} /\ writing(p) \in SUBSET (1 .. Len(raw))
      BY <1>1, <1>2
    <2> HIDE DEF writing
    <2> QED  BY <1>2, <2>1, LastOfSome
  <1>4. ASSUME NEW p \in DOMAIN f
        PROVE  \E i \in blocks :
                 /\ Location(raw[i].path) = p
                 /\ f[p] = [by |-> w, round |-> stageRound, block |-> ContentOf(raw, i)]
                 /\ \A j \in blocks : Location(raw[j].path) = p => j <= i
    <2>1. f[p] = [by |-> w, round |-> stageRound, block |-> ContentOf(raw, Max(writing(p)))]
      BY <1>1
    <2>2. \A j \in blocks : Location(raw[j].path) = p => j <= Max(writing(p))
      BY <1>3
    <2>3. Max(writing(p)) \in blocks /\ Location(raw[Max(writing(p))].path) = p
      BY <1>3
    <2> QED  BY <2>1, <2>2, <2>3
  <1>5. \A i \in blocks : Location(raw[i].path) \in DOMAIN f
    BY <1>1
  <1>6. f = [p \in DOMAIN f |-> f[p]]
    BY <1>1
  <1> QED  BY <1>4, <1>5, <1>6

-----------------------------------------------------------------------------
(* Inside a run: the steps.                                                *)

RoundOf(w) == IF w = "code" THEN stageRound ELSE 1

Given(w, p) == sandbox[w][p] = Source /\ Below(p, stagePlan.reads[w])

WrittenBy(w, p) == sandbox[w][p].by = w /\ sandbox[w][p].round = RoundOf(w)

StageShape ==
  /\ stagePlan \in StagePlans
  /\ stageRound \in 1 .. MaxStageRounds
  /\ stageAt \in [StageWriters ->
       {"refused", "open", "call", "correct", "write", "collect", "threw", "done", "verified"}]
  /\ transcript \in [StageWriters -> Reply]
  /\ sandbox = [w \in StageWriters |-> sandbox[w]]
  /\ artifact = [w \in StageWriters |-> artifact[w]]
  /\ manifest = [w \in StageWriters |-> manifest[w]]

\* The tests are written in the first round, before any verification.
OrderInv ==
  /\ stageAt["tests"] # "verified"
  /\ stageAt["code"] = "verified" \/ stageRound # 1 => stageAt["tests"] = "done"

SandboxOf(w) ==
  /\ sandbox[w] = [p \in DOMAIN sandbox[w] |-> sandbox[w][p]]
  /\ DOMAIN sandbox[w] \subseteq Path
  /\ \A p \in DOMAIN sandbox[w] : sandbox[w][p].by \in {"source", w}
  /\ stageAt[w] \in {"call", "correct", "write"} => \A p \in DOMAIN sandbox[w] : Given(w, p)
  /\ stageAt[w] = "collect" => \A p \in DOMAIN sandbox[w] : Given(w, p) \/ WrittenBy(w, p)

BlocksOf(w) ==
  stageAt[w] = "collect" /\ stagePlan.kind[w] = "single-shot" =>
    LET raw == transcript[w]
        Written(i) == {p \in DOMAIN sandbox[w] : sandbox[w][p].by = w /\ sandbox[w][p].block = i}
    IN \A i \in DOMAIN raw :
         /\ Cardinality(Written(i)) <= 1
         /\ raw[i].tag = "info" /\ AcceptsWrite(raw[i].path, stagePlan.outputs[w]) =>
              \/ Written(i) = {Location(raw[i].path)}
              \/ i > 1 /\ raw[i - 1].tag = "declares"
              \/ sandbox[w][Location(raw[i].path)].block > i

ArtifactOf(w) ==
  /\ artifact[w] = [p \in manifest[w] |-> artifact[w][p]]
  /\ \A p \in manifest[w] : p \in Path /\ Below(p, stagePlan.outputs[w])
  /\ stageAt[w] \in {"done", "verified"} =>
       \A p \in manifest[w] :
         \/ artifact[w][p].by = w /\ artifact[w][p].round = RoundOf(w)
         \/ artifact[w][p] = Source /\ Overlap(stagePlan.reads[w], stagePlan.outputs[w])

SuiteInv ==
  LET apart == ~Overlap(stagePlan.outputs["code"], stagePlan.outputs["tests"])
  IN
  /\ (stageAt["code"] = "verified" \/ stageRound # 1) /\ apart => suite = artifact["tests"]
  /\ mergedTree # NoFiles =>
       /\ stageAt["code"] = "verified" \/ stageRound # 1
       /\ apart => TestsIn(mergedTree) = artifact["tests"]

StageInv ==
  /\ StageShape /\ OrderInv /\ SuiteInv
  /\ \A w \in StageWriters : SandboxOf(w) /\ BlocksOf(w) /\ ArtifactOf(w)

LEMMA StrictStageAssumption ==
  /\ MaxStageRounds \in Nat \ {0}
  /\ \A plan \in StagePlans, w \in StageWriters :
       plan.reads[w] \subseteq Path /\ plan.outputs[w] \subseteq Path
  /\ SourceTree \subseteq Path /\ AgentFiles \subseteq Path
  /\ WriterReplies \subseteq Reply
  <1>1. Seq(STRING) \subseteq Path
    BY DEF Path, Part
  <1>2. [tag : STRING, path : Seq(STRING)] \subseteq Block
    BY <1>1 DEF Block
  <1>3. Seq([tag : STRING, path : Seq(STRING)]) \subseteq Reply
    <2> DEFINE B == [tag : STRING, path : Seq(STRING)]
    <2>1. B \subseteq Block
      BY <1>2
    <2> HIDE DEF B
    <2>2. Seq(B) \subseteq Seq(Block)
      BY <2>1, SeqMonotonic
    <2> QED  BY <2>2 DEF Reply, B
  <1> QED  BY <1>1, <1>3, StageAssumption

LEMMA StageInvInit == ASSUME StageInit, stagePlan \in StagePlans PROVE StageInv
  <1>1. DOMAIN NoFiles = {}
    BY DEF NoFiles
  <1>2. <<>> \in Reply
    BY DEF Reply
  <1>3. StageShape
    BY <1>2, StrictStageAssumption DEF StageInit, StageShape
  <1>4. ASSUME NEW w \in StageWriters
        PROVE  /\ sandbox[w] = NoFiles /\ artifact[w] = NoFiles /\ manifest[w] = {}
               /\ stageAt[w] \in {"open", "refused"}
    BY <1>4 DEF StageInit
  <1>5. ASSUME NEW w \in StageWriters PROVE SandboxOf(w) /\ BlocksOf(w) /\ ArtifactOf(w)
    <2>1. NoFiles = [p \in {} |-> NoFiles[p]]
      BY DEF NoFiles
    <2> QED  BY <1>1, <1>4, <2>1 DEF SandboxOf, BlocksOf, ArtifactOf
  <1>6. OrderInv /\ SuiteInv
    BY <1>4 DEF StageInit, OrderInv, SuiteInv, StageWriters
  <1> QED  BY <1>3, <1>5, <1>6 DEF StageInv

LEMMA Undisturbed ==
  ASSUME StageInv, NEW w \in StageWriters, stagePlan' = stagePlan, RoundOf(w)' = RoundOf(w),
         stageAt'[w] = stageAt[w], transcript'[w] = transcript[w], sandbox'[w] = sandbox[w],
         artifact'[w] = artifact[w], manifest'[w] = manifest[w]
  PROVE  SandboxOf(w)' /\ BlocksOf(w)' /\ ArtifactOf(w)'
  <1>1. SandboxOf(w) /\ BlocksOf(w) /\ ArtifactOf(w)
    BY DEF StageInv
  <1>2. SandboxOf(w)'
    BY <1>1 DEF SandboxOf, Given, WrittenBy
  <1>3. BlocksOf(w)'
    BY <1>1 DEF BlocksOf
  <1>4. ArtifactOf(w)'
    BY <1>1 DEF ArtifactOf
  <1> QED  BY <1>2, <1>3, <1>4

Working == {"open", "call", "correct", "write", "collect"}

\* What a step of one writer leaves alone.
LEMMA OtherKept ==
  ASSUME StageInv, NEW w \in StageWriters, NEW x, x \notin {"verified"},
         stageAt[w] \in Working, stageAt' = [stageAt EXCEPT ![w] = x],
         UNCHANGED <<stagePlan, stageRound, mergedTree, suite>>,
         \A v \in StageWriters \ {w} :
           /\ transcript'[v] = transcript[v] /\ sandbox'[v] = sandbox[v]
           /\ artifact'[v] = artifact[v] /\ manifest'[v] = manifest[v]
  PROVE  /\ OrderInv' /\ SuiteInv' /\ stageAt'[w] = x
         /\ \A v \in StageWriters \ {w} : SandboxOf(v)' /\ BlocksOf(v)' /\ ArtifactOf(v)'
  <1>1. /\ \A v \in StageWriters \ {w} : stageAt'[v] = stageAt[v]
        /\ stageAt'[w] = x
        /\ stageAt[w] \notin {"done", "verified"}
    BY DEF StageInv, StageShape, Working
  <1>2. ASSUME NEW v \in StageWriters \ {w} PROVE SandboxOf(v)' /\ BlocksOf(v)' /\ ArtifactOf(v)'
    <2>1. RoundOf(v)' = RoundOf(v)
      BY DEF RoundOf
    <2> QED  BY <1>1, <2>1, Undisturbed
  <1>3. OrderInv /\ SuiteInv
    BY DEF StageInv
  <1>4. CASE w = "tests"
    <2>1. stageAt'["code"] = stageAt["code"] /\ stageAt'["tests"] = x
      BY <1>1, <1>4 DEF StageWriters
    <2>2. stageAt["code"] # "verified" /\ stageRound = 1 /\ mergedTree = NoFiles
      BY <1>1, <1>3, <1>4 DEF OrderInv, SuiteInv
    <2>3. OrderInv' /\ SuiteInv'
      BY <2>1, <2>2 DEF OrderInv, SuiteInv
    <2> QED  BY <1>1, <1>2, <2>3
  <1>5. CASE w = "code"
    <2>1. /\ stageAt'["tests"] = stageAt["tests"] /\ artifact'["tests"] = artifact["tests"]
          /\ stageAt'["code"] # "verified" /\ stageAt["code"] # "verified"
      BY <1>1, <1>5 DEF StageWriters
    <2>2. OrderInv'
      BY <1>3, <2>1 DEF OrderInv
    <2>3. SuiteInv'
      BY <1>3, <2>1 DEF SuiteInv, TestsIn
    <2> QED  BY <1>1, <1>2, <2>2, <2>3
  <1> QED  BY <1>4, <1>5 DEF StageWriters

LEMMA OpenSandboxKeeps ==
  ASSUME StageInv, NEW w \in StageWriters, OpenSandbox(w) PROVE StageInv'
  <1>1. /\ stageAt[w] \in Working /\ stageAt' = [stageAt EXCEPT ![w] = "call"]
        /\ UNCHANGED <<stagePlan, stageRound, mergedTree, suite, artifact, manifest>>
        /\ StageShape
    BY DEF OpenSandbox, Working, StageInv
  <1>2. /\ \A v \in StageWriters \ {w} : transcript'[v] = transcript[v] /\ sandbox'[v] = sandbox[v]
        /\ sandbox'[w] = [p \in {q \in SourceTree : Below(q, stagePlan.reads[w])} |-> Source]
    BY <1>1 DEF OpenSandbox, StageShape
  <1>3. /\ OrderInv' /\ SuiteInv' /\ stageAt'[w] = "call"
        /\ \A v \in StageWriters \ {w} : SandboxOf(v)' /\ BlocksOf(v)' /\ ArtifactOf(v)'
    <2>1. "call" \notin {"verified"}
      OBVIOUS
    <2> QED  BY <1>1, <1>2, <2>1, OtherKept
  <1>4. SandboxOf(w)'
    BY <1>1, <1>2, <1>3, StrictStageAssumption DEF SandboxOf, Given, Source
  <1>5. BlocksOf(w)' /\ ArtifactOf(w)'
    <2>1. ArtifactOf(w)
      BY DEF StageInv
    <2> QED  BY <1>1, <1>3, <2>1 DEF BlocksOf, ArtifactOf
  <1>6. StageShape'
    <2>1. <<>> \in Reply
      BY DEF Reply
    <2> QED  BY <1>1, <2>1 DEF StageShape, OpenSandbox
  <1> QED  BY <1>3, <1>4, <1>5, <1>6 DEF StageInv

LEMMA ModelRepliesKeeps ==
  ASSUME StageInv, NEW w \in StageWriters, NEW reply \in WriterReplies, ModelReplies(w, reply)
  PROVE  StageInv'
  <1>1. PICK x \in {"correct", "write"} : stageAt' = [stageAt EXCEPT ![w] = x]
    BY DEF ModelReplies
  <1>2. /\ stageAt[w] \in {"call", "correct"}
        /\ UNCHANGED <<stagePlan, stageRound, mergedTree, suite, sandbox, artifact, manifest>>
        /\ StageShape
    BY DEF ModelReplies, StageInv
  <1>3. \A v \in StageWriters \ {w} : transcript'[v] = transcript[v]
    BY <1>2 DEF ModelReplies, StageShape
  <1>4. /\ OrderInv' /\ SuiteInv' /\ stageAt'[w] = x
        /\ \A v \in StageWriters \ {w} : SandboxOf(v)' /\ BlocksOf(v)' /\ ArtifactOf(v)'
    <2>1. stageAt[w] \in Working /\ x \notin {"verified"}
      BY <1>2 DEF Working
    <2> QED  BY <1>1, <1>2, <1>3, <2>1, OtherKept
  <1>5. SandboxOf(w) /\ ArtifactOf(w)
    BY DEF StageInv
  <1>6. SandboxOf(w)'
    BY <1>2, <1>4, <1>5 DEF SandboxOf, Given
  <1>7. BlocksOf(w)' /\ ArtifactOf(w)'
    BY <1>2, <1>4, <1>5 DEF BlocksOf, ArtifactOf
  <1>8. StageShape'
    <2>1. transcript[w] \o reply \in Reply
      BY <1>2, StrictStageAssumption, ConcatProperties DEF StageShape, Reply
    <2>2. transcript' \in [StageWriters -> Reply]
      BY <1>2, <2>1 DEF StageShape, ModelReplies
    <2>3. stageAt' \in [StageWriters ->
            {"refused", "open", "call", "correct", "write", "collect", "threw", "done", "verified"}]
      BY <1>1, <1>2 DEF StageShape
    <2> QED  BY <1>2, <2>2, <2>3 DEF StageShape
  <1> QED  BY <1>4, <1>6, <1>7, <1>8 DEF StageInv

LEMMA ExecutorFailsKeeps ==
  ASSUME StageInv, NEW w \in StageWriters, ExecutorFails(w) PROVE StageInv'
  <1>1. /\ stageAt[w] \in Working /\ stageAt' = [stageAt EXCEPT ![w] = "threw"]
        /\ UNCHANGED <<stagePlan, stageRound, mergedTree, suite, transcript, sandbox, artifact, manifest>>
        /\ StageShape
    BY DEF ExecutorFails, Working, StageInv
  <1>2. /\ OrderInv' /\ SuiteInv' /\ stageAt'[w] = "threw"
        /\ \A v \in StageWriters \ {w} : SandboxOf(v)' /\ BlocksOf(v)' /\ ArtifactOf(v)'
    <2>1. "threw" \notin {"verified"}
      OBVIOUS
    <2> QED  BY <1>1, <2>1, OtherKept
  <1>3. SandboxOf(w) /\ ArtifactOf(w)
    BY DEF StageInv
  <1>4. SandboxOf(w)' /\ BlocksOf(w)' /\ ArtifactOf(w)'
    BY <1>1, <1>2, <1>3 DEF SandboxOf, BlocksOf, ArtifactOf
  <1>5. StageShape'
    BY <1>1 DEF StageShape
  <1> QED  BY <1>2, <1>4, <1>5 DEF StageInv

LEMMA AgentWritesKeeps ==
  ASSUME StageInv, NEW w \in StageWriters, NEW places \in SUBSET AgentFiles, AgentWrites(w, places)
  PROVE  StageInv'
  <1> DEFINE new == [p \in places |-> [by |-> w, round |-> stageRound, block |-> 0]]
  <1>1. /\ stageAt[w] = "call" /\ stageAt' = [stageAt EXCEPT ![w] = "collect"]
        /\ stagePlan.kind[w] = "agent"
        /\ UNCHANGED <<stagePlan, stageRound, mergedTree, suite, transcript, artifact, manifest>>
        /\ StageShape /\ SandboxOf(w) /\ ArtifactOf(w) /\ OrderInv
    BY DEF AgentWrites, StageInv
  <1>2. /\ \A v \in StageWriters \ {w} : sandbox'[v] = sandbox[v]
        /\ sandbox'[w] = Over(new, sandbox[w])
    BY <1>1 DEF AgentWrites, StageShape
  <1>3. /\ OrderInv' /\ SuiteInv' /\ stageAt'[w] = "collect"
        /\ \A v \in StageWriters \ {w} : SandboxOf(v)' /\ BlocksOf(v)' /\ ArtifactOf(v)'
    <2>1. stageAt[w] \in Working /\ "collect" \notin {"verified"}
      BY <1>1 DEF Working
    <2> QED  BY <1>1, <1>2, <2>1, OtherKept
  <1>4. /\ sandbox'[w] = [p \in places \cup DOMAIN sandbox[w] |->
                            IF p \in places THEN new[p] ELSE sandbox[w][p]]
        /\ \A p \in places : new[p] = [by |-> w, round |-> stageRound, block |-> 0]
    <2>1. DOMAIN new = places /\ \A p \in places : new[p] = [by |-> w, round |-> stageRound, block |-> 0]
      OBVIOUS
    <2> HIDE DEF new
    <2>2. Over(new, sandbox[w]) = [p \in (DOMAIN new) \cup DOMAIN sandbox[w] |->
                                 IF p \in DOMAIN new THEN new[p] ELSE sandbox[w][p]]
      BY DEF Over
    <2> QED  BY <1>2, <2>1, <2>2
  <1>5. RoundOf(w) = stageRound
    BY <1>1 DEF RoundOf, OrderInv, StageWriters
  <1>6. SandboxOf(w)'
    <2>1. places \subseteq Path
      BY StrictStageAssumption
    <2>2. ASSUME NEW p \in DOMAIN sandbox'[w]
          PROVE  Given(w, p)' \/ WrittenBy(w, p)'
      <3>1. CASE p \in places
        BY <1>1, <1>4, <1>5, <3>1 DEF WrittenBy, RoundOf
      <3>2. CASE p \notin places
        BY <1>1, <1>4, <3>2 DEF SandboxOf, Given
      <3> QED  BY <3>1, <3>2
    <2> HIDE DEF new
    <2>3. \A p \in DOMAIN sandbox'[w] : sandbox'[w][p].by \in {"source", w}
      BY <2>2 DEF Given, WrittenBy, Source
    <2>4. /\ sandbox'[w] = [p \in DOMAIN sandbox'[w] |-> sandbox'[w][p]]
          /\ DOMAIN sandbox'[w] \subseteq Path
      BY <1>1, <1>4, <2>1 DEF SandboxOf
    <2> QED  BY <1>3, <2>2, <2>3, <2>4 DEF SandboxOf
  <1>7. BlocksOf(w)' /\ ArtifactOf(w)'
    BY <1>1, <1>3 DEF BlocksOf, ArtifactOf
  <1>8. StageShape'
    BY <1>1 DEF StageShape, AgentWrites
  <1> QED  BY <1>3, <1>6, <1>7, <1>8 DEF StageInv

LEMMA AtMostOne ==
  ASSUME NEW S, \A x \in S, y \in S : x = y PROVE Cardinality(S) <= 1
  <1>1. CASE S = {}
    BY <1>1, FS_EmptySet
  <1>2. CASE S # {}
    <2>1. PICK x \in S : TRUE
      BY <1>2
    <2>2. S = {x}
      BY <2>1
    <2>3. Cardinality({x}) = 1
      BY FS_Singleton
    <2> QED  BY <2>2, <2>3
  <1> QED  BY <1>1, <1>2

\* The blocks of a reply, written over what a writer was given.
LEMMA BlocksWritten ==
  ASSUME NEW w \in StageWriters, NEW raw \in Reply, NEW outputs, NEW held, NEW tree,
         \A p \in DOMAIN held : held[p].by = "source",
         tree = Over(FilesAccepted(raw, outputs, w), held)
  PROVE  \A i \in DOMAIN raw :
           LET Written == {p \in DOMAIN tree : tree[p].by = w /\ tree[p].block = i}
           IN /\ Cardinality(Written) <= 1
              /\ raw[i].tag = "info" /\ AcceptsWrite(raw[i].path, outputs) =>
                   \/ Written = {Location(raw[i].path)}
                   \/ i > 1 /\ raw[i - 1].tag = "declares"
                   \/ tree[Location(raw[i].path)].block > i
  <1> DEFINE blocks == AcceptedBlocks(raw, outputs)
             f == FilesAccepted(raw, outputs, w)
             Writes(p, i) == /\ Location(raw[i].path) = p
                             /\ f[p] = [by |-> w, round |-> stageRound, block |-> ContentOf(raw, i)]
                             /\ \A j \in blocks : Location(raw[j].path) = p => j <= i
             Written(i) == {p \in DOMAIN tree : tree[p].by = w /\ tree[p].block = i}
  <1>1. /\ \A i \in blocks : Location(raw[i].path) \in DOMAIN f
        /\ \A p \in DOMAIN f : \E i \in blocks : Writes(p, i)
    BY AcceptedIs
  <1>2. /\ DOMAIN tree = DOMAIN f \cup DOMAIN held
        /\ \A p \in DOMAIN tree : tree[p] = IF p \in DOMAIN f THEN f[p] ELSE held[p]
    BY DEF Over
  <1>3. \A i \in blocks : i \in parseFileBlocks(raw) /\ i \in DOMAIN raw /\ i \in Nat
    BY ReplyDomain DEF AcceptedBlocks, parseFileBlocks
  <1> HIDE DEF f, blocks
  <1>4. ASSUME NEW i, NEW p \in Written(i)
        PROVE  \E j \in blocks : Writes(p, j) /\ ContentOf(raw, j) = i
    <2>1. p \in DOMAIN f
      BY <1>2 DEF StageWriters
    <2>2. PICK j \in blocks : Writes(p, j)
      BY <1>1, <2>1
    <2>3. f[p].block = i
      BY <1>2, <2>1
    <2> QED  BY <2>2, <2>3
  <1>5. ASSUME NEW i, NEW p \in Written(i), NEW q \in Written(i) PROVE p = q
    <2>1. PICK j \in blocks : Writes(p, j) /\ ContentOf(raw, j) = i
      BY <1>4
    <2>2. PICK k \in blocks : Writes(q, k) /\ ContentOf(raw, k) = i
      BY <1>4
    <2>3. j = k
      BY <1>3, <2>1, <2>2, ContentsDiffer
    <2> QED  BY <2>1, <2>2, <2>3
  <1>6. ASSUME NEW i \in DOMAIN raw, raw[i].tag = "info", AcceptsWrite(raw[i].path, outputs),
               ~(i > 1 /\ raw[i - 1].tag = "declares")
        PROVE  \/ Written(i) = {Location(raw[i].path)}
               \/ tree[Location(raw[i].path)].block > i
    <2> DEFINE p == Location(raw[i].path)
    <2>1. i \in parseFileBlocks(raw) /\ i \in blocks
      <3>1. i \notin Taken(raw)
        BY <1>6, TakenIs DEF Takes
      <3> QED  BY <1>6, <3>1 DEF parseFileBlocks, AcceptedBlocks, blocks
    <2>2. p \in DOMAIN f
      BY <1>1, <2>1
    <2>3. PICK j \in blocks : Writes(p, j)
      BY <1>1, <2>2
    <2>4. i <= j /\ i \in Nat /\ j \in Nat /\ j \in parseFileBlocks(raw)
      BY <1>3, <2>1, <2>3
    <2>5. p \in DOMAIN tree /\ tree[p].by = w /\ tree[p].block = ContentOf(raw, j)
      BY <1>2, <2>2, <2>3
    <2>6. CASE i = j
      <3>1. ContentOf(raw, j) = i
        BY <1>6, <2>6 DEF ContentOf
      <3>2. p \in Written(i)
        BY <2>5, <3>1
      <3>3. Written(i) = {p}
        <4> HIDE DEF Written, p
        <4> QED  BY <1>5, <3>2
      <3> QED  BY <3>3
    <2>7. CASE i # j
      <3>1. ContentOf(raw, j) \in Nat /\ ContentOf(raw, j) >= j
        BY <2>4, ContentsDiffer
      <3> QED  BY <2>4, <2>5, <2>7, <3>1
    <2> QED  BY <2>6, <2>7
  <1>7. ASSUME NEW i \in DOMAIN raw PROVE Cardinality(Written(i)) <= 1
    <2> HIDE DEF Written
    <2> QED  BY <1>5, AtMostOne
  <1> QED  BY <1>6, <1>7

LEMMA WriteAcceptedKeeps ==
  ASSUME StageInv, NEW w \in StageWriters, WriteAccepted(w) PROVE StageInv'
  <1> DEFINE raw == transcript[w]
             outputs == stagePlan.outputs[w]
             f == FilesAccepted(raw, outputs, w)
  <1>1. /\ stageAt[w] = "write" /\ stageAt' = [stageAt EXCEPT ![w] = "collect"]
        /\ UNCHANGED <<stagePlan, stageRound, mergedTree, suite, transcript, artifact, manifest>>
        /\ StageShape /\ SandboxOf(w) /\ ArtifactOf(w) /\ OrderInv /\ raw \in Reply
    BY DEF WriteAccepted, StageInv, StageShape
  <1>2. /\ \A v \in StageWriters \ {w} : sandbox'[v] = sandbox[v]
        /\ sandbox'[w] = Over(f, sandbox[w])
    BY <1>1 DEF WriteAccepted, StageShape
  <1>3. /\ OrderInv' /\ SuiteInv' /\ stageAt'[w] = "collect"
        /\ \A v \in StageWriters \ {w} : SandboxOf(v)' /\ BlocksOf(v)' /\ ArtifactOf(v)'
    <2>1. stageAt[w] \in Working /\ "collect" \notin {"verified"}
      BY <1>1 DEF Working
    <2> QED  BY <1>1, <1>2, <2>1, OtherKept
  <1>4. \A p \in DOMAIN sandbox[w] : Given(w, p) /\ sandbox[w][p].by = "source"
    BY <1>1 DEF SandboxOf, Given, Source
  <1>5. BlocksOf(w)'
    <2> HIDE DEF f
    <2>1. \A i \in DOMAIN raw :
            LET Written == {p \in DOMAIN sandbox'[w] : sandbox'[w][p].by = w /\ sandbox'[w][p].block = i}
            IN /\ Cardinality(Written) <= 1
               /\ raw[i].tag = "info" /\ AcceptsWrite(raw[i].path, outputs) =>
                    \/ Written = {Location(raw[i].path)}
                    \/ i > 1 /\ raw[i - 1].tag = "declares"
                    \/ sandbox'[w][Location(raw[i].path)].block > i
      <3>1. PICK tree : tree = sandbox'[w]
        OBVIOUS
      <3>2. PICK held : held = sandbox[w]
        OBVIOUS
      <3>3. \A p \in DOMAIN held : held[p].by = "source"
        BY <1>4, <3>2
      <3>4. tree = Over(FilesAccepted(raw, outputs, w), held)
        BY <1>2, <3>1, <3>2 DEF f
      <3> HIDE DEF raw, outputs
      <3>5. \A i \in DOMAIN raw :
              LET Written == {p \in DOMAIN tree : tree[p].by = w /\ tree[p].block = i}
              IN /\ Cardinality(Written) <= 1
                 /\ raw[i].tag = "info" /\ AcceptsWrite(raw[i].path, outputs) =>
                      \/ Written = {Location(raw[i].path)}
                      \/ i > 1 /\ raw[i - 1].tag = "declares"
                      \/ tree[Location(raw[i].path)].block > i
        BY <1>1, <3>3, <3>4, BlocksWritten
      <3> QED  BY <3>1, <3>5
    <2> QED  BY <1>1, <2>1 DEF BlocksOf
  <1>6. RoundOf(w) = stageRound
    BY <1>1 DEF RoundOf, OrderInv, StageWriters
  <1>7. /\ DOMAIN f \subseteq Path
        /\ \A p \in DOMAIN f : f[p].by = w /\ f[p].round = stageRound
    <2> HIDE DEF f
    <2>1. \A p \in DOMAIN f : \E i \in AcceptedBlocks(raw, outputs) :
            /\ Location(raw[i].path) = p
            /\ f[p] = [by |-> w, round |-> stageRound, block |-> ContentOf(raw, i)]
      BY <1>1, AcceptedIs DEF f
    <2>2. \A i \in AcceptedBlocks(raw, outputs) : raw[i].path \in Path
      BY <1>1, ReplyDomain DEF AcceptedBlocks, parseFileBlocks
    <2> QED  BY <2>1, <2>2, LocationType
  <1>8. SandboxOf(w)'
    <2> HIDE DEF f
    <2>1. /\ DOMAIN sandbox'[w] = DOMAIN f \cup DOMAIN sandbox[w]
          /\ sandbox'[w] = [p \in DOMAIN f \cup DOMAIN sandbox[w] |->
                              IF p \in DOMAIN f THEN f[p] ELSE sandbox[w][p]]
      BY <1>2 DEF Over
    <2>2. ASSUME NEW p \in DOMAIN sandbox'[w] PROVE Given(w, p)' \/ WrittenBy(w, p)'
      <3>1. CASE p \in DOMAIN f
        BY <1>1, <1>6, <1>7, <2>1, <3>1 DEF WrittenBy, RoundOf
      <3>2. CASE p \notin DOMAIN f
        BY <1>1, <1>4, <2>1, <3>2 DEF Given
      <3> QED  BY <3>1, <3>2
    <2>3. \A p \in DOMAIN sandbox'[w] : sandbox'[w][p].by \in {"source", w}
      BY <2>2 DEF Given, WrittenBy, Source
    <2>4. sandbox'[w] = [p \in DOMAIN sandbox'[w] |-> sandbox'[w][p]]
      BY <2>1
    <2>5. DOMAIN sandbox'[w] \subseteq Path
      BY <1>1, <1>7, <2>1 DEF SandboxOf
    <2> QED  BY <1>3, <2>2, <2>3, <2>4, <2>5 DEF SandboxOf
  <1>9. ArtifactOf(w)'
    BY <1>1, <1>3 DEF ArtifactOf
  <1>10. StageShape'
    BY <1>1 DEF StageShape, WriteAccepted
  <1> QED  BY <1>3, <1>5, <1>8, <1>9, <1>10 DEF StageInv

LEMMA CollectOutputsKeeps ==
  ASSUME StageInv, NEW w \in StageWriters, CollectOutputs(w) PROVE StageInv'
  <1> DEFINE outputs == stagePlan.outputs[w]
             collected == FilesBelow(sandbox[w], outputs)
  <1>1. /\ stageAt[w] = "collect"
        /\ UNCHANGED <<stagePlan, stageRound, mergedTree, suite, transcript, sandbox>>
        /\ StageShape /\ SandboxOf(w) /\ ArtifactOf(w) /\ OrderInv
    BY DEF CollectOutputs, StageInv
  <1>2. stageAt[w] \in Working
    BY <1>1 DEF Working
  <1>3. SandboxOf(w)' /\ BlocksOf(w)' /\ OrderInv' /\ SuiteInv' /\ ArtifactOf(w)' /\ StageShape'
        /\ \A v \in StageWriters \ {w} : SandboxOf(v)' /\ BlocksOf(v)' /\ ArtifactOf(v)'
    <2>1. CASE collected = NoFiles
      <3>1. stageAt' = [stageAt EXCEPT ![w] = "threw"] /\ UNCHANGED <<artifact, manifest>>
        BY <2>1 DEF CollectOutputs
      <3>2. /\ OrderInv' /\ SuiteInv' /\ stageAt'[w] = "threw"
            /\ \A v \in StageWriters \ {w} : SandboxOf(v)' /\ BlocksOf(v)' /\ ArtifactOf(v)'
        <4>1. "threw" \notin {"verified"}
          OBVIOUS
        <4> QED  BY <1>1, <1>2, <3>1, <4>1, OtherKept
      <3>3. SandboxOf(w)' /\ BlocksOf(w)' /\ ArtifactOf(w)'
        BY <1>1, <3>1, <3>2 DEF SandboxOf, BlocksOf, ArtifactOf
      <3>4. StageShape'
        BY <1>1, <3>1 DEF StageShape
      <3> QED  BY <3>2, <3>3, <3>4
    <2>2. CASE collected # NoFiles
      <3>1. /\ stageAt' = [stageAt EXCEPT ![w] = "done"]
            /\ artifact' = [artifact EXCEPT ![w] = Replaced(@, collected, outputs)]
            /\ manifest' = [manifest EXCEPT ![w] = DOMAIN collected]
        BY <2>2 DEF CollectOutputs
      <3>2. /\ artifact'[w] = Replaced(artifact[w], collected, outputs)
            /\ manifest'[w] = DOMAIN collected
            /\ \A v \in StageWriters \ {w} : artifact'[v] = artifact[v] /\ manifest'[v] = manifest[v]
        BY <1>1, <3>1 DEF StageShape
      <3>3. /\ OrderInv' /\ SuiteInv' /\ stageAt'[w] = "done"
            /\ \A v \in StageWriters \ {w} : SandboxOf(v)' /\ BlocksOf(v)' /\ ArtifactOf(v)'
        <4>1. "done" \notin {"verified"}
          OBVIOUS
        <4> QED  BY <1>1, <1>2, <3>1, <3>2, <4>1, OtherKept
      <3>4. SandboxOf(w)' /\ BlocksOf(w)'
        BY <1>1, <3>3 DEF SandboxOf, BlocksOf
      <3>5. /\ DOMAIN collected = {q \in DOMAIN sandbox[w] : Below(q, outputs)}
            /\ \A p \in DOMAIN collected : collected[p] = sandbox[w][p]
        BY DEF FilesBelow
      <3>6. artifact'[w] = [p \in DOMAIN collected |-> collected[p]]
        <4>1. DOMAIN FilesBeside(artifact[w], outputs) = {}
          BY <1>1 DEF ArtifactOf, FilesBeside
        <4> HIDE DEF collected
        <4> QED  BY <3>2, <4>1 DEF Replaced, Over
      <3>7. ArtifactOf(w)'
        <4>1. ASSUME NEW p \in manifest'[w]
              PROVE  /\ p \in Path /\ Below(p, outputs)
                     /\ \/ artifact'[w][p].by = w /\ artifact'[w][p].round = RoundOf(w)
                        \/ artifact'[w][p] = Source /\ Overlap(stagePlan.reads[w], outputs)
          <5>1. /\ p \in DOMAIN sandbox[w] /\ p \in Path /\ Below(p, outputs)
                /\ artifact'[w][p] = sandbox[w][p]
            BY <1>1, <3>2, <3>5, <3>6 DEF SandboxOf
          <5>2. CASE Given(w, p)
            <6>1. stagePlan.reads[w] \in SUBSET Path /\ outputs \in SUBSET Path
              BY <1>1, StrictStageAssumption DEF StageShape
            <6>2. Overlap(stagePlan.reads[w], outputs)
              BY <5>1, <5>2, <6>1, BelowBoth DEF Given
            <6> QED  BY <5>1, <5>2, <6>2 DEF Given
          <5>3. CASE WrittenBy(w, p)
            BY <5>1, <5>3 DEF WrittenBy
          <5> QED  BY <1>1, <5>1, <5>2, <5>3 DEF SandboxOf
        <4>2. artifact'[w] = [p \in manifest'[w] |-> artifact'[w][p]]
          BY <3>2, <3>6
        <4> HIDE DEF collected
        <4> QED  BY <1>1, <4>1, <4>2 DEF ArtifactOf, RoundOf
      <3>8. StageShape'
        BY <1>1, <3>1 DEF StageShape
      <3> QED  BY <3>3, <3>4, <3>7, <3>8
    <2> QED  BY <2>1, <2>2
  <1> QED  BY <1>3 DEF StageInv

LEMMA MergeAndVerifyKeeps == ASSUME StageInv, MergeAndVerify PROVE StageInv'
  <1>1. /\ stageAt["code"] = "done" /\ stageAt["tests"] = "done"
        /\ mergedTree' = Over(artifact["tests"], artifact["code"])
        /\ suite' = IF stageRound = 1 THEN TestsIn(Over(artifact["tests"], artifact["code"])) ELSE suite
        /\ stageAt' = [stageAt EXCEPT !["code"] = "verified"]
        /\ UNCHANGED <<stagePlan, stageRound, transcript, sandbox, artifact, manifest>>
        /\ StageShape /\ SuiteInv /\ OrderInv
    BY DEF MergeAndVerify, StageWriters, StageInv
  <1>2. stageAt'["code"] = "verified" /\ stageAt'["tests"] = "done"
    BY <1>1 DEF StageShape, StageWriters
  <1>3. ASSUME NEW w \in StageWriters PROVE SandboxOf(w)' /\ BlocksOf(w)' /\ ArtifactOf(w)'
    <2>1. SandboxOf(w) /\ BlocksOf(w) /\ ArtifactOf(w) /\ stageAt[w] = "done"
          /\ stageAt'[w] \in {"done", "verified"}
      BY <1>1, <1>2 DEF StageInv, StageWriters
    <2>2. SandboxOf(w)'
      BY <1>1, <2>1 DEF SandboxOf
    <2>3. BlocksOf(w)'
      BY <2>1 DEF BlocksOf
    <2>4. ArtifactOf(w)'
      BY <1>1, <2>1 DEF ArtifactOf, RoundOf
    <2> QED  BY <2>2, <2>3, <2>4
  <1>4. ASSUME ~Overlap(stagePlan.outputs["code"], stagePlan.outputs["tests"])
        PROVE  TestsIn(Over(artifact["tests"], artifact["code"])) = artifact["tests"]
    <2> DEFINE tests == artifact["tests"]
               code == artifact["code"]
               tree == Over(tests, code)
               paths == stagePlan.outputs["tests"]
    <2>1. /\ tests = [p \in DOMAIN tests |-> tests[p]]
          /\ \A p \in DOMAIN tests : Below(p, paths)
          /\ \A p \in DOMAIN code : p \in Path /\ Below(p, stagePlan.outputs["code"])
      BY DEF StageInv, ArtifactOf, StageWriters
    <2>2. \A p \in DOMAIN code : ~Below(p, paths)
      <3>1. stagePlan.outputs["code"] \in SUBSET Path /\ paths \in SUBSET Path
        BY <1>1, StrictStageAssumption DEF StageShape, StageWriters
      <3> QED  BY <1>4, <2>1, <3>1, BelowBoth
    <2>3. /\ DOMAIN tree = DOMAIN tests \cup DOMAIN code
          /\ \A p \in DOMAIN tests : tree[p] = tests[p]
      BY DEF Over
    <2> HIDE DEF tree, tests, code
    <2>4. {q \in DOMAIN tree : Below(q, paths)} = DOMAIN tests
      BY <2>1, <2>2, <2>3
    <2>5. FilesBelow(tree, paths) = [p \in DOMAIN tests |-> tests[p]]
      BY <2>3, <2>4 DEF FilesBelow
    <2>6. TestsIn(tree) = tests
      BY <2>1, <2>5 DEF TestsIn
    <2> QED  BY <2>6 DEF tree, tests, code
  <1>5. OrderInv'
    BY <1>1, <1>2 DEF OrderInv
  <1>6. SuiteInv'
    <2> DEFINE apart == ~Overlap(stagePlan.outputs["code"], stagePlan.outputs["tests"])
    <2>1. apart => suite' = artifact["tests"]
      BY <1>1, <1>4 DEF SuiteInv
    <2>2. apart => TestsIn(mergedTree)' = artifact["tests"]
      <3>1. TestsIn(mergedTree)' = TestsIn(Over(artifact["tests"], artifact["code"]))
        BY <1>1 DEF TestsIn
      <3> QED  BY <1>4, <3>1
    <2> QED  BY <1>1, <1>2, <2>1, <2>2 DEF SuiteInv
  <1>7. StageShape'
    BY <1>1 DEF StageShape
  <1> QED  BY <1>3, <1>5, <1>6, <1>7 DEF StageInv

LEMMA NextRoundKeeps == ASSUME StageInv, NextRound PROVE StageInv'
  <1>1. /\ stageAt["code"] = "verified" /\ stageRound < MaxStageRounds
        /\ stageRound' = stageRound + 1
        /\ stageAt' = [stageAt EXCEPT !["code"] = "open"]
        /\ UNCHANGED <<stagePlan, transcript, sandbox, artifact, manifest, mergedTree, suite>>
        /\ StageShape /\ SuiteInv /\ OrderInv
    BY DEF NextRound, StageInv
  <1>2. /\ stageAt'["code"] = "open" /\ stageAt'["tests"] = "done" /\ stageAt["tests"] = "done"
        /\ stageRound \in Nat /\ stageRound' \in Nat /\ stageRound' # 1
    BY <1>1, StrictStageAssumption DEF StageShape, StageWriters, OrderInv
  <1>3. SandboxOf("tests")' /\ BlocksOf("tests")' /\ ArtifactOf("tests")'
    <2>1. "tests" \in StageWriters /\ RoundOf("tests")' = RoundOf("tests")
      BY DEF StageWriters, RoundOf
    <2> QED  BY <1>1, <1>2, <2>1, Undisturbed
  <1>4. SandboxOf("code")' /\ BlocksOf("code")' /\ ArtifactOf("code")'
    <2>1. SandboxOf("code") /\ ArtifactOf("code")
      BY DEF StageInv, StageWriters
    <2> QED  BY <1>1, <1>2, <2>1 DEF SandboxOf, BlocksOf, ArtifactOf
  <1>5. OrderInv' /\ SuiteInv'
    BY <1>1, <1>2 DEF OrderInv, SuiteInv, TestsIn
  <1>6. StageShape'
    BY <1>1, <1>2, StrictStageAssumption DEF StageShape
  <1> QED  BY <1>3, <1>4, <1>5, <1>6 DEF StageInv, StageWriters

LEMMA StageNextKeeps == ASSUME StageInv, [StageNext]_stageVars PROVE StageInv'
  <1>1. CASE UNCHANGED stageVars
    <2>1. ASSUME NEW w \in StageWriters PROVE SandboxOf(w)' /\ BlocksOf(w)' /\ ArtifactOf(w)'
      BY <1>1, Undisturbed DEF stageVars, RoundOf
    <2>2. StageShape' /\ OrderInv' /\ SuiteInv'
      BY <1>1 DEF stageVars, StageInv, StageShape, OrderInv, SuiteInv, TestsIn
    <2> QED  BY <2>1, <2>2 DEF StageInv
  <1>2. CASE StageNext
    BY <1>2, OpenSandboxKeeps, ExecutorFailsKeeps, WriteAcceptedKeeps, CollectOutputsKeeps,
       ModelRepliesKeeps, AgentWritesKeeps, MergeAndVerifyKeeps, NextRoundKeeps DEF StageNext
  <1> QED  BY <1>1, <1>2

LEMMA StageInvSeparates == ASSUME StageInv PROVE StagesStaySeparate /\ StageTypeOK
  <1>1. \A w \in StageWriters : DOMAIN artifact[w] = manifest[w]
    BY DEF StageInv, ArtifactOf
  <1>2. ManifestsAreCurrent
    BY <1>1 DEF ManifestsAreCurrent, StageInv, ArtifactOf, RoundOf
  <1>3. BlocksBecomeFiles
    BY DEF BlocksBecomeFiles, StageInv, BlocksOf
  <1>4. SuiteIsFrozen
    <2>1. "tests" \in StageWriters
      BY DEF StageWriters
    <2> QED  BY <1>1, <2>1 DEF SuiteIsFrozen, StageInv, SuiteInv
  <1>5. StageTypeOK
    BY DEF StageTypeOK, StageInv, StageShape, SandboxOf
  <1> QED  BY <1>2, <1>3, <1>4, <1>5 DEF StagesStaySeparate

THEOREM StageInvariance == Spec => []StageInv
  <1>1. GroupsInit => StageInv
    BY StageInvInit DEF GroupsInit, StageInit
  <1>2. StageInv /\ [Next]_allVars => StageInv'
    <2> SUFFICES ASSUME StageInv, [Next]_allVars PROVE StageInv'
      OBVIOUS
    <2>1. [StageNext]_stageVars
      BY DEF Next, allVars, LoopStep, InsideStep, RulesStep, EvaluationStep
    <2> QED  BY <2>1, StageNextKeeps
  <1> QED  BY <1>1, <1>2, PTL DEF Spec

\* The blindness of a run, file by file (StageSeparation, src/src/runner/writer-stage.ts):
\* for any plans, replies and source trees, manifests list what this round wrote, a block
\* becomes one file at most, and all rounds are verified by the same tests.
THEOREM StagesSeparate == Spec => []StagesStaySeparate
  <1> QED  BY StageInvariance, StageInvSeparates, PTL

-----------------------------------------------------------------------------
(* Types: the bounds of a run, and of what is on disk and in the ledger.   *)

RunBounds ==
  run # Idle =>
    /\ run.n \in 1 .. MaxStarts /\ run.plan.maxRounds \in Nat \ {0}
    /\ run.round \in 1 .. run.plan.maxRounds
    /\ run.stale \in 0 .. 2 /\ (run.stop = None => run.stale <= 1)

TreeBounds ==
  /\ \A d \in Dirs : files[d].code \in Trees /\ files[d].tests \in Trees
  /\ \A o \in orphans : o.tree \in Trees
  /\ target = None \/ target.code \in Trees

RowBounds ==
  /\ rows \in [Dirs -> [status : {"none", "started", "completed", "failed"}, traces : Nat]]
  /\ faults.lost \subseteq faults.used

PipelineBounds == RunBounds /\ TreeBounds /\ RowBounds

LEMMA TreeIs ==
  /\ \A n \in 1 .. MaxStarts, v \in Nat : [n |-> n, v |-> v] \in Trees
  /\ Torn \in Trees /\ None \in Trees
  BY PipelineAssumption DEF Trees, Torn

LEMMA TreeWritten ==
  ASSUME ShapeInv, TreeBounds, NEW d \in Dirs, NEW w \in Writers, NEW tree \in Trees,
         files' = [files EXCEPT ![d][w] = tree]
  PROVE  \A e \in Dirs : files'[e].code \in Trees /\ files'[e].tests \in Trees
  BY FileWritten DEF ShapeInv, FileTypes, TreeBounds

LEMMA LedgerBounds ==
  ASSUME ShapeInv, RowBounds, NEW d \in Dirs, d \in faults.used, NEW n \in Nat, Ledger(d, rows[d].status, n)
  PROVE  RowBounds'
  <1>1. PICK k \in 0 .. n :
          /\ faults' = [faults EXCEPT !.outages = IF k < n THEN @ + 1 ELSE @,
                                      !.lost = IF k < n THEN @ \union {d} ELSE @]
          /\ rows' = [rows EXCEPT ![d] =
               [status |-> IF k = n THEN rows[d].status ELSE @.status,
                traces |-> IF n > 0 THEN @.traces + k ELSE @.traces]]
    BY DEF Ledger
  <1>2. (faults.lost \subseteq faults.used)'
    BY <1>1 DEF ShapeInv, FaultTypes, RowBounds
  <1>3. rows' = [rows EXCEPT ![d] = [status |-> rows[d].status,
                                     traces |-> IF n > 0 THEN rows[d].traces + k ELSE rows[d].traces]]
    BY <1>1 DEF ShapeInv, RowTypes
  <1>4. k \in Nat /\ rows[d].traces \in Nat
    BY DEF RowBounds
  <1>5. [status |-> rows[d].status,
         traces |-> IF n > 0 THEN rows[d].traces + k ELSE rows[d].traces]
           \in [status : {"none", "started", "completed", "failed"}, traces : Nat]
    BY <1>4 DEF RowBounds
  <1> QED  BY <1>2, <1>3, <1>5 DEF RowBounds

LEMMA StartBounds ==
  ASSUME ShapeInv, PipelineBounds, NEW d \in Dirs, NEW p \in UNION {Plans[n] : n \in DOMAIN Plans},
         NEW chosen, Start(d, p, chosen)
  PROVE  PipelineBounds'
  <1>1. /\ run'.n = faults.starts + 1 /\ run'.plan = p /\ faults.starts < MaxStarts
        /\ run'.round = 1 /\ run'.stale = 0
        /\ UNCHANGED <<files, orphans, target>>
    BY DEF Start
  <1>2. faults.starts \in Nat /\ p.maxRounds \in Nat \ {0} /\ MaxStarts \in Nat
    BY PipelineAssumption DEF ShapeInv, FaultTypes
  <1>3. RunBounds'
    BY <1>1, <1>2 DEF RunBounds
  <1>4. TreeBounds'
    BY <1>1 DEF PipelineBounds, TreeBounds
  <1>5. PICK lost \in BOOLEAN :
          /\ faults' = [faults EXCEPT !.starts = @ + 1,
                                      !.outages = IF lost THEN @ + 1 ELSE @,
                                      !.lost = IF lost THEN @ \union {d} ELSE @,
                                      !.used = @ \union {d},
                                      !.reused = @ \union ({d} \intersect faults.used)]
          /\ rows' = [rows EXCEPT ![d].status = IF @ = "none" /\ ~lost THEN "started" ELSE @]
    BY DEF Start
  <1>6. faults'.used = faults.used \cup {d} /\ faults'.lost \subseteq faults.lost \cup {d}
    BY <1>5 DEF ShapeInv, FaultTypes
  <1>7. rows' \in [Dirs -> [status : {"none", "started", "completed", "failed"}, traces : Nat]]
    BY <1>5 DEF PipelineBounds, RowBounds
  <1> QED  BY <1>3, <1>4, <1>6, <1>7 DEF PipelineBounds, RowBounds

LEMMA WriteBounds ==
  ASSUME ShapeInv, LoopInv, PipelineBounds, NEW w \in Writers, Write(w) PROVE PipelineBounds'
  <1>1. PICK stages : \E v \in IF run.round = 1 THEN {1} ELSE {run.code.v, run.round} :
          /\ files' = [files EXCEPT ![run.dir][w] = [n |-> run.n, v |-> v]]
          /\ run' = Wrote(w, [n |-> run.n, v |-> v], stages)
    BY WriteRun
  <1>2. PICK v \in IF run.round = 1 THEN {1} ELSE {run.code.v, run.round} :
          files' = [files EXCEPT ![run.dir][w] = [n |-> run.n, v |-> v]]
    BY <1>1
  <1>3. /\ run # Idle /\ run.phase \in {"writing", "revising"} /\ run.dir \in Dirs /\ run.round \in Nat
        /\ run' # Idle /\ run'.n = run.n /\ run'.plan = run.plan /\ run'.round = run.round
        /\ run'.stale = run.stale /\ run'.stop = run.stop
        /\ UNCHANGED <<rows, orphans, target, faults>>
    BY WriteEffect DEF ShapeInv, RunTypes
  <1>4. v \in Nat
    BY <1>2, <1>3 DEF LoopInv, Tree
  <1>5. [n |-> run.n, v |-> v] \in Trees
    BY <1>3, <1>4, TreeIs DEF PipelineBounds, RunBounds
  <1>6. \A e \in Dirs : files'[e].code \in Trees /\ files'[e].tests \in Trees
    BY <1>2, <1>3, <1>5, TreeWritten DEF PipelineBounds
  <1> QED  BY <1>3, <1>6 DEF PipelineBounds, RunBounds, TreeBounds, RowBounds

LEMMA ThrowBounds ==
  ASSUME ShapeInv, PipelineBounds, NEW w \in Writers, Throw(w) PROVE PipelineBounds'
  <1>1. /\ run # Idle /\ run' = Idle /\ UNCHANGED <<files, rows, target, faults>>
        /\ \A o \in orphans' \ orphans : o.tree = [n |-> run.n, v |-> 1]
    BY DEF Throw, ShapeInv, WriterTypes
  <1>2. [n |-> run.n, v |-> 1] \in Trees
    BY <1>1, TreeIs DEF PipelineBounds, RunBounds
  <1> QED  BY <1>1, <1>2 DEF PipelineBounds, RunBounds, TreeBounds, RowBounds

LEMMA OrphanBounds ==
  ASSUME ShapeInv, PipelineBounds, NEW o \in orphans, OrphanWrites(o) \/ OrphanThrows(o)
  PROVE  PipelineBounds'
  <1>1. orphans' \subseteq orphans /\ UNCHANGED <<run, rows, target, faults>>
    BY OrphanEffect
  <1>2. \A e \in Dirs : files'[e].code \in Trees /\ files'[e].tests \in Trees
    <2>1. CASE UNCHANGED files
      BY <2>1 DEF PipelineBounds, TreeBounds
    <2>2. CASE files' = [files EXCEPT ![o.dir][o.writer] = o.tree]
      BY <2>2, TreeWritten DEF ShapeInv, OrphanTypes, PipelineBounds, TreeBounds
    <2> QED  BY <2>1, <2>2 DEF OrphanWrites, OrphanThrows
  <1> QED  BY <1>1, <1>2 DEF PipelineBounds, RunBounds, TreeBounds, RowBounds

LEMMA MergeBounds ==
  ASSUME ShapeInv, ReuseInv, PipelineBounds, Merge PROVE PipelineBounds'
  <1>1. run # Idle /\ SameRun /\ UNCHANGED <<files, orphans, target>>
    BY MergeEffect
  <1>2. PICK n \in Nat : Ledger(run.dir, rows[run.dir].status, n)
    BY DEF Merge
  <1>3. run.dir \in Dirs /\ run.dir \in faults.used
    BY <1>1 DEF ShapeInv, RunTypes, ReuseInv, RunDirectory
  <1>4. RowBounds'
    BY <1>2, <1>3, LedgerBounds DEF PipelineBounds
  <1> QED  BY <1>1, <1>4 DEF PipelineBounds, RunBounds, TreeBounds, SameRun

LEMMA TestsEndBounds ==
  ASSUME ShapeInv, ReuseInv, LoopInv, PipelineBounds, NEW r \in Results, TestsEnd(r)
  PROVE  PipelineBounds'
  <1>1. PICK stop : stop = StopReason(r.passed, Outcome(r)) /\ run' = AfterTests(r, stop)
    BY TestsEndRun
  <1>2. /\ run # Idle /\ run.phase = "testing" /\ run.stop = None /\ run.dir \in Dirs
        /\ run.dir \in faults.used /\ UNCHANGED <<files, orphans, target>>
    BY TestsEndRun DEF ShapeInv, RunTypes, ReuseInv, RunDirectory, LoopInv, Stopped
  <1>3. PICK round \in Nat \ {0}, rounds \in Nat \ {0}, stale \in 0 .. 1, best \in Nat, passed \in Nat :
          /\ round = run.round /\ rounds = run.plan.maxRounds /\ round <= rounds /\ stale = run.stale
          /\ best = run.best /\ passed = r.passed
    BY <1>2, PipelineAssumption DEF PipelineBounds, RunBounds, ShapeInv, RunTypes
  <1>4. stop = None => round # rounds /\ ~(round > 1 /\ passed <= best /\ stale = 1)
    BY <1>1, <1>3, PipelineAssumption DEF StopReason
  <1>5. /\ run'.n = run.n /\ run'.plan = run.plan /\ run'.stop = stop
        /\ run'.round = IF stop = None THEN round + 1 ELSE round
        /\ run'.stale = IF round = 1 \/ passed > best THEN 0 ELSE stale + 1
    BY <1>1, <1>3 DEF AfterTests
  <1>6. /\ run'.round \in 1 .. rounds /\ run'.stale \in 0 .. 2
        /\ stop = None => run'.stale <= 1
    BY <1>3, <1>4, <1>5
  <1>7. RunBounds'
    BY <1>2, <1>3, <1>5, <1>6 DEF PipelineBounds, RunBounds
  <1>8. RowBounds'
    BY <1>2, LedgerBounds DEF TestsEnd, PipelineBounds
  <1> QED  BY <1>2, <1>7, <1>8 DEF PipelineBounds, TreeBounds

LEMMA FinishRunBounds ==
  ASSUME ShapeInv, ReuseInv, PipelineBounds, FinishRun PROVE PipelineBounds'
  <1>1. /\ run # Idle /\ run' = Idle /\ UNCHANGED <<files, orphans, target>>
        /\ run.dir \in Dirs /\ run.dir \in faults.used
    BY FinishRunEffect DEF ShapeInv, RunTypes, ReuseInv, RunDirectory
  <1>2. FinalStatus \in {"completed", "failed"}
    BY DEF FinalStatus
  <1>3. RowBounds'
    <2>1. CASE UNCHANGED <<rows, faults>>
      BY <2>1 DEF PipelineBounds, RowBounds
    <2>2. ASSUME NEW lost \in BOOLEAN,
                 faults' = [faults EXCEPT !.outages = IF lost THEN @ + 1 ELSE @,
                                          !.lost = IF lost THEN @ \union {run.dir} ELSE @],
                 rows' = [rows EXCEPT ![run.dir].status = IF lost THEN @ ELSE FinalStatus]
          PROVE  RowBounds'
      <3>1. (faults.lost \subseteq faults.used)'
        BY <1>1, <2>2 DEF ShapeInv, FaultTypes, PipelineBounds, RowBounds
      <3>2. rows' \in [Dirs -> [status : {"none", "started", "completed", "failed"}, traces : Nat]]
        BY <1>2, <2>2 DEF PipelineBounds, RowBounds
      <3> QED  BY <3>1, <3>2 DEF RowBounds
    <2> QED  BY <2>1, <2>2 DEF FinishRun
  <1> QED  BY <1>1, <1>3 DEF PipelineBounds, RunBounds, TreeBounds

LEMMA CrashBounds ==
  ASSUME ShapeInv, PipelineBounds, Crash PROVE PipelineBounds'
  <1>1. /\ run' = Idle /\ orphans' = {} /\ UNCHANGED <<rows, target>>
        /\ faults'.used = faults.used /\ faults'.lost = faults.lost
    BY CrashEffect
  <1>2. \A e \in Dirs : files'[e].code \in Trees /\ files'[e].tests \in Trees
    <2>1. CASE UNCHANGED files
      BY <2>1 DEF PipelineBounds, TreeBounds
    <2>2. ASSUME NEW d \in Dirs, NEW w \in Writers, files' = [files EXCEPT ![d][w] = Torn]
          PROVE  \A e \in Dirs : files'[e].code \in Trees /\ files'[e].tests \in Trees
      BY <2>2, TreeIs, TreeWritten DEF PipelineBounds
    <2>3. run # Idle => run.dir \in Dirs
      BY DEF ShapeInv, RunTypes
    <2>4. \A o \in orphans : o.dir \in Dirs /\ o.writer \in Writers
      BY DEF ShapeInv, OrphanTypes
    <2> QED  BY <2>1, <2>2, <2>3, <2>4 DEF Crash
  <1> QED  BY <1>1, <1>2 DEF PipelineBounds, RunBounds, TreeBounds, RowBounds

LEMMA PipelineBoundsStep ==
  ASSUME ShapeInv, ReuseInv, LoopInv, PipelineBounds, [Next]_allVars PROVE PipelineBounds'
  <1>1. CASE UNCHANGED vars
    BY <1>1 DEF vars, PipelineBounds, RunBounds, TreeBounds, RowBounds
  <1>2. ASSUME NEW d \in Dirs, NEW p \in UNION {Plans[n] : n \in DOMAIN Plans}, RunStarts(d, p)
        PROVE  PipelineBounds'
    BY <1>2, StartBounds DEF RunStarts
  <1>3. ASSUME NEW w \in Writers, AskAgain(w) PROVE PipelineBounds'
    BY <1>3 DEF AskAgain, PipelineBounds, RunBounds, TreeBounds, RowBounds
  <1>4. ASSUME NEW w \in Writers, Write(w) \/ Throw(w) PROVE PipelineBounds'
    BY <1>4, WriteBounds, ThrowBounds
  <1>5. ASSUME NEW o \in orphans, OrphanWrites(o) \/ OrphanThrows(o) PROVE PipelineBounds'
    BY <1>5, OrphanBounds
  <1>6. CASE Merge \/ \E r \in Results : TestsEnd(r)
    BY <1>6, MergeBounds, TestsEndBounds
  <1>7. CASE TestsDie
    BY <1>7 DEF TestsDie, PipelineBounds, RunBounds, TreeBounds, RowBounds
  <1>8. CASE WriteReport \/ WriteTrace
    <2>1. run # Idle /\ SameRun /\ UNCHANGED <<rows, orphans, target, faults>>
      BY <1>8, WriteReportEffect, WriteTraceEffect
    <2>2. \A d \in Dirs : files'[d].code = files[d].code /\ files'[d].tests = files[d].tests
      <3>1. \E x : files' = [files EXCEPT ![run.dir].report = x] \/ files' = [files EXCEPT ![run.dir].trace = x]
        BY <1>8 DEF WriteReport, WriteTrace
      <3> QED  BY <3>1 DEF ShapeInv, FileTypes
    <2> QED  BY <2>1, <2>2 DEF PipelineBounds, RunBounds, TreeBounds, RowBounds, SameRun
  <1>9. CASE FinishRun \/ Crash
    BY <1>9, FinishRunBounds, CrashBounds
  <1>10. ASSUME NEW d \in Dirs, NEW force \in BOOLEAN, Apply(d, force) PROVE PipelineBounds'
    <2>1. /\ target'.code = files[d].code /\ faults'.used = faults.used /\ faults'.lost = faults.lost
          /\ UNCHANGED <<run, files, rows, orphans>>
      BY <1>10 DEF Apply, ShapeInv, FaultTypes
    <2> QED  BY <2>1 DEF PipelineBounds, RunBounds, TreeBounds, RowBounds
  <1> QED  BY <1>1, <1>2, <1>3, <1>4, <1>5, <1>6, <1>7, <1>8, <1>9, <1>10, PipelineSteps

\* Deltas and applications are of known rules, and so is what a call has still to apply.
RuleBounds ==
  /\ \A i \in DOMAIN ruleLog : ruleLog[i].rule \in Rules
  /\ \A a \in DOMAIN applications : a.rule \in Rules /\ applications[a] \in {"pending"} \cup Outcomes
  /\ applying = [rules |-> applying.rules, run |-> applying.run, trigger |-> applying.trigger]
  /\ applying.rules \subseteq Rules

LEMMA MarksBounds ==
  ASSUME RulesInv, RuleBounds, NEW x, NEW outcome \in Outcomes, RecordRuleOutcome(x, outcome)
  PROVE  RuleBounds'
  <1> DEFINE counted == Uncounted(x)
             marks == SetToSeq(counted)
             m == Cardinality(counted)
             n == Len(ruleLog)
             more == [i \in DOMAIN marks |-> Delta(marks[i].rule, outcome, {marks[i]})]
  <1>1. PICK S : ruleLog \in Seq(S)
    BY DEF RulesInv, IsSequence
  <1>2. n \in Nat /\ DOMAIN ruleLog = 1 .. n
    BY <1>1, LenProperties
  <1>3. counted \in SUBSET DOMAIN applications /\ IsFiniteSet(counted)
    BY FS_Subset DEF RulesInv, Uncounted
  <1>4. m \in Nat /\ marks \in [1 .. m -> counted] /\ DOMAIN marks = 1 .. m
    BY <1>3, SeqOfSet
  <1>5. /\ applications' = [a \in DOMAIN applications |-> IF a \in counted THEN outcome ELSE applications[a]]
        /\ ruleLog' = ruleLog \o more /\ UNCHANGED applying
    BY DEF RecordRuleOutcome
  <1> HIDE DEF counted, marks, m
  <1>6. /\ DOMAIN more = 1 .. m /\ more \in [1 .. m -> {more[i] : i \in 1 .. m}]
        /\ \A i \in 1 .. m : more[i].rule \in Rules
    BY <1>3, <1>4 DEF RuleBounds, Delta
  <1> HIDE DEF more
  <1>7. more \in Seq({more[i] : i \in 1 .. m}) /\ Len(more) = m
    BY <1>4, <1>6, SeqDef, LenProperties
  <1>8. /\ DOMAIN (ruleLog \o more) = 1 .. n + m
        /\ \A i \in 1 .. n : (ruleLog \o more)[i] = ruleLog[i]
        /\ \A i \in n + 1 .. n + m : (ruleLog \o more)[i] = more[i - n]
    BY <1>1, <1>2, <1>4, <1>7
  <1>9. ASSUME NEW i \in DOMAIN ruleLog' PROVE ruleLog'[i].rule \in Rules
    <2>1. CASE i \in 1 .. n
      BY <1>2, <1>5, <1>8, <2>1 DEF RuleBounds
    <2>2. CASE i \notin 1 .. n
      <3>1. i \in n + 1 .. n + m /\ i - n \in 1 .. m
        BY <1>2, <1>4, <1>5, <1>8, <2>2
      <3> QED  BY <1>5, <1>6, <1>8, <3>1
    <2> QED  BY <2>1, <2>2
  <1> QED  BY <1>5, <1>9 DEF RuleBounds

LEMMA RuleBoundsStep ==
  ASSUME RulesInv, RuleBounds, [Next]_allVars PROVE RuleBounds'
  <1>1. CASE UNCHANGED ruleVars
    BY <1>1 DEF ruleVars, RuleBounds
  <1>2. ASSUME NEW r \in Rules, NEW status, CreateRule(r, status) \/ SetRuleStatus(r, status)
        PROVE  RuleBounds'
    <2>1. ruleLog' = Append(ruleLog, Delta(r, status, {})) /\ UNCHANGED <<applications, applying>>
      BY <1>2 DEF CreateRule, SetRuleStatus
    <2>2. PICK S : ruleLog \in Seq(S)
      BY DEF RulesInv, IsSequence
    <2>3. /\ DOMAIN ruleLog' = DOMAIN ruleLog \cup {Len(ruleLog) + 1}
          /\ ruleLog'[Len(ruleLog) + 1] = Delta(r, status, {})
          /\ \A i \in DOMAIN ruleLog : ruleLog'[i] = ruleLog[i]
      BY <2>1, <2>2, Grown
    <2> QED  BY <2>1, <2>3 DEF RuleBounds, Delta
  <1>3. ASSUME NEW matched \in SUBSET Rules, NEW x, NEW trigger, ReadActiveRules(matched, x, trigger)
        PROVE  RuleBounds'
    BY <1>3 DEF ReadActiveRules, RuleBounds
  <1>4. ASSUME NEW r \in Rules, ApplyRule(r) PROVE RuleBounds'
    <2>1. PICK a : a = Application(r, applying.run, applying.trigger)
      OBVIOUS
    <2>2. /\ a.rule = r /\ DOMAIN applications' = DOMAIN applications \cup {a}
          /\ \A b \in DOMAIN applications : applications'[b] = applications[b]
          /\ a \notin DOMAIN applications => applications'[a] = "pending"
          /\ UNCHANGED <<rule, ruleLog>>
      BY <1>4, <2>1 DEF ApplyRule, OpenApplication, Application
    <2>3. applying' = NotApplying \/ applying' = [applying EXCEPT !.rules = applying.rules \ {r}]
      BY <1>4 DEF ApplyRule
    <2>4. /\ applying' = [rules |-> applying'.rules, run |-> applying'.run, trigger |-> applying'.trigger]
          /\ applying'.rules \subseteq Rules
      BY <2>3 DEF RuleBounds, NotApplying
    <2> QED  BY <2>2, <2>4 DEF RuleBounds
  <1>5. ASSUME StopApplying PROVE RuleBounds'
    BY <1>5 DEF StopApplying, NotApplying, RuleBounds
  <1>6. ASSUME NEW x, NEW outcome \in Outcomes, RecordRuleOutcome(x, outcome) PROVE RuleBounds'
    BY <1>6, MarksBounds
  <1>7. CASE RulesNext
    BY <1>2, <1>3, <1>4, <1>5, <1>6, <1>7 DEF RulesNext
  <1>8. CASE EvalNext
    <2>1. ASSUME NEW task \in EvalTasks, NEW baseline \in Baselines, StartEpisode(task, baseline)
          PROVE  RuleBounds'
      <3>1. PICK gates \in SUBSET Rules : IF gates = {} THEN UNCHANGED ruleVars
                                          ELSE ReadActiveRules(gates, started', task)
        BY <2>1, EvalAssumption DEF StartEpisode, RuleGates
      <3> QED  BY <1>1, <1>3, <3>1
    <2>2. CASE ApplyGate
      BY <1>4, <2>2 DEF ApplyGate
    <2>3. CASE \E success \in BOOLEAN : FinishEpisode(success)
      BY <1>1, <2>3 DEF FinishEpisode
    <2>4. CASE LoseEpisode
      BY <1>1, <1>5, <2>4 DEF LoseEpisode
    <2>5. CASE \E i \in DOMAIN episodes, mark \in {"false_gate", "regression"} : MarkRow(i, mark)
      BY <1>1, <2>5 DEF MarkRow
    <2>6. CASE ChangeRules
      <3>1. "helpful" \in Outcomes
        BY DEF Outcomes
      <3> QED  BY <1>2, <1>6, <2>6, <3>1 DEF ChangeRules
    <2> QED  BY <1>8, <2>1, <2>2, <2>3, <2>4, <2>5, <2>6 DEF EvalNext
  <1> QED  BY <1>1, <1>7, <1>8 DEF Next, LoopStep, InsideStep, RulesStep, EvaluationStep, allVars

\* A behaviour that is of the rules alone has no episode.
EpisodeBounds == started \in 0 .. MaxEpisodes /\ (active = "rules" => episode = NoEpisode)

LEMMA EpisodeBoundsStep ==
  ASSUME EpisodeBounds, [Next]_allVars PROVE EpisodeBounds'
  <1>1. CASE UNCHANGED <<started, episode, active>>
    BY <1>1 DEF EpisodeBounds
  <1>2. CASE EvaluationStep
    <2>1. active = "evaluation" /\ active' = active /\ EvalNext
      BY <1>2 DEF EvaluationStep
    <2>2. started' = started \/ (started' = started + 1 /\ started < MaxEpisodes)
      BY <2>1 DEF EvalNext, StartEpisode, ApplyGate, FinishEpisode, LoseEpisode, MarkRow, ChangeRules, evalVars
    <2> QED  BY <2>1, <2>2, EvalAssumption DEF EpisodeBounds
  <1> QED  BY <1>1, <1>2 DEF Next, LoopStep, InsideStep, RulesStep, allVars, evalVars

\* Proposals lie in run directories, as the output of a learn command does.
ProposalBounds ==
  /\ proposals \in [Dirs -> {"none", "pending", "accepted", "rejected"}]
  /\ learning = None \/ learning.out \in Dirs

LEMMA ProposalBoundsStep ==
  ASSUME ProposalBounds, [Next]_allVars PROVE ProposalBounds'
  <1>1. CASE UNCHANGED <<proposals, learning>>
    BY <1>1 DEF ProposalBounds
  <1>2. ASSUME NEW ds \in Batches, NEW gate \in Gates, LearnBegins(ds, gate) PROVE ProposalBounds'
    <2>1. learning'.out = Head(ds) /\ UNCHANGED proposals
      BY <1>2 DEF LearnBegins
    <2>2. Head(ds) \in Dirs
      BY LearningAssumption
    <2> QED  BY <2>1, <2>2 DEF ProposalBounds
  <1>3. CASE LearnEnds
    <2>1. /\ learning # None /\ learning' = None
          /\ UNCHANGED proposals \/ proposals' = [proposals EXCEPT ![learning.out] = "pending"]
      BY <1>3 DEF LearnEnds
    <2> QED  BY <2>1 DEF ProposalBounds
  <1>4. CASE LearnAborts
    BY <1>4 DEF LearnAborts, ProposalBounds
  <1>5. ASSUME NEW d \in Dirs, NEW status \in {"accepted", "rejected"}, Review(d, status)
        PROVE  ProposalBounds'
    BY <1>5 DEF Review, ProposalBounds
  <1>6. UNCHANGED learnVars \/ LoopNext
    BY DEF Next, LoopStep, InsideStep, RulesStep, EvaluationStep, allVars
  <1>7. CASE \E d \in Dirs : \E p \in UNION {Plans[n] : n \in DOMAIN Plans} : RunStarts(d, p)
    BY <1>1, <1>7 DEF RunStarts, learnVars
  <1> QED  BY <1>1, <1>2, <1>3, <1>4, <1>5, <1>6, <1>7 DEF LoopNext, learnVars

Bounds == PipelineBounds /\ RuleBounds /\ EpisodeBounds /\ ProposalBounds

LEMMA BoundsInit == ASSUME GroupsInit PROVE Bounds
  <1>1. PipelineBounds
    BY TreeIs DEF GroupsInit, LearningInit, Init, Empty, PipelineBounds, RunBounds, TreeBounds, RowBounds
  <1>2. RuleBounds
    <2>1. ruleLog = <<>> /\ applications = <<>> /\ applying = NotApplying /\ DOMAIN <<>> = {}
      BY DEF GroupsInit, RulesInit
    <2> QED  BY <2>1 DEF RuleBounds, NotApplying
  <1>3. EpisodeBounds /\ ProposalBounds
    BY EvalAssumption DEF GroupsInit, EvalInit, LearningInit, EpisodeBounds, ProposalBounds
  <1> QED  BY <1>1, <1>2, <1>3 DEF Bounds

\* The types of the learning program: a run is within its rounds and its two strikes, every
\* tree that lies in a directory or was applied was written by a run, and what is lost of the
\* ledger is of a directory that was used.
THEOREM LearningTypes == Spec => []TypeOK
  <1>1. ShapeInv /\ ReuseInv /\ LoopInv /\ EarnedInv /\ Bounds /\ [Next]_allVars => Bounds'
    BY PipelineBoundsStep, RuleBoundsStep, EpisodeBoundsStep, ProposalBoundsStep DEF Bounds, EarnedInv
  <1>2. ASSUME ShapeInv, EarnedInv, StageInv, Bounds PROVE TypeOK
    <2>1. PipelineTypeOK
      BY <1>2 DEF PipelineTypeOK, Bounds, PipelineBounds, RunBounds, TreeBounds, RowBounds,
                  ShapeInv, RunTypes, OrphanTypes
    <2>2. StageTypeOK
      BY <1>2, StageInvSeparates
    <2>3. RulesTypeOK
      BY <1>2 DEF RulesTypeOK, EarnedInv, RulesInv, Bounds, RuleBounds
    <2>4. EvalTypeOK
      <3>1. \A i \in DOMAIN episodes : episodes[i].task \in EvalTasks /\ episodes[i].gates \subseteq Rules
        <4>1. \A i \in DOMAIN episodes : episodes[i] \in EpisodeRow
          BY <1>2 DEF EarnedInv, EvalInv
        <4> QED  BY <4>1 DEF EpisodeRow
      <3>2. episode = NoEpisode \/ (episode \in Episode /\ episode.id = started)
        BY <1>2 DEF EarnedInv, EvalInv, EpisodeInv, Bounds, EpisodeBounds
      <3> QED  BY <1>2, <3>1, <3>2 DEF EvalTypeOK, Bounds, EpisodeBounds
    <2>5. \A s \in Slots : library[s] = None \/ IsLesson(library[s])
      BY <1>2 DEF EarnedInv, LibraryInv
    <2> QED  BY <1>2, <2>1, <2>2, <2>3, <2>4, <2>5 DEF TypeOK, Bounds, ProposalBounds
  <1> QED  BY <1>1, <1>2, BoundsInit, PipelineInvariance, EarnedInvariance, StageInvariance, PTL DEF Spec

=============================================================================
