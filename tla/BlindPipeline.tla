---------------------------- MODULE BlindPipeline ----------------------------
(***************************************************************************)
(* One run of the blind pipeline (src/runner): a code writer and a test    *)
(* writer work side by side, the verifier runs the frozen tests over the   *)
(* merged tree, and the code writer iterates on the counts alone until it  *)
(* passes, repeats itself, stops improving or runs out of rounds.  The run *)
(* directory, the row of the run in SQLite and the working tree a run is   *)
(* applied to outlive the process.                                         *)
(*                                                                         *)
(* A caller of runPipeline may name the run, and so start a second run in  *)
(* the directory of an earlier one; a stage that throws ends the run while *)
(* the other writer goes on (an orphan), as Promise.all leaves it.         *)
(*                                                                         *)
(* A generated tree is its origin: the run that wrote it and the version   *)
(* of it within that run.  What a learned lesson is stays outside.         *)
(***************************************************************************)
EXTENDS Naturals, Sequences, FiniteSets, SequencesExt

CONSTANTS
  Dirs,          \* run directories, runs/<run id>
  Plans,         \* Plans[n]: the plans the n-th run may be started with
  Results,       \* what a test run may yield: [code, total, passed, failed]
  MaxStarts,     \* bound: runs started
  MaxFaults,     \* bound: SQLite blocks that fail and processes that die, together
  MaxApplies,    \* bound: runs applied to the working tree
  None

\* None is no reason to stop, a test run is counted, and a plan allows a round.
ASSUME PipelineAssumption ==
  /\ MaxStarts \in Nat
  /\ \A n \in DOMAIN Plans : \A p \in Plans[n] : p.maxRounds \in Nat \ {0}
  /\ Results \subseteq [code : Nat, total : Nat, passed : Nat, failed : Nat]
  /\ None \notin {"pass", "no_change", "stuck", "max_rounds"}

Writers == {"code", "tests"}
Role == [code |-> "code-writer", tests |-> "test-writer"]

VARIABLES
  run,        \* the pipeline the process executes
  writer,     \* what each writer stage of it is doing
  files,      \* the run directories: artifacts, report and trace
  rows,       \* the ledger: the row of each run and its learning traces
  orphans,    \* writers of a run that has thrown
  target,     \* the tree `pipeline apply` wrote last
  verified,   \* history: the trees a verifier saw pass, with their tests
  faults      \* counts of the bounded steps, directories used once, used again and
              \* with a lost SQLite block

vars == <<run, writer, files, rows, orphans, target, verified, faults>>

Idle == [phase |-> "idle"]
Empty == [code |-> None, tests |-> None, report |-> None, trace |-> None]
Torn == [n |-> 0, v |-> 0]   \* a prefix removed and not copied back in full

-----------------------------------------------------------------------------
(* The gate of a plan: it validates, its one code writer and its one test  *)
(* writer read the specification and are forbidden each other's outputs,   *)
(* the specification has the declared hash and is JSON of the contract.    *)

StagesOf(p, role) == {s \in p.stages : s.role = role}

CheckBlindness(p) ==
  LET code == StagesOf(p, "code-writer")
      test == StagesOf(p, "test-writer")
      Blind(s, other) == s.reads /\ other.outputs \subseteq s.forbidden
  IN /\ code # {} /\ test # {}
     /\ \A c \in code, t \in test : Blind(c, t) /\ Blind(t, c)

SoleStage(p, role) == Cardinality(StagesOf(p, role)) = 1

Accepted(p) ==
  /\ p.valid /\ CheckBlindness(p)
  /\ p.spec.file = "json" /\ p.spec.sha = p.sha
  /\ SoleStage(p, "code-writer") /\ SoleStage(p, "test-writer")

\* What `pipeline init` and `worktree add` write: the plan names the markdown
\* it was compiled from, which is beside the plan only in the same directory.
Compiled(sha, beside) ==
  LET Stage(role, mine, theirs) ==
        [role |-> role, reads |-> TRUE, outputs |-> mine, forbidden |-> theirs]
  IN [valid |-> TRUE, sha |-> sha, maxRounds |-> 3,
      spec |-> [file |-> IF beside THEN "markdown" ELSE "missing", sha |-> sha],
      stages |-> {Stage("code-writer", {"src"}, {"tests"}),
                  Stage("test-writer", {"tests"}, {"src"}),
                  Stage("verifier", {}, {})}]

-----------------------------------------------------------------------------
(* Helpers of a run.                                                       *)

Iterating == run.plan.maxRounds > 1

\* runVerifier: the exit code and the counts decide the outcome.
Outcome(r) ==
  IF r.code > 1 \/ r.total = 0 THEN "error"
  ELSE IF r.failed > 0 \/ r.code = 1 THEN "fail" ELSE "pass"

\* safeKernel: each of n blocks writes its rows, or SQLite fails and nobody
\* is told.
Ledger(d, status, n) ==
  \E k \in 0 .. n :
    /\ k < n => faults.outages + faults.crashes < MaxFaults
    /\ faults' = [faults EXCEPT !.outages = IF k < n THEN @ + 1 ELSE @,
                                !.lost = IF k < n THEN @ \union {d} ELSE @]
    /\ rows' = [rows EXCEPT ![d] =
         [status |-> IF k = n THEN status ELSE @.status,
          traces |-> IF n > 0 THEN @.traces + k ELSE @.traces]]

Stage(w, round) ==
  [role |-> Role[w], round |-> round, lessons |-> run.lessons[w]]

VerifierStage(round) == [role |-> "verifier", round |-> round, lessons |-> {}]

-----------------------------------------------------------------------------
Init ==
  /\ run = Idle
  /\ writer = [w \in Writers |-> "idle"]
  /\ files = [d \in Dirs |-> Empty]
  /\ rows = [d \in Dirs |-> [status |-> "none", traces |-> 0]]
  /\ orphans = {}
  /\ target = None
  /\ verified = {}
  /\ faults = [starts |-> 0, outages |-> 0, crashes |-> 0, applies |-> 0,
               used |-> {}, reused |-> {}, lost |-> {}]

\* A run starts in the directory of its id, which an earlier run may have
\* left: nothing of that one is removed.  Its row is inserted, or already
\* there and left alone.  The lessons are those the library selects.
Start(d, p, lessons) ==
  /\ run = Idle /\ faults.starts < MaxStarts
  /\ p \in Plans[faults.starts + 1] /\ Accepted(p)
  /\ run' = [phase |-> "writing", dir |-> d, n |-> faults.starts + 1, plan |-> p,
             lessons |-> lessons, round |-> 1, best |-> 0, stale |-> 0,
             code |-> None, tests |-> None, previous |-> None, merged |-> None,
             stages |-> <<>>, results |-> <<>>, stop |-> None]
  /\ writer' = [w \in Writers |-> "calling"]
  /\ \E lost \in BOOLEAN :
       /\ lost => rows[d].status = "none" /\ faults.outages + faults.crashes < MaxFaults
       /\ faults' = [faults EXCEPT !.starts = @ + 1,
                                   !.outages = IF lost THEN @ + 1 ELSE @,
                                   !.lost = IF lost THEN @ \union {d} ELSE @,
                                   !.used = @ \union {d},
                                   !.reused = @ \union ({d} \intersect faults.used)]
       /\ rows' = [rows EXCEPT ![d].status = IF @ = "none" /\ ~lost THEN "started" ELSE @]
  /\ UNCHANGED <<files, orphans, target, verified>>

\* A first reply without file blocks under the declared outputs is asked for
\* once more, as a command that exits non-zero is run once more.
AskAgain(w) ==
  /\ writer[w] = "calling"
  /\ writer' = [writer EXCEPT ![w] = "again"]
  /\ UNCHANGED <<run, files, rows, orphans, target, verified, faults>>

\* The declared outputs replace those of the earlier round.  A revision may
\* be the same files again.
Write(w) ==
  /\ writer[w] \in {"calling", "again"}
  /\ \E v \in IF run.round = 1 THEN {1} ELSE {run.code.v, run.round} :
       LET tree == [n |-> run.n, v |-> v]
       IN /\ files' = [files EXCEPT ![run.dir][w] = tree]
          /\ run' = [run EXCEPT ![w] = tree,
                     !.previous = IF w = "code" THEN run.code ELSE @,
                     !.stages = IF run.phase = "revising"
                                THEN Append(@, Stage(w, run.round)) ELSE @]
  /\ writer' = [writer EXCEPT ![w] = "done"]
  /\ UNCHANGED <<rows, orphans, target, verified, faults>>

\* A stage that throws rejects the whole run at once; a writer that is still
\* working is not stopped.
Throw(w) ==
  /\ writer[w] \in {"calling", "again"}
  /\ orphans' = orphans \union
       {[dir |-> run.dir, writer |-> o, tree |-> [n |-> run.n, v |-> 1]] :
          o \in {o \in Writers \ {w} : writer[o] \in {"calling", "again"}}}
  /\ run' = Idle
  /\ writer' = [o \in Writers |-> "idle"]
  /\ UNCHANGED <<files, rows, target, verified, faults>>

OrphanWrites(o) ==
  /\ o \in orphans
  /\ files' = [files EXCEPT ![o.dir][o.writer] = o.tree]
  /\ orphans' = orphans \ {o}
  /\ UNCHANGED <<run, writer, rows, target, verified, faults>>

OrphanThrows(o) ==
  /\ o \in orphans
  /\ orphans' = orphans \ {o}
  /\ UNCHANGED <<run, writer, files, rows, target, verified, faults>>

\* Both writers are done: their stages are traced and recorded, both trees
\* are merged and the tests start.
Merge ==
  /\ run # Idle /\ run.phase \in {"writing", "revising"}
  /\ \A w \in Writers : writer[w] = "done"
  /\ run' = [run EXCEPT !.phase = "testing",
       !.stages = IF run.phase = "writing"
                  THEN <<Stage("code", 1), Stage("tests", 1)>> ELSE @,
       !.merged = [dir |-> run.dir, code |-> files[run.dir].code, tests |-> files[run.dir].tests]]
  /\ Ledger(run.dir, rows[run.dir].status, IF run.phase = "writing" THEN 2 ELSE 1)
  /\ UNCHANGED <<writer, files, orphans, target, verified>>

SameFileHashes == run.round > 1 /\ run.code = run.previous

\* Mutant: the first strike ends the loop.
StopReasonAtFirstStrike(passed, outcome) ==
  IF outcome = "pass" THEN "pass"
  ELSE IF SameFileHashes THEN "no_change"
  ELSE IF run.round > 1 /\ passed <= run.best THEN "stuck"
  ELSE IF run.round = run.plan.maxRounds THEN "max_rounds"
  ELSE None

\* Mutant: one round more than the plan allows.
StopReasonLate(passed, outcome) ==
  IF outcome = "pass" THEN "pass"
  ELSE IF SameFileHashes THEN "no_change"
  ELSE IF run.round > run.plan.maxRounds THEN "max_rounds"
  ELSE None

\* Why the loop stops after a round, if it does.
StopReason(passed, outcome) ==
  IF outcome = "pass" THEN "pass"
  ELSE IF SameFileHashes THEN "no_change"
  ELSE IF run.round > 1 /\ passed <= run.best /\ run.stale = 1 THEN "stuck"
  ELSE IF run.round = run.plan.maxRounds THEN "max_rounds"
  ELSE None

\* The tests end: the verdict is traced and recorded, and the loop stops or
\* hands the counts to the code writer for another round.
TestsEnd(r) ==
  /\ run # Idle /\ run.phase = "testing"
  /\ LET stop == StopReason(r.passed, Outcome(r))
         better == run.round = 1 \/ r.passed > run.best
     IN /\ run' = [run EXCEPT
              !.results = Append(@, [code |-> run.code, counts |-> r]),
              !.stages = Append(@, VerifierStage(run.round)),
              !.best = IF better THEN r.passed ELSE @,
              !.stale = IF better THEN 0 ELSE @ + 1,
              !.stop = stop,
              !.phase = IF stop = None THEN "revising" ELSE "reporting",
              !.round = IF stop = None THEN @ + 1 ELSE @]
        /\ writer' = IF stop = None THEN [writer EXCEPT !["code"] = "calling"] ELSE writer
  /\ verified' = IF Outcome(r) = "pass" THEN verified \union {run.merged} ELSE verified
  /\ Ledger(run.dir, rows[run.dir].status, 1)
  /\ UNCHANGED <<files, orphans, target>>

\* The test command is killed at its timeout: the run throws.
TestsDie ==
  /\ run # Idle /\ run.phase = "testing"
  /\ run' = Idle
  /\ writer' = [w \in Writers |-> "idle"]
  /\ UNCHANGED <<files, rows, orphans, target, verified, faults>>

LastResult == Last(run.results).counts

FinalStatus == IF Outcome(LastResult) = "pass" THEN "completed" ELSE "failed"

WriteReport ==
  /\ run # Idle /\ run.phase = "reporting"
  /\ files' = [files EXCEPT ![run.dir].report =
       [n |-> run.n, code |-> run.code, tests |-> run.tests,
        outcome |-> Outcome(LastResult), failed |-> LastResult.failed]]
  /\ run' = [run EXCEPT !.phase = "tracing"]
  /\ UNCHANGED <<writer, rows, orphans, target, verified, faults>>

WriteTrace ==
  /\ run # Idle /\ run.phase = "tracing"
  /\ files' = [files EXCEPT ![run.dir].trace =
       [n |-> run.n, spec |-> run.plan.spec, stages |-> run.stages,
        feedback |-> IF Iterating THEN [rounds |-> run.round, stop |-> run.stop] ELSE None]]
  /\ run' = [run EXCEPT !.phase = "finishing"]
  /\ UNCHANGED <<writer, rows, orphans, target, verified, faults>>

\* The row of the run gets its final status, if it was ever inserted.
FinishRun ==
  /\ run # Idle /\ run.phase = "finishing"
  /\ IF rows[run.dir].status = "none" THEN UNCHANGED <<rows, faults>>
     ELSE \E lost \in BOOLEAN :
       /\ lost => faults.outages + faults.crashes < MaxFaults
       /\ faults' = [faults EXCEPT !.outages = IF lost THEN @ + 1 ELSE @,
                                   !.lost = IF lost THEN @ \union {run.dir} ELSE @]
       /\ rows' = [rows EXCEPT ![run.dir].status = IF lost THEN @ ELSE FinalStatus]
  /\ run' = Idle
  /\ writer' = [w \in Writers |-> "idle"]
  /\ UNCHANGED <<files, orphans, target, verified>>

\* The process dies, orphans and all, perhaps between the removal of a
\* declared prefix and the last file copied.
Crash ==
  /\ run # Idle \/ orphans # {}
  /\ faults.outages + faults.crashes < MaxFaults
  /\ faults' = [faults EXCEPT !.crashes = @ + 1]
  /\ \/ files' = files
     \/ /\ run # Idle
        /\ \E w \in Writers : /\ writer[w] \in {"calling", "again"}
                              /\ files' = [files EXCEPT ![run.dir][w] = Torn]
     \/ \E o \in orphans : files' = [files EXCEPT ![o.dir][o.writer] = Torn]
  /\ run' = Idle /\ orphans' = {}
  /\ writer' = [w \in Writers |-> "idle"]
  /\ UNCHANGED <<rows, target, verified>>

\* Mutant: the report only has to be there.
CanApplyReported(d, force) == files[d].report # None

\* The report in the directory must say pass, or the caller forces it.
CanApply(d, force) ==
  files[d].report # None /\ (files[d].report.outcome = "pass" \/ force)

\* `pipeline apply` copies whatever code the directory holds by then.
Apply(d, force) ==
  /\ faults.applies < MaxApplies
  /\ CanApply(d, force) /\ files[d].code # None
  /\ target' = [dir |-> d, code |-> files[d].code, forced |-> force]
  /\ faults' = [faults EXCEPT !.applies = @ + 1]
  /\ UNCHANGED <<run, writer, files, rows, orphans, verified>>

\* Every step of a run but its start, which needs the lesson library.
Step ==
  \/ \E w \in Writers : AskAgain(w) \/ Write(w) \/ Throw(w)
  \/ \E o \in orphans : OrphanWrites(o) \/ OrphanThrows(o)
  \/ Merge \/ \E r \in Results : TestsEnd(r)
  \/ TestsDie \/ WriteReport \/ WriteTrace \/ FinishRun \/ Crash
  \/ \E d \in Dirs, force \in BOOLEAN : Apply(d, force)

-----------------------------------------------------------------------------
(* Properties.                                                             *)

Trees == [n : 0 .. MaxStarts, v : Nat] \union {None}

\* Type invariant of the run directories, the ledger and the working tree.
PipelineTypeOK ==
  /\ run = Idle \/ /\ run.dir \in Dirs /\ run.n \in 1 .. MaxStarts
                   /\ run.round \in 1 .. run.plan.maxRounds
                   /\ run.stale \in 0 .. 2
  /\ \A d \in Dirs : files[d].code \in Trees /\ files[d].tests \in Trees
  /\ rows \in [Dirs -> [status : {"none", "started", "completed", "failed"},
                        traces : Nat]]
  /\ faults.lost \subseteq faults.used
  /\ \A o \in orphans : o.dir \in Dirs /\ o.writer \in Writers
  /\ target = None \/ target.code \in Trees

\* "nothing unverified lands in the repo" (apply.ts): an unforced apply copies
\* a tree some verifier has seen pass, unless the run directory was used by
\* two runs, whose report and code may then belong to different ones.
UnverifiedNeedsReuse ==
  target # None /\ ~target.forced =>
    \/ \E t \in verified : t.code = target.code
    \/ target.dir \in faults.reused

\* The loop of runPipeline keeps a best count and strikes; judged against all
\* rounds it ran: it passes in its last round and in none before, calls a run
\* unchanged when the last two trees are equal, stuck when the last two
\* rounds fell short of an earlier one, and otherwise uses every round.
StopIsJustified ==
  run # Idle /\ run.stop # None =>
    LET n == Len(run.results)
        Passed(i) == run.results[i].counts.passed
        Code(i) == run.results[i].code
    IN /\ n = run.round
       /\ \A i \in 1 .. n : Outcome(run.results[i].counts) = "pass" <=> i = n /\ run.stop = "pass"
       /\ run.stop = "no_change" <=> run.stop # "pass" /\ n > 1 /\ Code(n) = Code(n - 1)
       /\ run.stop = "stuck" =>
            n > 2 /\ \E i \in 1 .. n - 2 : Passed(i) >= Passed(n - 1) /\ Passed(i) >= Passed(n)
       /\ run.stop = "max_rounds" => n = run.plan.maxRounds

\* The row of a run (run-pipeline.ts:136, 414): completed only after a
\* verifier of that directory passed, and, where no SQLite block was lost and
\* the directory is not used twice, as soon as the run has returned it says
\* what the report says; a row left at started has a run that threw, died or
\* is still going.
RowTellsOutcome ==
  \A d \in Dirs :
    LET status == rows[d].status
        returned == files[d].trace # None /\ ~(run # Idle /\ run.dir = d)
    IN /\ status = "completed" => \E t \in verified : t.dir = d
       /\ d \notin faults.reused /\ d \notin faults.lost /\ faults.crashes = 0 /\ returned =>
            status = IF files[d].report.outcome = "pass" THEN "completed" ELSE "failed"
       /\ status = "started" /\ returned => d \in faults.lost \/ faults.crashes > 0

\* How a run ended is justified by its rounds, and its row says the same.
OutcomesAreJustified == StopIsJustified /\ RowTellsOutcome

=============================================================================
