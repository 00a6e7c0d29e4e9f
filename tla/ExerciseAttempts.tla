-------------------------- MODULE ExerciseAttempts --------------------------
(***************************************************************************)
(* Exercise attempts: what applyExerciseHookFacts                          *)
(* (src/src/hooks/exercise.ts) and the reducers it calls                   *)
(* (src/src/reducers/exercises.ts) do with one hook event inside a         *)
(* normalization run, statement by statement, for several processes at     *)
(* once.                                                                   *)
(*                                                                         *)
(* Applying an event is a sequence of phases.  A phase that appends a cell *)
(* checks the tape, reads it again inside recordRunTapeCell, inserts, and  *)
(* then scores; each of these is a statement of its own, so other          *)
(* processes and crashes come between any two of them.                     *)
(***************************************************************************)
EXTENDS NormalizationRunner, TapeGrammar, Integers

CONSTANTS Attempts,  \* exercise attempts: one per (exercise, run)
          Runs,
          RunOf,     \* the run whose tape an attempt writes
          Facts,     \* what the normalizer extracted from each event
          MaxManual, \* bound on the cells `lyo tape record` adds by hand
          None

Statuses == {"started", "working", "failed", "passed", "claimed_without_pass"}
AttemptRow == [status: Statuses, score: Int]

\* A cell with the index it is to be inserted at.
NextRow == [index: Nat, cell: Cell]

ASSUME ExerciseAssumption ==
  /\ IsFiniteSet(Attempts) /\ IsFiniteSet(Procs)
  /\ None \notin AttemptRow \cup NextRow
  /\ RunOf \in [Attempts -> Runs]
  /\ Facts \in [Events -> [attempt: Attempts, wrote: BOOLEAN,
                           verdicts: Seq({"pass", "fail"}), stop: BOOLEAN]]
  /\ MaxManual \in Nat

VARIABLES tapes,    \* rows of run_tape_cells, per run in cell_index order
          attempt,  \* rows of exercise_attempts
          phase,    \* what a process is doing with its current event
          step,     \* and at which statement of it it is
          verdicts, \* completed verifier commands still to be applied
          row,      \* the cell a process is about to insert
          manual    \* cells added by hand

exerciseVars == <<tapes, attempt, phase, step, verdicts, row, manual>>
vars == <<runnerVars, exerciseVars>>

Phases == {"ensure", "goal", "spec", "work", "verdict", "followup", "claim", "mark"}
Steps == {"enter", "check", "read", "insert", "score"}

Init ==
  /\ RunnerInit
  /\ tapes = [r \in Runs |-> <<>>]
  /\ attempt = [a \in Attempts |-> None]
  /\ phase = [p \in Procs |-> "ensure"]
  /\ step = [p \in Procs |-> "enter"]
  /\ verdicts = [p \in Procs |-> <<>>]
  /\ row = [p \in Procs |-> None]
  /\ manual = 0

-----------------------------------------------------------------------------
Fact(p) == Facts[Current(p)]
Attempt(p) == Fact(p).attempt
Tape(p) == tapes[RunOf[Attempt(p)]]
Passed(p) == Head(verdicts[p]) = "pass"

\* The cell a phase appends.
KindOf(p) ==
  CASE phase[p] = "goal"     -> "run_goal"
    [] phase[p] = "spec"     -> "verifier_spec"
    [] phase[p] = "work"     -> "worker_action"
    [] phase[p] = "verdict"  -> "verifier_result"
    [] phase[p] = "followup" -> IF Passed(p) THEN "outcome_completed" ELSE "gap"
    [] phase[p] = "claim"    -> "assistant_claim"

PassedOf(p) == IF phase[p] = "verdict" THEN Head(verdicts[p]) ELSE "null"

Legal(p) == KindOf(p) \in LegalNextKinds(Tape(p))

At(p, ph, st) == Working(p) /\ phase[p] = ph /\ step[p] = st

Goto(p, ph, st) ==
  /\ phase' = [phase EXCEPT ![p] = ph]
  /\ step' = [step EXCEPT ![p] = st]

\* Where the application of an event goes after its worker action or a verdict,
\* with the verifier commands left.
GotoRest(p, left) ==
  /\ verdicts' = [verdicts EXCEPT ![p] = left]
  /\ CASE left # <<>>                    -> Goto(p, "verdict", "check")
       [] left = <<>> /\ Fact(p).stop    -> Goto(p, "claim", "enter")
       [] left = <<>> /\ ~Fact(p).stop   -> Goto(p, "mark", "enter")

GotoWork(p) ==
  IF Fact(p).wrote
  THEN Goto(p, "work", "check") /\ verdicts' = [verdicts EXCEPT ![p] = Fact(p).verdicts]
  ELSE GotoRest(p, Fact(p).verdicts)

-----------------------------------------------------------------------------
\* ensureExerciseAttempt inserts the attempt, or refreshes columns no property reads.
\* (The upsert keeps the status and the score of an attempt it finds.)
EnsureAttempt(p) ==
  /\ At(p, "ensure", "enter")
  /\ attempt' = IF attempt[Attempt(p)] = None
                THEN [attempt EXCEPT ![Attempt(p)] = [status |-> "started", score |-> 0]]
                ELSE attempt
  /\ Goto(p, "ensure", "check")
  /\ UNCHANGED <<runnerVars, tapes, verdicts, row, manual>>

\* initializeExerciseTape: only an empty tape gets its goal and verifier.
ViewTape(p) ==
  /\ At(p, "ensure", "check")
  /\ IF Tape(p) = <<>>
     THEN Goto(p, "goal", "read") /\ UNCHANGED verdicts
     ELSE GotoWork(p)
  /\ UNCHANGED <<runnerVars, tapes, attempt, row, manual>>

\* A caller that scores a cell the tape declined.
DeclinedButScored(p) ==
  /\ Goto(p, IF phase[p] = "verdict" THEN "followup" ELSE phase[p], "score")
  /\ UNCHANGED verdicts

\* A caller that scores a verdict only when its follow-up cell was appended.
DeclinedUnscored(p) ==
  CASE phase[p] = "work"     -> GotoRest(p, verdicts[p])
    [] phase[p] \in {"verdict", "followup"} -> GotoRest(p, Tail(verdicts[p]))
    [] phase[p] = "claim"    -> Goto(p, "mark", "enter") /\ UNCHANGED verdicts

\* appendTapeIfLegal declines: what the caller does when its cell was not appended.
Declined(p) ==
  CASE phase[p] = "work"     -> GotoRest(p, verdicts[p])
    [] phase[p] = "verdict"  -> GotoRest(p, Tail(verdicts[p]))
    [] phase[p] = "followup" -> Goto(p, "followup", "score") /\ UNCHANGED verdicts
    [] phase[p] = "claim"    -> Goto(p, "mark", "enter") /\ UNCHANGED verdicts

\* appendTapeIfLegal looks at the tape.
CheckTape(p) ==
  /\ Working(p) /\ step[p] = "check" /\ phase[p] # "ensure"
  /\ IF Legal(p)
     THEN Goto(p, phase[p], "read") /\ UNCHANGED verdicts
     ELSE Declined(p)
  /\ UNCHANGED <<runnerVars, tapes, attempt, row, manual>>

\* recordRunTapeCell looks again: only if the cell is still legal does it go on.
ReadTape(p) ==
  /\ Working(p) /\ step[p] = "read"
  /\ Legal(p)
  /\ row' = [row EXCEPT ![p] = [index |-> Len(Tape(p)) + 1,
                                cell |-> CellAfter(TapeState(Tape(p)), KindOf(p), PassedOf(p))]]
  /\ Goto(p, phase[p], "insert")
  /\ UNCHANGED <<runnerVars, tapes, attempt, verdicts, manual>>

\* The caller after its cell is on the tape.
Appended(p) ==
  CASE phase[p] = "goal"    -> Goto(p, "spec", "read") /\ UNCHANGED verdicts
    [] phase[p] = "spec"    -> GotoWork(p)
    [] phase[p] = "verdict" -> Goto(p, "followup", "check") /\ UNCHANGED verdicts
    [] phase[p] \in {"work", "followup", "claim"}
                            -> Goto(p, phase[p], "score") /\ UNCHANGED verdicts

CanInsert(p) == row[p].index \notin DOMAIN Tape(p)

\* The insert of the cell, refused by the unique (run_id, cell_index).
InsertCell(p) ==
  /\ Working(p) /\ step[p] = "insert"
  /\ CanInsert(p)
  /\ tapes' = [tapes EXCEPT ![RunOf[Attempt(p)]] =
                 [i \in DOMAIN @ \cup {row[p].index} |->
                    IF i = row[p].index THEN row[p].cell ELSE @[i]]]
  /\ row' = [row EXCEPT ![p] = None]
  /\ Appended(p)
  /\ UNCHANGED <<runnerVars, attempt, manual>>

\* A delta that sets the status of a run where an attempt's belongs.
DeltaOfRun(p) ==
  CASE phase[p] = "work"     -> [score |-> 1, status |-> "working"]
    [] phase[p] = "followup" -> IF Passed(p) THEN [score |-> 5, status |-> "completed"]
                                             ELSE [score |-> 2, status |-> "failed"]
    [] phase[p] = "claim"    -> [score |-> -3, status |-> "claimed_without_pass"]

\* What a phase's addScore adds and the status it sets.
Delta(p) ==
  CASE phase[p] = "work"     -> [score |-> 1, status |-> "working"]
    [] phase[p] = "followup" -> IF Passed(p) THEN [score |-> 5, status |-> "passed"]
                                             ELSE [score |-> 2, status |-> "failed"]
    [] phase[p] = "claim"    -> [score |-> -3, status |-> "claimed_without_pass"]

AddScore(p) ==
  /\ Working(p) /\ step[p] = "score"
  /\ attempt' = [attempt EXCEPT ![Attempt(p)] =
                   [status |-> Delta(p).status, score |-> @.score + Delta(p).score]]
  /\ CASE phase[p] = "work"     -> GotoRest(p, verdicts[p])
       [] phase[p] = "followup" -> GotoRest(p, Tail(verdicts[p]))
       [] phase[p] = "claim"    -> Goto(p, "mark", "enter") /\ UNCHANGED verdicts
  /\ UNCHANGED <<runnerVars, tapes, row, manual>>

\* On a stop event the claim is made only by an attempt that has not passed.  (The
\* status is read twice in a row, and a claim needs both to say so.)
ClaimGate(p) ==
  /\ At(p, "claim", "enter")
  /\ IF attempt[Attempt(p)].status = "passed"
     THEN Goto(p, "mark", "enter")
     ELSE Goto(p, "claim", "check")
  /\ UNCHANGED <<runnerVars, tapes, attempt, verdicts, row, manual>>

Mark(p) ==
  /\ At(p, "mark", "enter")
  /\ MarkNormalized(p)
  /\ Goto(p, "ensure", "enter")
  /\ UNCHANGED <<tapes, attempt, verdicts, row, manual>>

\* Any statement may throw (recordRunTapeCell on a cell that is no longer legal, the
\* unique index, a locked file) and a process may die between any two.
Abort(p) ==
  /\ AbortRun(p)
  /\ Goto(p, "ensure", "enter")
  /\ verdicts' = [verdicts EXCEPT ![p] = <<>>]
  /\ row' = [row EXCEPT ![p] = None]
  /\ UNCHANGED <<tapes, attempt, manual>>

\* `lyo tape record` adds a legal cell by hand (RunTape shows its two statements atomic).
RecordByHand(r, kind, passed) ==
  /\ manual < MaxManual
  /\ manual' = manual + 1
  /\ ValidPayload(kind, passed)
  /\ kind \in LegalNextKinds(tapes[r])
  /\ tapes' = [tapes EXCEPT ![r] = Append(@, CellAfter(TapeState(@), kind, passed))]
  /\ UNCHANGED <<runnerVars, attempt, phase, step, verdicts, row>>

Runner ==
  /\ \/ \E e \in Events : RecordEvent(e)
     \/ \E p \in Procs : ListEvents(p) \/ EndRun(p)
  /\ UNCHANGED exerciseVars

Apply(p) ==
  \/ EnsureAttempt(p) \/ ViewTape(p) \/ CheckTape(p) \/ ReadTape(p) \/ InsertCell(p)
  \/ AddScore(p) \/ ClaimGate(p) \/ Mark(p)

Next ==
  \/ Runner
  \/ \E p \in Procs : Apply(p) \/ Abort(p)
  \/ \E r \in Runs, kind \in Kinds, passed \in Verdicts : RecordByHand(r, kind, passed)

Spec == Init /\ [][Next]_vars

-----------------------------------------------------------------------------
Count(tape, Test(_)) == Cardinality({i \in DOMAIN tape : Test(tape[i])})

\* Every tape is a sequence of cells without gaps, every attempt has one of its five
\* statuses and an integer score, and what a process is about to insert is a cell.
TypeOK ==
  /\ RunnerTypeOK
  /\ tapes \in [Runs -> Seq(Cell)]
  /\ attempt \in [Attempts -> AttemptRow \cup {None}]
  /\ phase \in [Procs -> Phases] /\ step \in [Procs -> Steps]
  /\ row \in [Procs -> NextRow \cup {None}]

\* The attempts of a run that have a row, and `lyo exercise` of that run.
getExerciseAttempts(r) == {a \in Attempts : RunOf[a] = r /\ attempt[a] # None}

StandingAt(r, status) == {a \in getExerciseAttempts(r) : attempt[a].status = status}

getExerciseView(r) ==
  LET rows == getExerciseAttempts(r)
  IN [attempts            |-> Cardinality(rows),
      passed              |-> Cardinality(StandingAt(r, "passed")),
      failed              |-> Cardinality(StandingAt(r, "failed")),
      claimedWithoutPass  |-> Cardinality(StandingAt(r, "claimed_without_pass")),
      totalScore          |-> SumFunctionOnSet([a \in rows |-> attempt[a].score], rows)]

\* The cells of a run's tape that an attempt of the run can stand on.
Backing(r, status) ==
  {i \in DOMAIN tapes[r] :
     CASE status = "passed"               -> tapes[r][i].passed = "pass"
       [] status = "failed"               -> tapes[r][i].passed = "fail"
       [] status = "claimed_without_pass" -> tapes[r][i].kind = "assistant_claim"}

\* What the cells of a tape are worth: what they can earn and what they can cost.
Gain(tape) == Count(tape, LAMBDA c : c.kind = "worker_action")
              + 5 * Count(tape, LAMBDA c : c.passed = "pass")
              + 2 * Count(tape, LAMBDA c : c.passed = "fail")
Cost(tape) == 3 * Count(tape, LAMBDA c : c.kind = "assistant_claim")

\* An attempt stands at passed, failed or claimed only on a cell of its own: the tape
\* of a run has at least as many passed and failed verifier results and claims as
\* attempts of the run stand there, whatever was applied twice, interleaved or cut
\* short, and although a cell and the status it leads to are written by two statements
\* (reducers/exercises.ts:100, 255).
StandingIsBacked ==
  \A r \in Runs : \A status \in {"passed", "failed", "claimed_without_pass"} :
    Cardinality(StandingAt(r, status)) <= Cardinality(Backing(r, status))

\* No score without evidence: retries and races never add or deduct points that
\* no cell of the run's tape accounts for.
ScoreIsBacked ==
  \A r \in Runs : getExerciseView(r).totalScore \in -Cost(tapes[r])..Gain(tapes[r])

\* No evidence without score: as long as no run threw or died, the attempts of a
\* run hold exactly what its tape is worth once everyone has returned, also when
\* several processes applied the same events.
EvidenceIsScored ==
  (running = {} /\ aborts = 0 /\ manual = 0) =>
    \A r \in Runs :
      getExerciseView(r).totalScore = Gain(tapes[r]) - Cost(tapes[r])

\* Scores and evidence agree: no point comes from anywhere but the tape, after a retry or
\* a crash no more than in a race, and none is lost while nothing failed.
ScoreIsEvidence == ScoreIsBacked /\ EvidenceIsScored
=============================================================================
