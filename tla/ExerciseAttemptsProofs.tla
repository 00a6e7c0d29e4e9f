----------------------- MODULE ExerciseAttemptsProofs -----------------------
(***************************************************************************)
(* Proofs about ExerciseAttempts for any events, attempts, runs, any       *)
(* number of processes, cut-off runs and cells added by hand: where an     *)
(* attempt stands is backed by a cell of its own, and its scores add up to *)
(* what the cells of its run are worth.                                    *)
(*   StepInv     where a process is, and what it is about to insert        *)
(*   BackedInv   cells, the scores that processes owe for them, and the    *)
(*               attempts that stand on them                               *)
(*   BooksInv    the scores that were added for each status, those still   *)
(*               owed, and the cells that account for both                 *)
(***************************************************************************)
EXTENDS ExerciseAttempts, SumTheorems, SequenceTheorems

Types ==
  /\ recorded \subseteq Events /\ normalized \subseteq recorded /\ running \subseteq Procs
  /\ aborts \in 0 .. MaxAborts
  /\ batch \in [Procs -> Seq(recorded)]
  /\ tapes \in [Runs -> Seq(Cell)]
  /\ attempt \in [Attempts -> AttemptRow \cup {None}]
  /\ phase \in [Procs -> Phases] /\ step \in [Procs -> Steps]
  /\ verdicts \in [Procs -> Seq({"pass", "fail"})]
  /\ row \in [Procs -> NextRow \cup {None}]

\* The statements of each phase.
StepsOf(ph) ==
  CASE ph = "ensure"               -> {"enter", "check"}
    [] ph \in {"goal", "spec"}     -> {"read", "insert"}
    [] ph \in {"work", "followup"} -> {"check", "read", "insert", "score"}
    [] ph = "verdict"              -> {"check", "read", "insert"}
    [] ph = "claim"                -> {"enter", "check", "read", "insert", "score"}
    [] ph = "mark"                 -> {"enter"}

\* A statement of a phase, with the verdicts that are left.
IsPlace(ph, st, left) ==
  /\ ph \in Phases /\ st \in StepsOf(ph) /\ left \in Seq({"pass", "fail"})
  /\ ph \in {"verdict", "followup"} => left # <<>>

\* A process is between two events, or applies one whose attempt has a row.
Control(p) ==
  /\ IsPlace(phase[p], step[p], verdicts[p])
  /\ (phase[p] = "ensure" /\ step[p] = "enter")
       \/ (Working(p) /\ \E a \in Attempts : a = Attempt(p) /\ attempt[a] # None)
  /\ p \notin running => batch[p] = <<>>

\* The cell a process inserts is of its phase, and at most one past the end of the tape.
RowFits(p) ==
  step[p] = "insert" =>
    /\ row[p] \in NextRow
    /\ row[p].cell.kind = KindOf(p) /\ row[p].cell.passed = PassedOf(p)
    /\ \E r \in Runs : r = RunOf[Attempt(p)] /\ row[p].index \in 1 .. Len(tapes[r]) + 1

StepInv == Types /\ \A p \in Procs : Control(p) /\ RowFits(p)

Standings == {"passed", "failed", "claimed_without_pass"}
Scored == Standings \cup {"working"}

\* A place from which a process has still to set the status for a cell on the tape.
OwesAt(ph, st, left, status) ==
  CASE status = "working"              -> ph = "work" /\ st = "score"
    [] status = "passed"               -> ph = "followup" /\ Head(left) = "pass"
    [] status = "failed"               -> ph = "followup" /\ Head(left) # "pass"
    [] status = "claimed_without_pass" -> ph = "claim" /\ st = "score"

Owes(p, status) == OwesAt(phase[p], step[p], verdicts[p], status)

OwedTo(r, status) == {p \in Procs : Working(p) /\ RunOf[Attempt(p)] = r /\ Owes(p, status)}

BackedInv ==
  \A r \in Runs : \A status \in Standings :
    Cardinality(StandingAt(r, status)) + Cardinality(OwedTo(r, status)) <= Cardinality(Backing(r, status))

-----------------------------------------------------------------------------
(* Where a step takes a process.                                           *)

\* What the normalizer extracted from the event that a process works on.
LEMMA FactTypes ==
  ASSUME Types, NEW p \in Procs, Working(p)
  PROVE  /\ Current(p) \in Events /\ Fact(p).verdicts \in Seq({"pass", "fail"})
         /\ Fact(p).wrote \in BOOLEAN /\ Fact(p).stop \in BOOLEAN
         /\ Attempt(p) \in Attempts /\ RunOf[Attempt(p)] \in Runs
  <1>1. batch[p] \in Seq(recorded) /\ batch[p] # <<>> /\ recorded \subseteq Events
    BY DEF Types, Working
  <1>2. Current(p) \in Events
    BY <1>1, HeadTailProperties DEF Current
  <1>3. Facts[Current(p)] \in [attempt: Attempts, wrote: BOOLEAN, verdicts: Seq({"pass", "fail"}), stop: BOOLEAN]
    BY <1>2, ExerciseAssumption
  <1>4. Attempt(p) \in Attempts
    BY <1>3 DEF Fact, Attempt
  <1> QED  BY <1>2, <1>3, <1>4, ExerciseAssumption DEF Fact

\* A process goes to a place.
GoesTo(p, ph, st, left) == Goto(p, ph, st) /\ verdicts' = [verdicts EXCEPT ![p] = left]

LEMMA Stands ==
  ASSUME Types, NEW p \in Procs, NEW ph, NEW st, Goto(p, ph, st), UNCHANGED verdicts
  PROVE  GoesTo(p, ph, st, verdicts[p])
  BY DEF Types, GoesTo

LEMMA TailOfSome ==
  ASSUME NEW p \in Procs, Types, verdicts[p] # <<>>
  PROVE  Tail(verdicts[p]) \in Seq({"pass", "fail"}) /\ Head(verdicts[p]) \in {"pass", "fail"}
  BY HeadTailProperties DEF Types

LEMMA RestGoesTo ==
  ASSUME Types, NEW p \in Procs, Working(p), NEW left \in Seq({"pass", "fail"}), GotoRest(p, left)
  PROVE  \E ph \in {"verdict", "claim", "mark"}, st \in {"check", "enter"} :
           GoesTo(p, ph, st, left) /\ IsPlace(ph, st, left)
  <1>1. CASE left # <<>>
    BY <1>1 DEF GotoRest, GoesTo, IsPlace, StepsOf, Phases
  <1>2. CASE left = <<>> /\ Fact(p).stop
    BY <1>2 DEF GotoRest, GoesTo, IsPlace, StepsOf, Phases
  <1>3. CASE left = <<>> /\ ~Fact(p).stop
    BY <1>3 DEF GotoRest, GoesTo, IsPlace, StepsOf, Phases
  <1> QED  BY <1>1, <1>2, <1>3

LEMMA WorkGoesTo ==
  ASSUME Types, NEW p \in Procs, Working(p), GotoWork(p)
  PROVE  \E ph \in {"work", "verdict", "claim", "mark"}, st \in {"check", "enter"}, left \in Seq({"pass", "fail"}) :
           GoesTo(p, ph, st, left) /\ IsPlace(ph, st, left)
  <1>1. Fact(p).verdicts \in Seq({"pass", "fail"})
    BY FactTypes
  <1>2. CASE Fact(p).wrote
    BY <1>1, <1>2 DEF GotoWork, GoesTo, IsPlace, StepsOf, Phases
  <1>3. CASE ~Fact(p).wrote
    <2>1. GotoRest(p, Fact(p).verdicts)
      BY <1>3 DEF GotoWork
    <2> QED  BY <1>1, <2>1, RestGoesTo
  <1> QED  BY <1>2, <1>3

\* What a process that moves leaves alone, and where it gets to: it owes what it
\* owed before.
Quiet(p) ==
  /\ UNCHANGED runnerVars
  /\ \E ph, st, left :
       /\ GoesTo(p, ph, st, left) /\ IsPlace(ph, st, left)
       /\ \A status \in Scored : (OwesAt(ph, st, left, status) <=> Owes(p, status))
       /\ st # "insert"

LEMMA DeclinedGoesTo ==
  ASSUME StepInv, NEW p \in Procs, Working(p), step[p] = "check", phase[p] # "ensure", Declined(p)
  PROVE  \E ph, st, left :
           /\ GoesTo(p, ph, st, left) /\ IsPlace(ph, st, left)
           /\ \A status \in Scored : (OwesAt(ph, st, left, status) <=> Owes(p, status))
           /\ st # "insert"
  <1>1. Types /\ IsPlace(phase[p], step[p], verdicts[p])
    BY DEF StepInv, Control
  <1>2. phase[p] \in {"work", "verdict", "followup", "claim"}
    BY <1>1 DEF IsPlace, StepsOf, Phases
  <1>3. ASSUME NEW left \in Seq({"pass", "fail"}), GotoRest(p, left)
        PROVE  \E ph, st : /\ GoesTo(p, ph, st, left) /\ IsPlace(ph, st, left) /\ st # "insert"
                           /\ \A status \in Scored : ~OwesAt(ph, st, left, status)
    <2>1. PICK ph \in {"verdict", "claim", "mark"}, st \in {"check", "enter"} :
            GoesTo(p, ph, st, left) /\ IsPlace(ph, st, left)
      BY <1>1, <1>3, RestGoesTo
    <2> QED  BY <2>1 DEF OwesAt, Owes, Scored, Standings
  <1>4. CASE phase[p] = "work"
    <2>1. GotoRest(p, verdicts[p]) /\ verdicts[p] \in Seq({"pass", "fail"})
      BY <1>1, <1>4 DEF Declined, IsPlace
    <2>2. \A status \in Scored : ~Owes(p, status)
      BY <1>4 DEF OwesAt, Owes, Scored, Standings
    <2> QED  BY <1>3, <2>1, <2>2
  <1>5. CASE phase[p] = "verdict"
    <2>1. GotoRest(p, Tail(verdicts[p])) /\ Tail(verdicts[p]) \in Seq({"pass", "fail"})
      BY <1>1, <1>5, TailOfSome DEF Declined, IsPlace
    <2>2. \A status \in Scored : ~Owes(p, status)
      BY <1>5 DEF OwesAt, Owes, Scored, Standings
    <2> QED  BY <1>3, <2>1, <2>2
  <1>6. CASE phase[p] = "followup"
    <2>1. GoesTo(p, "followup", "score", verdicts[p]) /\ IsPlace("followup", "score", verdicts[p])
      BY <1>1, <1>6, Stands DEF Declined, IsPlace, StepsOf
    <2>2. \A status \in Scored : OwesAt("followup", "score", verdicts[p], status) <=> Owes(p, status)
      BY <1>6 DEF OwesAt, Owes, Scored, Standings
    <2> QED  BY <2>1, <2>2
  <1>7. CASE phase[p] = "claim"
    <2>1. GoesTo(p, "mark", "enter", verdicts[p]) /\ IsPlace("mark", "enter", verdicts[p])
      BY <1>1, <1>7, Stands DEF Declined, IsPlace, StepsOf, Phases
    <2>2. \A status \in Scored : ~OwesAt("mark", "enter", verdicts[p], status) /\ ~Owes(p, status)
      BY <1>7 DEF OwesAt, Owes, Scored, Standings
    <2> QED  BY <2>1, <2>2
  <1> QED  BY <1>2, <1>4, <1>5, <1>6, <1>7

\* Rows of attempts stay, and tapes only grow.
RowsStay ==
  /\ attempt' \in [Attempts -> AttemptRow \cup {None}]
  /\ \A a \in Attempts : attempt[a] # None => attempt'[a] # None

TapesGrow ==
  /\ tapes' \in [Runs -> Seq(Cell)]
  /\ \A r \in Runs : /\ Len(tapes[r]) <= Len(tapes'[r])
                     /\ \A i \in DOMAIN tapes[r] : i \in DOMAIN tapes'[r] /\ tapes'[r][i] = tapes[r][i]

\* What a process leaves to the others.
LEMMA OthersStay ==
  ASSUME StepInv, NEW p \in Procs, RowsStay, TapesGrow,
         NEW q \in Procs \ {p}, phase'[q] = phase[q], step'[q] = step[q], verdicts'[q] = verdicts[q],
         row'[q] = row[q], batch'[q] = batch[q], q \in running' <=> q \in running
  PROVE  (Control(q) /\ RowFits(q))'
  <1>1. Control(q) /\ RowFits(q)
    BY DEF StepInv
  <1>2. Control(q)'
    BY <1>1 DEF Control, Working, Attempt, Fact, Current, RowsStay
  <1>3. RowFits(q)'
    <2>1. \A r \in Runs : Len(tapes[r]) \in Nat /\ Len(tapes'[r]) \in Nat /\ Len(tapes[r]) <= Len(tapes'[r])
      BY LenProperties DEF StepInv, Types, TapesGrow
    <2>2. KindOf(q)' = KindOf(q) /\ PassedOf(q)' = PassedOf(q)
      BY DEF KindOf, PassedOf, Passed
    <2> QED  BY <1>1, <2>1, <2>2 DEF RowFits, Attempt, Fact, Current
  <1> QED  BY <1>2, <1>3

\* A process that goes on with its event.
LEMMA ActStep ==
  ASSUME StepInv, NEW p \in Procs, Working(p), UNCHANGED runnerVars,
         NEW ph, NEW st, NEW left, GoesTo(p, ph, st, left), IsPlace(ph, st, left),
         RowsStay, attempt'[Attempt(p)] # None, TapesGrow,
         row' \in [Procs -> NextRow \cup {None}], \A q \in Procs \ {p} : row'[q] = row[q],
         st = "insert" =>
           /\ row'[p] \in NextRow
           /\ row'[p].cell.kind = KindOf(p)' /\ row'[p].cell.passed = PassedOf(p)'
           /\ row'[p].index \in 1 .. Len(tapes'[RunOf[Attempt(p)]]) + 1
  PROVE  StepInv'
  <1>1. Types /\ Attempt(p) \in Attempts /\ RunOf[Attempt(p)] \in Runs
    BY FactTypes DEF StepInv
  <1>2. phase'[p] = ph /\ step'[p] = st /\ verdicts'[p] = left
    BY <1>1 DEF GoesTo, Goto, Types
  <1>3. ph \in Phases /\ st \in Steps
    BY DEF IsPlace, Phases, StepsOf, Steps
  <1>4. Types'
    BY <1>1, <1>3 DEF Types, GoesTo, Goto, RowsStay, TapesGrow, runnerVars, IsPlace
  <1>5. Attempt(p)' = Attempt(p) /\ Working(p)'
    BY DEF Attempt, Fact, Current, Working, runnerVars
  <1>6. Control(p)'
    BY <1>1, <1>2, <1>5 DEF Control, StepInv, runnerVars
  <1>7. RowFits(p)'
    BY <1>1, <1>2, <1>5 DEF RowFits
  <1>8. ASSUME NEW q \in Procs \ {p} PROVE (Control(q) /\ RowFits(q))'
    <2>1. phase'[q] = phase[q] /\ step'[q] = step[q] /\ verdicts'[q] = verdicts[q]
      BY <1>1 DEF GoesTo, Goto, Types
    <2> QED  BY <2>1, OthersStay DEF runnerVars
  <1> QED  BY <1>4, <1>6, <1>7, <1>8 DEF StepInv

LEMMA SameRows == ASSUME Types, UNCHANGED attempt PROVE RowsStay
  BY DEF Types, RowsStay

LEMMA SameTapes == ASSUME Types, UNCHANGED tapes PROVE TapesGrow
  <1>1. \A r \in Runs : Len(tapes[r]) \in Nat
    BY LenProperties DEF Types
  <1> QED  BY <1>1 DEF Types, TapesGrow

-----------------------------------------------------------------------------
(* The actions of a process.                                               *)

LEMMA EnsureAttemptEffect ==
  ASSUME StepInv, NEW p \in Procs, EnsureAttempt(p)
  PROVE  /\ Quiet(p) /\ StepInv'
         /\ \A a \in Attempts : attempt'[a] = attempt[a] \/ attempt'[a].status = "started"
  <1>1. Types /\ Working(p) /\ phase[p] = "ensure" /\ IsPlace(phase[p], step[p], verdicts[p])
    BY DEF StepInv, Control, EnsureAttempt, At
  <1>2. PICK a \in Attempts : a = Attempt(p)
    BY <1>1, FactTypes
  <1>3. GoesTo(p, "ensure", "check", verdicts[p])
    BY <1>1, Stands DEF EnsureAttempt
  <1>4. IsPlace("ensure", "check", verdicts[p])
    BY <1>1 DEF IsPlace, StepsOf, Phases
  <1>5. \A status \in Scored : ~OwesAt("ensure", "check", verdicts[p], status) /\ ~Owes(p, status)
    BY <1>1 DEF OwesAt, Owes, Scored, Standings
  <1>6. Quiet(p)
    BY <1>3, <1>4, <1>5 DEF Quiet, EnsureAttempt
  <1>7. [status |-> "started", score |-> 0] \in AttemptRow
    BY DEF AttemptRow, Statuses
  <1>8. RowsStay /\ attempt'[a] # None
    BY <1>1, <1>2, <1>7, ExerciseAssumption DEF Types, RowsStay, EnsureAttempt
  <1>9. \A b \in Attempts : attempt'[b] = attempt[b] \/ attempt'[b].status = "started"
    BY <1>1, <1>2 DEF Types, EnsureAttempt
  <1>10. TapesGrow /\ row' = row
    BY <1>1, SameTapes DEF EnsureAttempt
  <1>11. StepInv'
    BY <1>1, <1>2, <1>3, <1>4, <1>8, <1>10, ActStep DEF Types, EnsureAttempt
  <1> QED  BY <1>6, <1>9, <1>11

\* A step that only moves its process.
LEMMA MoveStep ==
  ASSUME StepInv, NEW p \in Procs, Working(p), ~(phase[p] = "ensure" /\ step[p] = "enter"),
         UNCHANGED <<runnerVars, tapes, attempt, row>>,
         NEW ph, NEW st, NEW left, GoesTo(p, ph, st, left), IsPlace(ph, st, left), st # "insert"
  PROVE  StepInv'
  <1>1. Types /\ attempt[Attempt(p)] # None
    BY DEF StepInv, Control
  <1>2. RowsStay /\ TapesGrow
    BY <1>1, SameRows, SameTapes
  <1> QED  BY <1>1, <1>2, ActStep DEF Types

LEMMA ViewTapeEffect ==
  ASSUME StepInv, NEW p \in Procs, ViewTape(p) PROVE Quiet(p) /\ StepInv'
  <1>1. /\ Types /\ Working(p) /\ phase[p] = "ensure" /\ step[p] = "check"
        /\ IsPlace(phase[p], step[p], verdicts[p])
    BY DEF StepInv, Control, ViewTape, At
  <1>2. CASE Tape(p) = <<>>
    <2>1. GoesTo(p, "goal", "read", verdicts[p])
      BY <1>1, <1>2, Stands DEF ViewTape
    <2>2. IsPlace("goal", "read", verdicts[p])
      BY <1>1 DEF IsPlace, StepsOf, Phases
    <2>3. StepInv'
      BY <1>1, <2>1, <2>2, MoveStep DEF ViewTape
    <2>4. \A status \in Scored : ~OwesAt("goal", "read", verdicts[p], status) /\ ~Owes(p, status)
      BY <1>1 DEF OwesAt, Owes, Scored, Standings
    <2> QED  BY <2>1, <2>2, <2>3, <2>4 DEF Quiet, ViewTape
  <1>3. CASE Tape(p) # <<>>
    <2>1. PICK ph \in {"work", "verdict", "claim", "mark"}, st \in {"check", "enter"}, left \in Seq({"pass", "fail"}) :
            GoesTo(p, ph, st, left) /\ IsPlace(ph, st, left)
      BY <1>1, <1>3, WorkGoesTo DEF ViewTape
    <2>2. StepInv'
      BY <1>1, <2>1, MoveStep DEF ViewTape
    <2>3. \A status \in Scored : ~OwesAt(ph, st, left, status) /\ ~Owes(p, status)
      BY <1>1, <2>1 DEF OwesAt, Owes, Scored, Standings
    <2> QED  BY <2>1, <2>2, <2>3 DEF Quiet, ViewTape
  <1> QED  BY <1>2, <1>3

LEMMA CheckTapeEffect ==
  ASSUME StepInv, NEW p \in Procs, CheckTape(p) PROVE Quiet(p) /\ StepInv'
  <1>1. /\ Types /\ Working(p) /\ phase[p] # "ensure" /\ step[p] = "check"
        /\ IsPlace(phase[p], step[p], verdicts[p])
    BY DEF StepInv, Control, CheckTape
  <1>2. PICK ph, st, left :
          /\ GoesTo(p, ph, st, left) /\ IsPlace(ph, st, left)
          /\ \A status \in Scored : (OwesAt(ph, st, left, status) <=> Owes(p, status))
          /\ st # "insert"
    <2>1. CASE Legal(p)
      <3>1. GoesTo(p, phase[p], "read", verdicts[p])
        BY <1>1, <2>1, Stands DEF CheckTape
      <3>2. IsPlace(phase[p], "read", verdicts[p])
        BY <1>1 DEF IsPlace, StepsOf, Phases
      <3>3. \A status \in Scored : OwesAt(phase[p], "read", verdicts[p], status) <=> Owes(p, status)
        BY <1>1 DEF OwesAt, Owes, Scored, Standings
      <3> QED  BY <3>1, <3>2, <3>3
    <2>2. CASE ~Legal(p)
      BY <1>1, <2>2, DeclinedGoesTo DEF CheckTape
    <2> QED  BY <2>1, <2>2
  <1>3. StepInv'
    BY <1>1, <1>2, MoveStep DEF CheckTape
  <1> QED  BY <1>2, <1>3 DEF Quiet, CheckTape

LEMMA ClaimGateEffect ==
  ASSUME StepInv, NEW p \in Procs, ClaimGate(p) PROVE Quiet(p) /\ StepInv'
  <1>1. /\ Types /\ Working(p) /\ phase[p] = "claim" /\ step[p] = "enter"
        /\ IsPlace(phase[p], step[p], verdicts[p])
    BY DEF StepInv, Control, ClaimGate, At
  <1>2. PICK ph \in {"mark", "claim"}, st \in {"enter", "check"} :
          GoesTo(p, ph, st, verdicts[p]) /\ IsPlace(ph, st, verdicts[p])
    <2>1. IsPlace("mark", "enter", verdicts[p]) /\ IsPlace("claim", "check", verdicts[p])
      BY <1>1 DEF IsPlace, StepsOf, Phases
    <2> QED  BY <1>1, <2>1, Stands DEF ClaimGate
  <1>3. StepInv'
    BY <1>1, <1>2, MoveStep DEF ClaimGate
  <1>4. \A status \in Scored : ~OwesAt(ph, st, verdicts[p], status) /\ ~Owes(p, status)
    BY <1>1, <1>2 DEF OwesAt, Owes, Scored, Standings
  <1> QED  BY <1>2, <1>3, <1>4 DEF Quiet, ClaimGate

\* The kind of the cell a phase appends, and the verdict it carries.
LEMMA AppendsCell ==
  ASSUME Types, NEW p \in Procs, IsPlace(phase[p], step[p], verdicts[p]), step[p] = "read"
  PROVE  /\ KindOf(p) \in Kinds /\ PassedOf(p) \in Verdicts
  <1>1. phase[p] \in {"goal", "spec", "work", "followup", "verdict", "claim"}
    BY DEF IsPlace, StepsOf, Phases
  <1>2. phase[p] = "verdict" => Head(verdicts[p]) \in {"pass", "fail"}
    BY TailOfSome DEF IsPlace
  <1>3. KindOf(p) \in Kinds
    BY <1>1 DEF KindOf, Kinds
  <1> QED  BY <1>1, <1>2, <1>3 DEF KindOf, PassedOf, Verdicts

LEMMA CellTypes ==
  ASSUME NEW tape \in Seq(Cell), NEW kind \in Kinds, NEW passed \in Verdicts
  PROVE  CellAfter(TapeState(tape), kind, passed) \in Cell
  <1>1. TapeState(tape) \in States
    <2>1. CASE Len(tape) = 0
      BY <2>1 DEF TapeState, StateAfter, States
    <2>2. CASE Len(tape) # 0
      <3>1. tape[Len(tape)] \in Cell
        BY <2>2, ElementOfSeq, LenProperties
      <3> QED  BY <3>1, <2>2 DEF TapeState, StateAfter, Cell
    <2> QED  BY <2>1, <2>2
  <1>2. StateAfterForCell(kind) \in States
    BY DEF Kinds, States, StateAfterForCell
  <1> QED  BY <1>1, <1>2 DEF CellAfter, Cell

LEMMA ReadTapeEffect ==
  ASSUME StepInv, NEW p \in Procs, ReadTape(p)
  PROVE  /\ GoesTo(p, phase[p], "insert", verdicts[p]) /\ step[p] = "read" /\ StepInv'
         /\ UNCHANGED <<runnerVars, tapes, attempt>>
  <1> DEFINE cell == CellAfter(TapeState(Tape(p)), KindOf(p), PassedOf(p))
             next == [index |-> Len(Tape(p)) + 1, cell |-> cell]
  <1>1. /\ Types /\ Working(p) /\ step[p] = "read" /\ IsPlace(phase[p], step[p], verdicts[p])
    BY DEF StepInv, Control, ReadTape
  <1>2. Tape(p) \in Seq(Cell) /\ Len(Tape(p)) \in Nat
    BY <1>1, FactTypes, LenProperties DEF Types, Tape
  <1>3. /\ cell \in Cell
        /\ cell.kind = KindOf(p) /\ cell.passed = PassedOf(p)
    BY <1>1, <1>2, AppendsCell, CellTypes DEF CellAfter
  <1>4. row' = [row EXCEPT ![p] = next] /\ UNCHANGED <<runnerVars, tapes, attempt>>
    BY DEF ReadTape
  <1> HIDE DEF cell
  <1>5. next \in NextRow
    BY <1>2, <1>3 DEF NextRow
  <1>6. GoesTo(p, phase[p], "insert", verdicts[p])
    BY <1>1, Stands DEF ReadTape
  <1>7. IsPlace(phase[p], "insert", verdicts[p])
    BY <1>1 DEF IsPlace, StepsOf, Phases
  <1>8. next.index = Len(Tape(p)) + 1 /\ next.cell = cell
    OBVIOUS
  <1> HIDE DEF next
  <1>9. RowsStay /\ TapesGrow /\ attempt'[Attempt(p)] # None
    BY <1>1, <1>4, SameRows, SameTapes DEF StepInv, Control
  <1>10. next.index \in 1 .. Len(tapes'[RunOf[Attempt(p)]]) + 1
    BY <1>2, <1>4, <1>8 DEF Tape
  <1>11. row' \in [Procs -> NextRow \cup {None}] /\ row'[p] = next /\ \A q \in Procs \ {p} : row'[q] = row[q]
    BY <1>1, <1>4, <1>5 DEF Types
  <1>12. KindOf(p)' = KindOf(p) /\ PassedOf(p)' = PassedOf(p)
    BY <1>1, <1>6 DEF GoesTo, Goto, Types, KindOf, PassedOf, Passed
  <1>13. StepInv'
    BY <1>1, <1>3, <1>4, <1>5, <1>6, <1>7, <1>8, <1>9, <1>10, <1>11, <1>12, ActStep
  <1> QED  BY <1>1, <1>4, <1>6, <1>13

\* The cell that backs a status.
Backs(cell, status) ==
  CASE status = "working"              -> cell.kind = "worker_action"
    [] status = "passed"               -> cell.passed = "pass"
    [] status = "failed"               -> cell.passed = "fail"
    [] status = "claimed_without_pass" -> cell.kind = "assistant_claim"

\* A cell at the end of a tape.
LEMMA AppendGrows ==
  ASSUME Types, NEW r \in Runs, NEW cell \in Cell, tapes' = [tapes EXCEPT ![r] = Append(@, cell)]
  PROVE  /\ TapesGrow
         /\ Len(tapes[r]) + 1 \in DOMAIN tapes'[r] \ DOMAIN tapes[r]
         /\ DOMAIN tapes'[r] = DOMAIN tapes[r] \cup {Len(tapes[r]) + 1}
         /\ tapes'[r][Len(tapes[r]) + 1] = cell
  <1>1. tapes[r] \in Seq(Cell) /\ tapes'[r] = Append(tapes[r], cell)
    BY DEF Types
  <1>2. /\ Append(tapes[r], cell) \in Seq(Cell) /\ Len(Append(tapes[r], cell)) = Len(tapes[r]) + 1
        /\ \A i \in 1 .. Len(tapes[r]) : Append(tapes[r], cell)[i] = tapes[r][i]
        /\ Append(tapes[r], cell)[Len(tapes[r]) + 1] = cell
    BY <1>1, AppendProperties
  <1>3. /\ DOMAIN tapes[r] = 1 .. Len(tapes[r]) /\ Len(tapes[r]) \in Nat
        /\ DOMAIN tapes'[r] = 1 .. Len(tapes[r]) + 1
    BY <1>1, <1>2, LenProperties
  <1>4. \A s \in Runs : s # r => tapes'[s] = tapes[s] /\ Len(tapes[s]) \in Nat
    BY LenProperties DEF Types
  <1>5. tapes' \in [Runs -> Seq(Cell)]
    BY <1>1, <1>2 DEF Types
  <1> QED  BY <1>1, <1>2, <1>3, <1>4, <1>5 DEF TapesGrow

\* The row that the unique index lets in is the one after the last.
LEMMA InsertAppends ==
  ASSUME StepInv, NEW p \in Procs, InsertCell(p)
  PROVE  /\ RunOf[Attempt(p)] \in Runs /\ row[p].cell \in Cell
         /\ tapes' = [tapes EXCEPT ![RunOf[Attempt(p)]] = Append(@, row[p].cell)]
  <1>1. Types /\ Working(p) /\ RowFits(p) /\ step[p] = "insert"
    BY DEF StepInv, InsertCell
  <1>2. PICK r \in Runs : r = RunOf[Attempt(p)]
    BY <1>1, FactTypes
  <1> DEFINE n == row[p].index
             cell == row[p].cell
             new == [i \in DOMAIN tapes[r] \cup {n} |-> IF i = n THEN cell ELSE tapes[r][i]]
  <1>3. cell \in Cell /\ n \in Nat
    BY <1>1 DEF RowFits, NextRow
  <1>4. /\ tapes[r] \in Seq(Cell) /\ DOMAIN tapes[r] = 1 .. Len(tapes[r]) /\ Len(tapes[r]) \in Nat
    BY LenProperties, <1>1 DEF Types
  <1>5. n = Len(tapes[r]) + 1
    BY <1>1, <1>2, <1>4 DEF RowFits, InsertCell, CanInsert, Tape
  <1> HIDE DEF n, cell
  <1>6. new = Append(tapes[r], cell)
    <2>1. DOMAIN new = 1 .. Len(tapes[r]) + 1 /\ DOMAIN new = DOMAIN tapes[r] \cup {n}
      BY <1>4, <1>5
    <2>2. \A i \in DOMAIN tapes[r] : tapes[r][i] \in Cell
      BY <1>4, ElementOfSeq
    <2>3. new \in [1 .. Len(tapes[r]) + 1 -> Cell]
      BY <1>3, <2>1, <2>2
    <2>4. new \in Seq(Cell)
      <3>1. Len(tapes[r]) + 1 \in Nat
        BY <1>4
      <3> HIDE DEF new
      <3> QED  BY <2>3, <3>1, SeqDef
    <2>5. Len(new) = Len(tapes[r]) + 1
      BY <1>4, <2>1, <2>4, LenProperties
    <2>6. /\ Append(tapes[r], cell) \in Seq(Cell) /\ Len(Append(tapes[r], cell)) = Len(tapes[r]) + 1
          /\ \A i \in 1 .. Len(tapes[r]) : Append(tapes[r], cell)[i] = tapes[r][i]
          /\ Append(tapes[r], cell)[Len(tapes[r]) + 1] = cell
      BY <1>3, <1>4, AppendProperties
    <2>7. \A i \in 1 .. Len(new) : new[i] = Append(tapes[r], cell)[i]
      BY <1>4, <1>5, <2>1, <2>5, <2>6
    <2> HIDE DEF new
    <2> QED  BY <2>4, <2>5, <2>6, <2>7, SeqEqual
  <1>7. tapes' = [tapes EXCEPT ![r] = new]
    BY <1>1, <1>2 DEF InsertCell, Types, n, cell
  <1> HIDE DEF new
  <1>8. tapes' = [tapes EXCEPT ![r] = Append(@, cell)]
    BY <1>1, <1>6, <1>7 DEF Types
  <1> QED  BY <1>2, <1>3, <1>8 DEF cell

\* Where the caller goes after its cell is on the tape: it owes the status for it.
LEMMA InsertCellEffect ==
  ASSUME StepInv, NEW p \in Procs, InsertCell(p)
  PROVE  /\ \E ph, st, left :
              /\ GoesTo(p, ph, st, left) /\ IsPlace(ph, st, left) /\ st # "insert"
              /\ \A status \in Scored :
                   OwesAt(ph, st, left, status) <=> Owes(p, status) \/ Backs(row[p].cell, status)
         /\ \A status \in Scored : ~(Owes(p, status) /\ Backs(row[p].cell, status))
         /\ StepInv' /\ Working(p) /\ UNCHANGED <<runnerVars, attempt>>
  <1>1. /\ Types /\ Working(p) /\ step[p] = "insert" /\ IsPlace(phase[p], step[p], verdicts[p])
        /\ RowFits(p) /\ attempt[Attempt(p)] # None
    BY DEF StepInv, Control, InsertCell
  <1>2. phase[p] \in {"goal", "spec", "work", "followup", "verdict", "claim"}
    BY <1>1 DEF IsPlace, StepsOf, Phases
  <1> DEFINE Owing(ph, st, left) ==
        /\ GoesTo(p, ph, st, left) /\ IsPlace(ph, st, left) /\ st # "insert"
        /\ \A status \in Scored :
             OwesAt(ph, st, left, status) <=> Owes(p, status) \/ Backs(row[p].cell, status)
        Exclusive == \A status \in Scored : ~(Owes(p, status) /\ Backs(row[p].cell, status))
  <1>3. (\E ph, st, left : Owing(ph, st, left)) /\ Exclusive
    <2>1. row[p].cell.kind = KindOf(p) /\ row[p].cell.passed = PassedOf(p)
      BY <1>1 DEF RowFits
    <2>2. CASE phase[p] \in {"goal", "spec"}
      <3>1. \A status \in Scored : ~Owes(p, status) /\ ~Backs(row[p].cell, status)
        BY <2>1, <2>2 DEF KindOf, PassedOf, Backs, OwesAt, Owes, Scored, Standings
      <3>2. CASE phase[p] = "goal"
        <4>1. GoesTo(p, "spec", "read", verdicts[p])
          BY <1>1, <3>2, Stands DEF InsertCell, Appended
        <4>2. Owing("spec", "read", verdicts[p])
          BY <1>1, <3>1, <4>1 DEF IsPlace, StepsOf, Phases, OwesAt, Scored, Standings
        <4> QED  BY <3>1, <4>2
      <3>3. CASE phase[p] = "spec"
        <4>1. PICK ph \in {"work", "verdict", "claim", "mark"}, st \in {"check", "enter"},
                   left \in Seq({"pass", "fail"}) : GoesTo(p, ph, st, left) /\ IsPlace(ph, st, left)
          BY <1>1, <3>3, WorkGoesTo DEF InsertCell, Appended
        <4>2. Owing(ph, st, left)
          BY <3>1, <4>1 DEF OwesAt, Scored, Standings
        <4> QED  BY <3>1, <4>2
      <3> QED  BY <2>2, <3>2, <3>3
    <2>3. CASE phase[p] = "work"
      <3>1. GoesTo(p, "work", "score", verdicts[p])
        BY <1>1, <2>3, Stands DEF InsertCell, Appended
      <3>2. \A status \in Scored : /\ ~Owes(p, status)
                                   /\ Backs(row[p].cell, status) <=> status = "working"
        BY <1>1, <2>1, <2>3 DEF KindOf, PassedOf, Backs, OwesAt, Owes, Scored, Standings
      <3>3. Owing("work", "score", verdicts[p])
        BY <1>1, <3>1, <3>2 DEF IsPlace, StepsOf, Phases, OwesAt, Scored, Standings
      <3> QED  BY <3>2, <3>3
    <2>4. CASE phase[p] = "verdict"
      <3>1. GoesTo(p, "followup", "check", verdicts[p])
        BY <1>1, <2>4, Stands DEF InsertCell, Appended
      <3>2. Head(verdicts[p]) \in {"pass", "fail"}
        BY <1>1, <2>4, TailOfSome DEF IsPlace
      <3>3. \A status \in Scored :
              /\ ~Owes(p, status)
              /\ Backs(row[p].cell, status) <=> OwesAt("followup", "check", verdicts[p], status)
        BY <2>1, <2>4, <3>2 DEF KindOf, PassedOf, Backs, OwesAt, Owes, Scored, Standings
      <3>4. Owing("followup", "check", verdicts[p])
        BY <1>1, <2>4, <3>1, <3>3 DEF IsPlace, StepsOf, Phases
      <3> QED  BY <3>3, <3>4
    <2>5. CASE phase[p] = "followup"
      <3>1. GoesTo(p, "followup", "score", verdicts[p])
        BY <1>1, <2>5, Stands DEF InsertCell, Appended
      <3>2. \A status \in Scored :
              /\ ~Backs(row[p].cell, status)
              /\ OwesAt("followup", "score", verdicts[p], status) <=> Owes(p, status)
        BY <2>1, <2>5 DEF KindOf, PassedOf, Backs, OwesAt, Owes, Scored, Standings
      <3>3. Owing("followup", "score", verdicts[p])
        BY <1>1, <2>5, <3>1, <3>2 DEF IsPlace, StepsOf, Phases
      <3> QED  BY <3>2, <3>3
    <2>6. CASE phase[p] = "claim"
      <3>1. GoesTo(p, "claim", "score", verdicts[p])
        BY <1>1, <2>6, Stands DEF InsertCell, Appended
      <3>2. \A status \in Scored : /\ ~Owes(p, status)
                                   /\ Backs(row[p].cell, status) <=> status = "claimed_without_pass"
        BY <1>1, <2>1, <2>6 DEF KindOf, PassedOf, Backs, OwesAt, Owes, Scored, Standings
      <3>3. Owing("claim", "score", verdicts[p])
        BY <1>1, <3>1, <3>2 DEF IsPlace, StepsOf, Phases, OwesAt, Scored, Standings
      <3> QED  BY <3>2, <3>3
    <2> QED  BY <1>2, <2>2, <2>3, <2>4, <2>5, <2>6
  <1>4. RowsStay /\ TapesGrow
    BY <1>1, SameRows, InsertAppends, AppendGrows DEF InsertCell
  <1>5. row' \in [Procs -> NextRow \cup {None}] /\ \A q \in Procs \ {p} : row'[q] = row[q]
    BY <1>1 DEF Types, InsertCell
  <1>6. StepInv'
    BY <1>1, <1>3, <1>4, <1>5, ActStep DEF InsertCell
  <1> QED  BY <1>1, <1>3, <1>6 DEF InsertCell

\* What a cell is worth to the attempt whose status it backs.
Points(status) ==
  CASE status = "working"              -> 1
    [] status = "passed"               -> 5
    [] status = "failed"               -> 2
    [] status = "claimed_without_pass" -> -3

\* A process that sets a status owed it, and owes nothing more.
LEMMA AddScoreEffect ==
  ASSUME StepInv, NEW p \in Procs, AddScore(p)
  PROVE  /\ \E ph, st, left :
              /\ GoesTo(p, ph, st, left) /\ IsPlace(ph, st, left) /\ st # "insert"
              /\ \A status \in Scored : ~OwesAt(ph, st, left, status)
         /\ Delta(p).status \in Scored /\ Delta(p).score = Points(Delta(p).status)
         /\ \A status \in Scored : Delta(p).status = status <=> Owes(p, status)
         /\ attempt[Attempt(p)] # None /\ attempt'[Attempt(p)] # None
         /\ attempt'[Attempt(p)].status = Delta(p).status
         /\ attempt'[Attempt(p)].score = attempt[Attempt(p)].score + Delta(p).score
         /\ \A a \in Attempts : a # Attempt(p) => attempt'[a] = attempt[a]
         /\ StepInv' /\ Working(p) /\ UNCHANGED <<runnerVars, tapes>>
  <1>1. /\ Types /\ Working(p) /\ step[p] = "score" /\ IsPlace(phase[p], step[p], verdicts[p])
        /\ attempt[Attempt(p)] # None /\ Attempt(p) \in Attempts
    BY FactTypes DEF StepInv, Control, AddScore
  <1>2. phase[p] \in {"work", "followup", "claim"}
    BY <1>1 DEF IsPlace, StepsOf, Phases
  <1>3. PICK ph, st, left :
              /\ GoesTo(p, ph, st, left) /\ IsPlace(ph, st, left) /\ st # "insert"
              /\ \A status \in Scored : ~OwesAt(ph, st, left, status)
    <2>1. ASSUME NEW left \in Seq({"pass", "fail"}), GotoRest(p, left)
          PROVE  \E ph, st : /\ GoesTo(p, ph, st, left) /\ IsPlace(ph, st, left) /\ st # "insert"
                             /\ \A status \in Scored : ~OwesAt(ph, st, left, status)
      <3>1. PICK ph \in {"verdict", "claim", "mark"}, st \in {"check", "enter"} :
              GoesTo(p, ph, st, left) /\ IsPlace(ph, st, left)
        BY <1>1, <2>1, RestGoesTo
      <3> QED  BY <3>1 DEF OwesAt, Owes, Scored, Standings
    <2>2. CASE phase[p] = "work"
      <3>1. GotoRest(p, verdicts[p]) /\ verdicts[p] \in Seq({"pass", "fail"})
        BY <1>1, <2>2 DEF AddScore, IsPlace
      <3> QED  BY <2>1, <3>1
    <2>3. CASE phase[p] = "followup"
      <3>1. GotoRest(p, Tail(verdicts[p])) /\ Tail(verdicts[p]) \in Seq({"pass", "fail"})
        BY <1>1, <2>3, TailOfSome DEF AddScore, IsPlace
      <3> QED  BY <2>1, <3>1
    <2>4. CASE phase[p] = "claim"
      <3>1. GoesTo(p, "mark", "enter", verdicts[p])
        BY <1>1, <2>4, Stands DEF AddScore
      <3> QED  BY <1>1, <3>1 DEF IsPlace, StepsOf, Phases, OwesAt, Owes, Scored, Standings
    <2> QED  BY <1>2, <2>2, <2>3, <2>4
  <1>4. /\ Delta(p).status \in Statuses /\ Delta(p).score \in Int
        /\ Delta(p).status \in Scored /\ Delta(p).score = Points(Delta(p).status)
        /\ \A status \in Scored : Delta(p).status = status <=> Owes(p, status)
    BY <1>1, <1>2 DEF Delta, Statuses, Scored, Standings, Owes, OwesAt, Passed, Points
  <1>5. PICK a \in Attempts : a = Attempt(p)
    BY <1>1
  <1>6. attempt[a] \in AttemptRow
    BY <1>1, <1>5 DEF Types
  <1>7. /\ attempt' = [attempt EXCEPT ![a] = [status |-> Delta(p).status, score |-> attempt[a].score + Delta(p).score]]
        /\ [status |-> Delta(p).status, score |-> attempt[a].score + Delta(p).score] \in AttemptRow
    BY <1>1, <1>4, <1>5, <1>6 DEF AddScore, AttemptRow
  <1>8. /\ RowsStay /\ attempt'[a] # None
        /\ attempt'[a].status = Delta(p).status /\ attempt'[a].score = attempt[a].score + Delta(p).score
    BY <1>1, <1>7, ExerciseAssumption DEF Types, RowsStay
  <1>9. TapesGrow /\ row' = row
    BY <1>1, SameTapes DEF AddScore
  <1>10. StepInv'
    BY <1>1, <1>3, <1>5, <1>8, <1>9, ActStep DEF AddScore, Types
  <1>11. \A b \in Attempts : b # a => attempt'[b] = attempt[b]
    BY <1>1, <1>7 DEF Types
  <1> QED  BY <1>1, <1>3, <1>4, <1>5, <1>8, <1>10, <1>11 DEF AddScore

-----------------------------------------------------------------------------
(* The steps of the runner.                                                *)

\* A process between two events.
LEMMA LeaveStep ==
  ASSUME StepInv, NEW p \in Procs, Types', RowsStay, TapesGrow,
         phase'[p] = "ensure", step'[p] = "enter", p \notin running' => batch'[p] = <<>>,
         \A q \in Procs \ {p} : /\ phase'[q] = phase[q] /\ step'[q] = step[q] /\ verdicts'[q] = verdicts[q]
                                /\ row'[q] = row[q] /\ batch'[q] = batch[q] /\ (q \in running' <=> q \in running)
  PROVE  StepInv'
  <1>1. Control(p)'
    BY DEF Control, IsPlace, StepsOf, Phases, Types
  <1>2. RowFits(p)'
    BY DEF RowFits
  <1>3. \A q \in Procs \ {p} : (Control(q) /\ RowFits(q))'
    BY OthersStay
  <1> QED  BY <1>1, <1>2, <1>3 DEF StepInv

LEMMA MarkStep ==
  ASSUME StepInv, NEW p \in Procs, Mark(p)
  PROVE  StepInv' /\ phase'[p] = "ensure" /\ UNCHANGED <<tapes, attempt>>
  <1>1. Types /\ Working(p) /\ batch[p] \in Seq(recorded) /\ batch[p] # <<>>
    BY DEF StepInv, Types, Mark, At, Working
  <1>2. Current(p) \in recorded /\ Tail(batch[p]) \in Seq(recorded)
    BY <1>1, HeadTailProperties DEF Current
  <1>3. /\ normalized' = normalized \cup {Current(p)} /\ batch' = [batch EXCEPT ![p] = Tail(batch[p])]
        /\ phase' = [phase EXCEPT ![p] = "ensure"] /\ step' = [step EXCEPT ![p] = "enter"]
        /\ UNCHANGED <<recorded, running, aborts, tapes, attempt, verdicts, row, manual>>
    BY DEF Mark, MarkNormalized, Goto
  <1>4. Types'
    BY <1>1, <1>2, <1>3 DEF Types, Phases, Steps
  <1>5. RowsStay /\ TapesGrow
    BY <1>1, <1>3, SameRows, SameTapes
  <1>6. p \in running'
    BY <1>1, <1>3 DEF Working
  <1> QED  BY <1>1, <1>3, <1>4, <1>5, <1>6, LeaveStep DEF Types

LEMMA AbortStep ==
  ASSUME StepInv, NEW p \in Procs, Abort(p)
  PROVE  StepInv' /\ phase'[p] = "ensure" /\ UNCHANGED <<tapes, attempt>>
  <1>1. /\ running' = running \ {p} /\ batch' = [batch EXCEPT ![p] = <<>>]
        /\ phase' = [phase EXCEPT ![p] = "ensure"] /\ step' = [step EXCEPT ![p] = "enter"]
        /\ verdicts' = [verdicts EXCEPT ![p] = <<>>] /\ row' = [row EXCEPT ![p] = None]
        /\ aborts' \in 0 .. MaxAborts
        /\ UNCHANGED <<recorded, normalized, tapes, attempt, manual>>
    BY RunnerAssumption DEF Abort, AbortRun, Goto, StepInv, Types
  <1>2. <<>> \in Seq(recorded) /\ <<>> \in Seq({"pass", "fail"}) /\ Types
    BY EmptySeq DEF StepInv
  <1>3. Types'
    BY <1>1, <1>2 DEF Types, Phases, Steps
  <1>4. RowsStay /\ TapesGrow
    BY <1>1, <1>2, SameRows, SameTapes
  <1> QED  BY <1>1, <1>2, <1>3, <1>4, LeaveStep DEF Types

LEMMA RecordEventStep ==
  ASSUME StepInv, NEW e \in Events, RecordEvent(e), UNCHANGED exerciseVars
  PROVE  StepInv'
  <1>1. \A p \in Procs : batch[p] \in Seq(recorded')
    BY SeqMonotonic DEF StepInv, Types, RecordEvent
  <1>2. Types'
    BY <1>1 DEF StepInv, Types, RecordEvent, exerciseVars
  <1>3. \A p \in Procs : KindOf(p)' = KindOf(p) /\ PassedOf(p)' = PassedOf(p)
    BY DEF KindOf, PassedOf, Passed, exerciseVars
  <1> QED
    BY <1>2, <1>3 DEF StepInv, Control, RowFits, Working, Attempt, Fact, Current, RecordEvent, exerciseVars

LEMMA ListEventsStep ==
  ASSUME StepInv, NEW p \in Procs, ListEvents(p), UNCHANGED exerciseVars
  PROVE  StepInv' /\ phase'[p] = "ensure" /\ UNCHANGED <<tapes, attempt>>
  <1> DEFINE listed == recorded \ normalized
  <1>1. /\ p \notin running /\ running' = running \cup {p}
        /\ UNCHANGED <<recorded, normalized, aborts, tapes, attempt, phase, step, verdicts, row, manual>>
    BY DEF ListEvents, exerciseVars
  <1>2. PICK events \in [1 .. Cardinality(listed) -> listed] : batch' = [batch EXCEPT ![p] = events]
    BY DEF ListEvents
  <1>3. Types /\ phase[p] = "ensure" /\ step[p] = "enter"
    BY <1>1 DEF StepInv, Control, Working
  <1>4. events \in Seq(recorded)
    <2>1. listed \subseteq Events
      BY <1>3 DEF Types
    <2>2. IsFiniteSet(listed) /\ Cardinality(listed) \in Nat
      BY <2>1, RunnerAssumption, FS_Subset, FS_CardinalityType
    <2>3. events \in [1 .. Cardinality(listed) -> recorded]
      BY <1>2
    <2> HIDE DEF listed
    <2> QED  BY <2>2, <2>3, SeqDef
  <1>5. Types'
    BY <1>1, <1>2, <1>3, <1>4 DEF Types
  <1>6. RowsStay /\ TapesGrow
    BY <1>1, <1>3, SameRows, SameTapes
  <1> QED  BY <1>1, <1>2, <1>3, <1>5, <1>6, LeaveStep DEF Types

LEMMA EndRunStep ==
  ASSUME StepInv, NEW p \in Procs, EndRun(p), UNCHANGED exerciseVars
  PROVE  StepInv' /\ phase'[p] = "ensure" /\ UNCHANGED <<tapes, attempt>>
  <1>1. /\ batch[p] = <<>> /\ running' = running \ {p}
        /\ UNCHANGED <<recorded, normalized, batch, aborts, tapes, attempt, phase, step, verdicts, row, manual>>
    BY DEF EndRun, exerciseVars
  <1>2. Types /\ phase[p] = "ensure" /\ step[p] = "enter"
    BY <1>1 DEF StepInv, Control, Working
  <1>3. Types' /\ RowsStay /\ TapesGrow
    BY <1>1, <1>2, SameRows, SameTapes DEF Types
  <1> QED  BY <1>1, <1>2, <1>3, LeaveStep

LEMMA RecordByHandStep ==
  ASSUME StepInv, NEW r \in Runs, NEW kind \in Kinds, NEW passed \in Verdicts, RecordByHand(r, kind, passed)
  PROVE  StepInv' /\ TapesGrow /\ UNCHANGED <<runnerVars, attempt, phase, step, verdicts, row>>
  <1> DEFINE cell == CellAfter(TapeState(tapes[r]), kind, passed)
  <1>1. /\ tapes' = [tapes EXCEPT ![r] = Append(@, cell)]
        /\ UNCHANGED <<runnerVars, attempt, phase, step, verdicts, row>>
    BY DEF RecordByHand
  <1>2. Types
    BY DEF StepInv
  <1>3. cell \in Cell
    BY <1>2, CellTypes DEF Types
  <1> HIDE DEF cell
  <1>4. TapesGrow /\ RowsStay
    BY <1>1, <1>2, <1>3, AppendGrows, SameRows
  <1>5. Types'
    BY <1>1, <1>2, <1>4 DEF Types, TapesGrow, runnerVars
  <1>6. \A q \in Procs : (Control(q) /\ RowFits(q))'
    <2> TAKE q \in Procs
    <2>1. Control(q)'
      BY <1>1, <1>2, <1>4 DEF StepInv, Control, Working, Attempt, Fact, Current, runnerVars
    <2>2. \A s \in Runs : Len(tapes[s]) \in Nat /\ Len(tapes'[s]) \in Nat /\ Len(tapes[s]) <= Len(tapes'[s])
      BY <1>2, <1>4, LenProperties DEF Types, TapesGrow
    <2>3. RowFits(q)
      BY DEF StepInv
    <2>4. KindOf(q)' = KindOf(q) /\ PassedOf(q)' = PassedOf(q)
      BY <1>1 DEF KindOf, PassedOf, Passed
    <2>5. RowFits(q)'
      BY <1>1, <2>2, <2>3, <2>4 DEF RowFits, Attempt, Fact, Current, runnerVars
    <2> QED  BY <2>1, <2>5
  <1> QED  BY <1>1, <1>4, <1>5, <1>6 DEF StepInv

LEMMA InitStep == Init => StepInv
  <1> SUFFICES ASSUME Init PROVE StepInv
    OBVIOUS
  <1>1. <<>> \in Seq(recorded) /\ <<>> \in Seq({"pass", "fail"}) /\ <<>> \in Seq(Cell)
    BY EmptySeq
  <1>2. Types
    BY <1>1, RunnerAssumption DEF Init, RunnerInit, Types, Phases, Steps
  <1>3. \A p \in Procs : Control(p) /\ RowFits(p)
    BY <1>1 DEF Init, RunnerInit, Control, RowFits, IsPlace, StepsOf, Phases
  <1> QED  BY <1>2, <1>3 DEF StepInv

LEMMA NextStep == StepInv /\ [Next]_vars => StepInv'
  <1> SUFFICES ASSUME StepInv, [Next]_vars PROVE StepInv'
    OBVIOUS
  <1>1. CASE Runner
    BY <1>1, RecordEventStep, ListEventsStep, EndRunStep DEF Runner
  <1>2. ASSUME NEW p \in Procs, Apply(p) PROVE StepInv'
    BY <1>2, EnsureAttemptEffect, ViewTapeEffect, CheckTapeEffect, ReadTapeEffect, InsertCellEffect,
       AddScoreEffect, ClaimGateEffect, MarkStep DEF Apply
  <1>3. ASSUME NEW p \in Procs, Abort(p) PROVE StepInv'
    BY <1>3, AbortStep
  <1>4. ASSUME NEW r \in Runs, NEW kind \in Kinds, NEW passed \in Verdicts, RecordByHand(r, kind, passed)
        PROVE  StepInv'
    BY <1>4, RecordByHandStep
  <1>5. CASE UNCHANGED vars
    <2>1. \A p \in Procs : KindOf(p)' = KindOf(p) /\ PassedOf(p)' = PassedOf(p)
      BY <1>5 DEF KindOf, PassedOf, Passed, vars, exerciseVars
    <2> QED
      BY <1>5, <2>1
         DEF vars, runnerVars, exerciseVars, StepInv, Types, Control, RowFits, Working, Attempt, Fact, Current
  <1> QED  BY <1>1, <1>2, <1>3, <1>4, <1>5 DEF Next

LEMMA StepInvariance == Spec => []StepInv
  BY InitStep, NextStep, PTL DEF Spec

\* Tapes are sequences of cells, attempts have one of their statuses and an integer score,
\* and what a process is about to insert is a cell with a number.
THEOREM ExerciseTypes == Spec => []TypeOK
  <1>1. StepInv => TypeOK
    <2> SUFFICES ASSUME StepInv PROVE TypeOK
      OBVIOUS
    <2>1. \A p \in Procs : Range(batch[p]) \subseteq recorded
      BY RangeOfSeq DEF StepInv, Types
    <2> QED  BY <2>1 DEF StepInv, Types, TypeOK, RunnerTypeOK
  <1> QED  BY <1>1, StepInvariance, PTL

-----------------------------------------------------------------------------
(* The cells of a tape cover the attempts that stand on them and the       *)
(* statuses that are still to be set.                                      *)

LEMMA AddsAtMostOne ==
  ASSUME NEW S, IsFiniteSet(S), NEW x
  PROVE  IsFiniteSet(S \cup {x}) /\ Cardinality(S \cup {x}) <= Cardinality(S) + 1
  <1>1. Cardinality(S) \in Nat
    BY FS_CardinalityType
  <1>2. CASE x \in S
    BY <1>1, <1>2, FS_AddElement
  <1>3. CASE x \notin S
    BY <1>1, <1>3, FS_AddElement
  <1> QED  BY <1>2, <1>3

\* How many stand and are owed, against a backing that never shrinks: one more is owed
\* only for new backing, and one more stands only for a debt that is settled.
LEMMA Balances ==
  ASSUME NEW A, NEW B, NEW C, NEW A2, NEW B2, NEW C2,
         IsFiniteSet(A), IsFiniteSet(B), IsFiniteSet(C2), C \subseteq C2,
         Cardinality(A) + Cardinality(B) <= Cardinality(C),
         \/ A2 \subseteq A /\ B2 \subseteq B
         \/ A2 \subseteq A /\ \E p, y : B2 \subseteq B \cup {p} /\ y \in C2 \ C
         \/ \E a, p : A2 \subseteq A \cup {a} /\ p \in B /\ B2 \subseteq B \ {p}
  PROVE  Cardinality(A2) + Cardinality(B2) <= Cardinality(C2)
  <1>1. IsFiniteSet(C) /\ Cardinality(C) <= Cardinality(C2)
    BY FS_Subset
  <1>2. /\ Cardinality(A) \in Nat /\ Cardinality(B) \in Nat
        /\ Cardinality(C) \in Nat /\ Cardinality(C2) \in Nat
    BY <1>1, FS_CardinalityType
  <1>3. CASE A2 \subseteq A /\ B2 \subseteq B
    <2>1. IsFiniteSet(A2) /\ IsFiniteSet(B2) /\ Cardinality(A2) <= Cardinality(A) /\ Cardinality(B2) <= Cardinality(B)
      BY <1>3, FS_Subset
    <2>2. Cardinality(A2) \in Nat /\ Cardinality(B2) \in Nat
      BY <2>1, FS_CardinalityType
    <2> QED  BY <1>1, <1>2, <2>1, <2>2
  <1>4. ASSUME NEW p, NEW y, A2 \subseteq A, B2 \subseteq B \cup {p}, y \in C2 \ C
        PROVE  Cardinality(A2) + Cardinality(B2) <= Cardinality(C2)
    <2>1. IsFiniteSet(A2) /\ Cardinality(A2) <= Cardinality(A)
      BY <1>4, FS_Subset
    <2>2. IsFiniteSet(B \cup {p}) /\ Cardinality(B \cup {p}) <= Cardinality(B) + 1
      BY AddsAtMostOne
    <2>3. IsFiniteSet(B2) /\ Cardinality(B2) <= Cardinality(B \cup {p})
      BY <1>4, <2>2, FS_Subset
    <2>4. IsFiniteSet(C \cup {y}) /\ Cardinality(C \cup {y}) = Cardinality(C) + 1
      BY <1>1, <1>4, FS_AddElement
    <2>5. C \cup {y} \in SUBSET C2
      BY <1>4
    <2>6. Cardinality(C \cup {y}) <= Cardinality(C2)
      BY <2>5, FS_Subset
    <2>7. Cardinality(A2) \in Nat /\ Cardinality(B2) \in Nat /\ Cardinality(B \cup {p}) \in Nat
      BY <2>1, <2>2, <2>3, FS_CardinalityType
    <2> QED  BY <1>2, <2>1, <2>2, <2>3, <2>4, <2>6, <2>7
  <1>5. ASSUME NEW a, NEW p, A2 \subseteq A \cup {a}, p \in B, B2 \subseteq B \ {p}
        PROVE  Cardinality(A2) + Cardinality(B2) <= Cardinality(C2)
    <2>1. IsFiniteSet(A \cup {a}) /\ Cardinality(A \cup {a}) <= Cardinality(A) + 1
      BY AddsAtMostOne
    <2>2. IsFiniteSet(A2) /\ Cardinality(A2) <= Cardinality(A \cup {a})
      BY <1>5, <2>1, FS_Subset
    <2>3. IsFiniteSet(B \ {p}) /\ Cardinality(B \ {p}) = Cardinality(B) - 1
      BY <1>5, FS_RemoveElement
    <2>4. IsFiniteSet(B2) /\ Cardinality(B2) <= Cardinality(B \ {p})
      BY <1>5, <2>3, FS_Subset
    <2>5. Cardinality(A2) \in Nat /\ Cardinality(B2) \in Nat /\ Cardinality(A \cup {a}) \in Nat
      BY <2>1, <2>2, <2>4, FS_CardinalityType
    <2> QED  BY <1>1, <1>2, <2>1, <2>2, <2>3, <2>4, <2>5
  <1> QED  BY <1>3, <1>4, <1>5

LEMMA FiniteStandings ==
  ASSUME StepInv, NEW r \in Runs, NEW status \in Standings
  PROVE  IsFiniteSet(StandingAt(r, status)) /\ IsFiniteSet(OwedTo(r, status)) /\ IsFiniteSet(Backing(r, status))
  <1>1. /\ StandingAt(r, status) \in SUBSET Attempts /\ OwedTo(r, status) \in SUBSET Procs
        /\ Backing(r, status) \in SUBSET DOMAIN tapes[r]
    BY DEF StandingAt, getExerciseAttempts, OwedTo, Backing
  <1>2. DOMAIN tapes[r] = 1 .. Len(tapes[r]) /\ Len(tapes[r]) \in Int
    BY LenProperties DEF StepInv, Types
  <1>3. IsFiniteSet(DOMAIN tapes[r])
    BY <1>2, FS_Interval
  <1> QED  BY <1>1, <1>3, ExerciseAssumption, FS_Subset

\* A tape that only grows takes no backing away.
LEMMA BackingGrows ==
  ASSUME TapesGrow, NEW r \in Runs, NEW status \in Standings
  PROVE  IsFiniteSet(Backing(r, status)') /\ Backing(r, status) \subseteq Backing(r, status)'
  <1>1. DOMAIN tapes'[r] = 1 .. Len(tapes'[r]) /\ Len(tapes'[r]) \in Int
    BY LenProperties DEF TapesGrow
  <1>2. IsFiniteSet(DOMAIN tapes'[r])
    BY <1>1, FS_Interval
  <1>3. Backing(r, status)' \in SUBSET DOMAIN tapes'[r]
    BY DEF Backing
  <1>4. Backing(r, status) \subseteq Backing(r, status)'
    BY DEF Backing, TapesGrow, Standings
  <1> QED  BY <1>2, <1>3, <1>4, FS_Subset

\* An attempt newly stands at a status only if its row was given that status.
LEMMA StandingsStay ==
  ASSUME NEW S, \A a \in Attempts \ S : attempt'[a] = attempt[a] \/ attempt'[a].status = "started",
         NEW r \in Runs, NEW status \in Standings
  PROVE  StandingAt(r, status)' \subseteq StandingAt(r, status) \cup S
  BY DEF StandingAt, getExerciseAttempts, Standings

\* Only the process that moves changes what it owes.
LEMMA DebtsStay ==
  ASSUME StepInv, NEW p \in Procs, Working(p), UNCHANGED runnerVars,
         NEW ph, NEW st, NEW left, GoesTo(p, ph, st, left),
         NEW r \in Runs, NEW status
  PROVE  /\ OwedTo(r, status)' \subseteq OwedTo(r, status) \cup {p}
         /\ OwedTo(r, status)' \ {p} = OwedTo(r, status) \ {p}
         /\ p \in OwedTo(r, status)' <=> (RunOf[Attempt(p)] = r /\ OwesAt(ph, st, left, status))
         /\ p \in OwedTo(r, status) <=> (RunOf[Attempt(p)] = r /\ Owes(p, status))
  <1>1. /\ phase'[p] = ph /\ step'[p] = st /\ verdicts'[p] = left
        /\ \A q \in Procs \ {p} : phase'[q] = phase[q] /\ step'[q] = step[q] /\ verdicts'[q] = verdicts[q]
    BY DEF GoesTo, Goto, StepInv, Types
  <1>2. batch' = batch /\ running' = running
    BY DEF runnerVars
  <1>3. \A q \in Procs \ {p} : q \in OwedTo(r, status)' <=> q \in OwedTo(r, status)
    BY <1>1, <1>2 DEF OwedTo, Owes, Working, Attempt, Fact, Current
  <1>4. p \in OwedTo(r, status)' <=> (RunOf[Attempt(p)] = r /\ OwesAt(ph, st, left, status))
    BY <1>1, <1>2 DEF OwedTo, Owes, Working, Attempt, Fact, Current
  <1>5. OwedTo(r, status)' \subseteq Procs /\ OwedTo(r, status) \subseteq Procs
    BY DEF OwedTo
  <1> QED  BY <1>3, <1>4, <1>5 DEF OwedTo

\* A step that sets no status, shortens no tape and owes nothing new.
LEMMA NothingOwed ==
  ASSUME StepInv, BackedInv, TapesGrow,
         \A a \in Attempts : attempt'[a] = attempt[a] \/ attempt'[a].status = "started",
         \A r \in Runs : \A status \in Standings : OwedTo(r, status)' \subseteq OwedTo(r, status)
  PROVE  BackedInv'
  <1> SUFFICES ASSUME NEW r \in Runs, NEW status \in Standings
               PROVE  (Cardinality(StandingAt(r, status)) + Cardinality(OwedTo(r, status))
                         <= Cardinality(Backing(r, status)))'
    BY DEF BackedInv
  <1>1. IsFiniteSet(Backing(r, status)') /\ Backing(r, status) \subseteq Backing(r, status)'
    BY BackingGrows
  <1>2. StandingAt(r, status)' \subseteq StandingAt(r, status)
    BY StandingsStay DEF StandingAt, getExerciseAttempts, Standings
  <1> QED  BY <1>1, <1>2, FiniteStandings, Balances DEF BackedInv

LEMMA QuietStep ==
  ASSUME StepInv, BackedInv, NEW p \in Procs, Working(p), Quiet(p), TapesGrow,
         \A a \in Attempts : attempt'[a] = attempt[a] \/ attempt'[a].status = "started"
  PROVE  BackedInv'
  <1>1. PICK ph, st, left : /\ GoesTo(p, ph, st, left)
                            /\ \A status \in Standings : OwesAt(ph, st, left, status) => Owes(p, status)
    BY DEF Quiet, Scored
  <1>2. \A r \in Runs : \A status \in Standings : OwedTo(r, status)' \subseteq OwedTo(r, status)
    BY <1>1, DebtsStay DEF Quiet
  <1> QED  BY <1>2, NothingOwed

\* A process between two events owes nothing.
LEMMA LeaveBacked ==
  ASSUME StepInv, BackedInv, NEW p \in Procs, phase'[p] = "ensure", UNCHANGED <<tapes, attempt>>,
         \A q \in Procs \ {p} : /\ phase'[q] = phase[q] /\ step'[q] = step[q] /\ verdicts'[q] = verdicts[q]
                                /\ batch'[q] = batch[q] /\ (q \in running' <=> q \in running)
  PROVE  BackedInv'
  <1>1. ASSUME NEW r \in Runs, NEW status \in Standings
        PROVE  OwedTo(r, status)' \subseteq OwedTo(r, status)
    <2>1. p \notin OwedTo(r, status)'
      BY DEF OwedTo, Owes, OwesAt, Standings
    <2>2. \A q \in Procs \ {p} : q \in OwedTo(r, status)' => q \in OwedTo(r, status)
      BY DEF OwedTo, Owes, Working, Attempt, Fact, Current
    <2>3. OwedTo(r, status)' \subseteq Procs
      BY DEF OwedTo
    <2> QED  BY <2>1, <2>2, <2>3
  <1>2. TapesGrow
    BY SameTapes DEF StepInv
  <1> QED  BY <1>1, <1>2, NothingOwed

\* The cell on the tape backs the status that its process owes for it.
LEMMA InsertCellBacked ==
  ASSUME StepInv, BackedInv, NEW p \in Procs, InsertCell(p)
  PROVE  BackedInv'
  <1>1. PICK ph, st, left :
          /\ GoesTo(p, ph, st, left)
          /\ \A status \in Standings :
               OwesAt(ph, st, left, status) => Owes(p, status) \/ Backs(row[p].cell, status)
    BY InsertCellEffect DEF Scored
  <1>2. Types /\ Working(p) /\ UNCHANGED <<runnerVars, attempt>>
    BY InsertCellEffect DEF StepInv
  <1>3. /\ TapesGrow
        /\ \A r \in Runs : r = RunOf[Attempt(p)] =>
             /\ Len(tapes[r]) + 1 \in DOMAIN tapes'[r] \ DOMAIN tapes[r]
             /\ tapes'[r][Len(tapes[r]) + 1] = row[p].cell
    BY <1>2, InsertAppends, AppendGrows
  <1> SUFFICES ASSUME NEW r \in Runs, NEW status \in Standings
               PROVE  (Cardinality(StandingAt(r, status)) + Cardinality(OwedTo(r, status))
                         <= Cardinality(Backing(r, status)))'
    BY DEF BackedInv
  <1>4. /\ IsFiniteSet(StandingAt(r, status)) /\ IsFiniteSet(OwedTo(r, status))
        /\ IsFiniteSet(Backing(r, status)') /\ Backing(r, status) \subseteq Backing(r, status)'
        /\ Cardinality(StandingAt(r, status)) + Cardinality(OwedTo(r, status)) <= Cardinality(Backing(r, status))
    BY <1>3, FiniteStandings, BackingGrows DEF BackedInv
  <1>5. StandingAt(r, status)' \subseteq StandingAt(r, status)
    BY <1>2 DEF StandingAt, getExerciseAttempts
  <1>6. /\ OwedTo(r, status)' \subseteq OwedTo(r, status) \cup {p}
        /\ p \in OwedTo(r, status)' => (RunOf[Attempt(p)] = r /\ OwesAt(ph, st, left, status))
        /\ (RunOf[Attempt(p)] = r /\ Owes(p, status)) => p \in OwedTo(r, status)
    BY <1>1, <1>2, DebtsStay
  <1>7. CASE p \in OwedTo(r, status)' /\ p \notin OwedTo(r, status)
    <2>1. r = RunOf[Attempt(p)] /\ Backs(row[p].cell, status)
      BY <1>1, <1>6, <1>7
    <2>2. Len(tapes[r]) + 1 \in Backing(r, status)' \ Backing(r, status)
      BY <1>3, <2>1 DEF Backing, Backs, Standings
    <2> QED  BY <1>4, <1>5, <1>6, <2>2, Balances
  <1>8. CASE ~(p \in OwedTo(r, status)' /\ p \notin OwedTo(r, status))
    <2>1. OwedTo(r, status)' \subseteq OwedTo(r, status)
      BY <1>6, <1>8
    <2> QED  BY <1>4, <1>5, <2>1, Balances
  <1> QED  BY <1>7, <1>8

\* A status that is set was owed, and is owed no longer.
LEMMA AddScoreBacked ==
  ASSUME StepInv, BackedInv, NEW p \in Procs, AddScore(p)
  PROVE  BackedInv'
  <1>1. PICK ph, st, left :
          GoesTo(p, ph, st, left) /\ \A status \in Standings : ~OwesAt(ph, st, left, status)
    BY AddScoreEffect DEF Scored
  <1>2. /\ Types /\ Working(p) /\ UNCHANGED <<runnerVars, tapes>>
        /\ \A status \in Standings : Delta(p).status = status => Owes(p, status)
    BY AddScoreEffect DEF StepInv, Scored
  <1>3. PICK a \in Attempts : /\ a = Attempt(p) /\ attempt'[a].status = Delta(p).status
                              /\ \A b \in Attempts : b # a => attempt'[b] = attempt[b]
    BY <1>2, AddScoreEffect, FactTypes
  <1>4. TapesGrow
    BY <1>2, SameTapes
  <1> SUFFICES ASSUME NEW r \in Runs, NEW status \in Standings
               PROVE  (Cardinality(StandingAt(r, status)) + Cardinality(OwedTo(r, status))
                         <= Cardinality(Backing(r, status)))'
    BY DEF BackedInv
  <1>5. /\ IsFiniteSet(StandingAt(r, status)) /\ IsFiniteSet(OwedTo(r, status))
        /\ IsFiniteSet(Backing(r, status)') /\ Backing(r, status) \subseteq Backing(r, status)'
        /\ Cardinality(StandingAt(r, status)) + Cardinality(OwedTo(r, status)) <= Cardinality(Backing(r, status))
    BY <1>4, FiniteStandings, BackingGrows DEF BackedInv
  <1>6. /\ OwedTo(r, status)' \subseteq OwedTo(r, status) \cup {p}
        /\ p \notin OwedTo(r, status)'
        /\ (RunOf[Attempt(p)] = r /\ Owes(p, status)) => p \in OwedTo(r, status)
    BY <1>1, <1>2, DebtsStay
  <1>7. StandingAt(r, status)' \subseteq StandingAt(r, status) \cup {a}
    BY <1>3 DEF StandingAt, getExerciseAttempts
  <1>8. CASE Delta(p).status = status /\ RunOf[a] = r
    <2>1. p \in OwedTo(r, status)
      BY <1>2, <1>3, <1>6, <1>8
    <2> QED  BY <1>5, <1>6, <1>7, <2>1, Balances
  <1>9. CASE ~(Delta(p).status = status /\ RunOf[a] = r)
    <2>1. a \notin StandingAt(r, status)'
      BY <1>3, <1>9 DEF StandingAt, getExerciseAttempts
    <2>2. StandingAt(r, status)' \subseteq StandingAt(r, status) /\ OwedTo(r, status)' \subseteq OwedTo(r, status)
      BY <1>6, <1>7, <2>1
    <2> QED  BY <1>5, <2>2, Balances
  <1> QED  BY <1>8, <1>9

LEMMA StaysBacked ==
  ASSUME StepInv, BackedInv, UNCHANGED <<running, batch, tapes, attempt, phase, step, verdicts>>
  PROVE  BackedInv'
  <1>1. \A r \in Runs : \A status \in Standings : OwedTo(r, status)' \subseteq OwedTo(r, status)
    BY DEF OwedTo, Owes, Working, Attempt, Fact, Current
  <1>2. TapesGrow
    BY SameTapes DEF StepInv
  <1> QED  BY <1>1, <1>2, NothingOwed

LEMMA NextBacked == StepInv /\ BackedInv /\ [Next]_vars => BackedInv'
  <1> SUFFICES ASSUME StepInv, BackedInv, [Next]_vars PROVE BackedInv'
    OBVIOUS
  <1>1. Types
    BY DEF StepInv
  <1>2. ASSUME NEW e \in Events, RecordEvent(e), UNCHANGED exerciseVars PROVE BackedInv'
    BY <1>1, <1>2, StaysBacked DEF RecordEvent, exerciseVars
  <1>3. ASSUME NEW p \in Procs, ListEvents(p) \/ EndRun(p), UNCHANGED exerciseVars PROVE BackedInv'
    <2>1. phase'[p] = "ensure"
      BY <1>3, ListEventsStep, EndRunStep
    <2>2. \A q \in Procs \ {p} : batch'[q] = batch[q] /\ (q \in running' <=> q \in running)
      BY <1>1, <1>3 DEF ListEvents, EndRun, Types
    <2> QED  BY <1>3, <2>1, <2>2, LeaveBacked DEF exerciseVars
  <1>4. ASSUME NEW p \in Procs, Mark(p) \/ Abort(p) PROVE BackedInv'
    <2>1. phase'[p] = "ensure" /\ UNCHANGED <<tapes, attempt>>
      BY <1>4, MarkStep, AbortStep
    <2>2. \A q \in Procs \ {p} : /\ phase'[q] = phase[q] /\ step'[q] = step[q] /\ verdicts'[q] = verdicts[q]
                                  /\ batch'[q] = batch[q] /\ (q \in running' <=> q \in running)
      BY <1>1, <1>4 DEF Mark, MarkNormalized, Abort, AbortRun, Goto, Types
    <2> QED  BY <2>1, <2>2, LeaveBacked
  <1>5. ASSUME NEW p \in Procs, EnsureAttempt(p) \/ ViewTape(p) \/ CheckTape(p) \/ ClaimGate(p) PROVE BackedInv'
    <2>1. Quiet(p) /\ Working(p)
      BY <1>5, EnsureAttemptEffect, ViewTapeEffect, CheckTapeEffect, ClaimGateEffect
         DEF EnsureAttempt, ViewTape, CheckTape, ClaimGate, At
    <2>2. \A a \in Attempts : attempt'[a] = attempt[a] \/ attempt'[a].status = "started"
      BY <1>5, EnsureAttemptEffect DEF ViewTape, CheckTape, ClaimGate
    <2>3. TapesGrow
      BY <1>1, <1>5, SameTapes DEF EnsureAttempt, ViewTape, CheckTape, ClaimGate
    <2> QED  BY <2>1, <2>2, <2>3, QuietStep
  <1>6. ASSUME NEW p \in Procs, ReadTape(p) PROVE BackedInv'
    <2>1. /\ GoesTo(p, phase[p], "insert", verdicts[p]) /\ step[p] = "read" /\ Working(p)
          /\ UNCHANGED <<runnerVars, tapes, attempt>>
      BY <1>6, ReadTapeEffect DEF ReadTape
    <2>2. \A status \in Standings : OwesAt(phase[p], "insert", verdicts[p], status) => Owes(p, status)
      BY DEF OwesAt, Owes, Standings
    <2>3. \A r \in Runs : \A status \in Standings : OwedTo(r, status)' \subseteq OwedTo(r, status)
      BY <2>1, <2>2, DebtsStay
    <2>4. TapesGrow
      BY <1>1, <2>1, SameTapes
    <2> QED  BY <2>1, <2>3, <2>4, NothingOwed
  <1>7. ASSUME NEW p \in Procs, InsertCell(p) \/ AddScore(p) PROVE BackedInv'
    BY <1>7, InsertCellBacked, AddScoreBacked
  <1>8. ASSUME NEW r \in Runs, NEW kind \in Kinds, NEW passed \in Verdicts, RecordByHand(r, kind, passed)
        PROVE  BackedInv'
    <2>1. TapesGrow /\ UNCHANGED <<runnerVars, attempt, phase, step, verdicts, row>>
      BY <1>8, RecordByHandStep
    <2>2. \A s \in Runs : \A status \in Standings : OwedTo(s, status)' \subseteq OwedTo(s, status)
      BY <2>1 DEF OwedTo, Owes, Working, Attempt, Fact, Current, runnerVars
    <2> QED  BY <2>1, <2>2, NothingOwed
  <1>9. CASE UNCHANGED vars
    BY <1>1, <1>9, StaysBacked DEF vars, runnerVars, exerciseVars
  <1> QED  BY <1>2, <1>3, <1>4, <1>5, <1>6, <1>7, <1>8, <1>9 DEF Next, Runner, Apply

\* In the first state no attempt has a row and no process works.
LEMMA InitBacked == Init => BackedInv
  <1> SUFFICES ASSUME Init, NEW r \in Runs, NEW status \in Standings
               PROVE  Cardinality(StandingAt(r, status)) + Cardinality(OwedTo(r, status))
                        <= Cardinality(Backing(r, status))
    BY DEF BackedInv
  <1>1. StandingAt(r, status) = {} /\ OwedTo(r, status) = {}
    BY DEF Init, RunnerInit, StandingAt, getExerciseAttempts, OwedTo, Working
  <1>2. IsFiniteSet(Backing(r, status))
    BY InitStep, FiniteStandings
  <1> QED  BY <1>1, <1>2, FS_EmptySet, FS_CardinalityType

\* An attempt stands at passed, failed or claimed only on a cell of its own, whatever is
\* applied twice, interleaved or cut short, for any number of processes, attempts and
\* runs: a cell covers the process that owes its status until the status is set.
THEOREM StandingsAreBacked == Spec => []StandingIsBacked
  <1>1. StepInv /\ BackedInv => StandingIsBacked
    <2> SUFFICES ASSUME StepInv, BackedInv, NEW r \in Runs, NEW status \in Standings
                 PROVE  Cardinality(StandingAt(r, status)) <= Cardinality(Backing(r, status))
      BY DEF StandingIsBacked, Standings
    <2>1. /\ Cardinality(StandingAt(r, status)) \in Nat /\ Cardinality(OwedTo(r, status)) \in Nat
          /\ Cardinality(Backing(r, status)) \in Nat
      BY FiniteStandings, FS_CardinalityType
    <2> QED  BY <2>1 DEF BackedInv
  <1>2. Init => StepInv /\ BackedInv
    BY InitStep, InitBacked
  <1>3. StepInv /\ BackedInv /\ [Next]_vars => (StepInv /\ BackedInv)'
    BY NextStep, NextBacked
  <1> QED  BY <1>1, <1>2, <1>3, PTL DEF Spec

-----------------------------------------------------------------------------
(* The books of a run: how many scores were added for each status, which   *)
(* is what its attempts hold, and with those still owed no more than the   *)
(* cells of its tape account for.                                          *)

\* The cells of a run's tape that are worth points.
Evidence(r, status) == {i \in DOMAIN tapes[r] : Backs(tapes[r][i], status)}

\* What the scores of a run's attempts add up to.
AddsUp(r, total) ==
  \E rows \in SUBSET Attempts, scores \in [Attempts -> Int] :
    /\ rows = getExerciseAttempts(r)
    /\ \A a \in rows : scores[a] = attempt[a].score
    /\ total = SumFunctionOnSet(scores, rows)

\* The points of so many scores for each status.
Worth(settled) ==
  settled["working"] + 5 * settled["passed"] + 2 * settled["failed"] - 3 * settled["claimed_without_pass"]

Undisturbed == aborts = 0 /\ manual = 0

Settles(r, settled) ==
  /\ AddsUp(r, Worth(settled))
  /\ \A status \in Scored :
       /\ settled[status] + Cardinality(OwedTo(r, status)) <= Cardinality(Evidence(r, status))
       /\ Undisturbed => settled[status] + Cardinality(OwedTo(r, status)) = Cardinality(Evidence(r, status))

Settled(r) == \E settled \in [Scored -> Nat] : Settles(r, settled)

BooksInv == manual \in Nat /\ \A r \in Runs : Settled(r)

\* What a step does to the debts for a status and to the evidence, without a score.
Kept(r, status) ==
  \/ OwedTo(r, status)' = OwedTo(r, status) /\ Evidence(r, status)' = Evidence(r, status)
  \/ \E p, i : /\ p \notin OwedTo(r, status) /\ OwedTo(r, status)' = OwedTo(r, status) \cup {p}
               /\ i \notin Evidence(r, status) /\ Evidence(r, status)' = Evidence(r, status) \cup {i}
  \/ /\ ~Undisturbed'
     /\ OwedTo(r, status)' \subseteq OwedTo(r, status) /\ Evidence(r, status) \subseteq Evidence(r, status)'

LEMMA FiniteTape ==
  ASSUME NEW tape \in Seq(Cell) PROVE IsFiniteSet(DOMAIN tape)
  <1>1. DOMAIN tape = 1 .. Len(tape) /\ Len(tape) \in Int
    BY LenProperties
  <1> QED  BY <1>1, FS_Interval

LEMMA FiniteBooks ==
  ASSUME StepInv, NEW r \in Runs, NEW status
  PROVE  /\ IsFiniteSet(OwedTo(r, status)) /\ IsFiniteSet(Evidence(r, status))
         /\ Cardinality(OwedTo(r, status)) \in Nat /\ Cardinality(Evidence(r, status)) \in Nat
  <1>1. OwedTo(r, status) \in SUBSET Procs /\ Evidence(r, status) \in SUBSET DOMAIN tapes[r]
    BY DEF OwedTo, Evidence
  <1>2. IsFiniteSet(DOMAIN tapes[r])
    BY FiniteTape DEF StepInv, Types
  <1> QED  BY <1>1, <1>2, ExerciseAssumption, FS_Subset, FS_CardinalityType

\* Debts and evidence that grow together, or that only grow apart.
LEMMA CountsKept ==
  ASSUME NEW n \in Nat, NEW A, NEW B, NEW A2, NEW B2,
         IsFiniteSet(A), IsFiniteSet(B), IsFiniteSet(B2), n + Cardinality(A) <= Cardinality(B)
  PROVE  /\ (A2 = A /\ B2 = B) \/ (\E x, y : x \notin A /\ A2 = A \cup {x} /\ y \notin B /\ B2 = B \cup {y})
              => /\ n + Cardinality(A2) <= Cardinality(B2)
                 /\ n + Cardinality(A) = Cardinality(B) => n + Cardinality(A2) = Cardinality(B2)
         /\ A2 \subseteq A /\ B \subseteq B2 => n + Cardinality(A2) <= Cardinality(B2)
  <1>1. Cardinality(A) \in Nat /\ Cardinality(B) \in Nat /\ Cardinality(B2) \in Nat
    BY FS_CardinalityType
  <1>2. ASSUME NEW x, NEW y, x \notin A, A2 = A \cup {x}, y \notin B, B2 = B \cup {y}
        PROVE  /\ n + Cardinality(A2) <= Cardinality(B2)
               /\ n + Cardinality(A) = Cardinality(B) => n + Cardinality(A2) = Cardinality(B2)
    <2>1. Cardinality(A2) = Cardinality(A) + 1 /\ Cardinality(B2) = Cardinality(B) + 1
      BY <1>2, FS_AddElement
    <2> QED  BY <1>1, <2>1
  <1>3. ASSUME A2 \subseteq A, B \subseteq B2 PROVE n + Cardinality(A2) <= Cardinality(B2)
    <2>1. IsFiniteSet(A2) /\ Cardinality(A2) <= Cardinality(A) /\ Cardinality(B) <= Cardinality(B2)
      BY <1>3, FS_Subset
    <2>2. Cardinality(A2) \in Nat
      BY <2>1, FS_CardinalityType
    <2> QED  BY <1>1, <2>1, <2>2
  <1> QED  BY <1>2, <1>3

LEMMA KeptSettled ==
  ASSUME StepInv, StepInv', NEW r \in Runs, Settled(r), Undisturbed' => Undisturbed,
         \A total \in Int : AddsUp(r, total) => AddsUp(r, total)',
         \A status \in Scored : Kept(r, status)
  PROVE  Settled(r)'
  <1>1. PICK settled \in [Scored -> Nat] : Settles(r, settled)
    BY DEF Settled
  <1>2. Worth(settled) \in Int
    BY DEF Worth, Scored, Standings
  <1>3. AddsUp(r, Worth(settled))'
    BY <1>1, <1>2 DEF Settles
  <1>4. ASSUME NEW status \in Scored
        PROVE  (/\ settled[status] + Cardinality(OwedTo(r, status)) <= Cardinality(Evidence(r, status))
                /\ Undisturbed
                     => settled[status] + Cardinality(OwedTo(r, status)) = Cardinality(Evidence(r, status)))'
    <2>1. /\ IsFiniteSet(OwedTo(r, status)) /\ IsFiniteSet(Evidence(r, status))
          /\ IsFiniteSet(Evidence(r, status)') /\ settled[status] \in Nat
      <3>1. IsFiniteSet(DOMAIN tapes'[r]) /\ Evidence(r, status)' \in SUBSET DOMAIN tapes'[r]
        BY FiniteTape DEF StepInv, Types, Evidence
      <3> QED  BY <3>1, FiniteBooks, FS_Subset
    <2>2. /\ settled[status] + Cardinality(OwedTo(r, status)) <= Cardinality(Evidence(r, status))
          /\ Undisturbed
               => settled[status] + Cardinality(OwedTo(r, status)) = Cardinality(Evidence(r, status))
      BY <1>1 DEF Settles
    <2>3. Kept(r, status)
      OBVIOUS
    <2> QED  BY <2>1, <2>2, <2>3, CountsKept DEF Kept
  <1>5. Settles(r, settled)'
    BY <1>3, <1>4 DEF Settles
  <1> QED  BY <1>5 DEF Settled

\* No row of an attempt changes.
LEMMA TotalStays ==
  ASSUME UNCHANGED attempt, NEW r \in Runs, NEW total \in Int, AddsUp(r, total)
  PROVE  AddsUp(r, total)'
  BY DEF AddsUp, getExerciseAttempts

\* One attempt gets a row, or points for the row it has.
LEMMA TotalGrows ==
  ASSUME Types, NEW a \in Attempts, NEW d \in Int, attempt'[a] # None,
         attempt'[a].score = d + (IF attempt[a] = None THEN 0 ELSE attempt[a].score),
         \A b \in Attempts \ {a} : attempt'[b] = attempt[b],
         NEW r \in Runs, NEW total \in Int, AddsUp(r, total)
  PROVE  /\ RunOf[a] = r => AddsUp(r, total + d)'
         /\ RunOf[a] # r => AddsUp(r, total)'
  <1>1. PICK rows \in SUBSET Attempts, scores \in [Attempts -> Int] :
          /\ rows = getExerciseAttempts(r)
          /\ \A b \in rows : scores[b] = attempt[b].score
          /\ total = SumFunctionOnSet(scores, rows)
    BY DEF AddsUp
  <1>2. CASE RunOf[a] # r
    <2>1. rows = getExerciseAttempts(r)' /\ a \notin rows
      BY <1>1, <1>2 DEF getExerciseAttempts
    <2>2. \A b \in rows : scores[b] = attempt'[b].score
      BY <1>1, <2>1
    <2> QED  BY <1>1, <1>2, <2>1, <2>2 DEF AddsUp
  <1>3. CASE RunOf[a] = r
    <2>1. getExerciseAttempts(r)' = rows \cup {a} /\ (a \in rows <=> attempt[a] # None)
      BY <1>1, <1>3 DEF getExerciseAttempts
    <2>2. PICK n \in Int : n = IF a \in rows THEN scores[a] ELSE 0
      OBVIOUS
    <2>3. attempt'[a].score = d + n
      BY <1>1, <2>1, <2>2
    <2>4. PICK added : added = [scores EXCEPT ![a] = d + n]
      OBVIOUS
    <2>5. added \in [Attempts -> Int] /\ added[a] = d + n /\ \A b \in Attempts \ {a} : added[b] = scores[b]
      BY <2>2, <2>4
    <2>6. IsFiniteSet(rows) /\ rows \cup {a} \in SUBSET Attempts
      BY FS_Subset, ExerciseAssumption
    <2>7. SumFunctionOnSet(added, rows \cup {a})
            = SumFunctionOnSet(scores, rows) + (added[a] - (IF a \in rows THEN scores[a] ELSE 0))
      <3>1. /\ \A b \in rows : scores[b] \in Int
            /\ added[a] \in Int
            /\ \A b \in rows \ {a} : added[b] = scores[b]
        BY <2>2, <2>5
      <3> QED  BY <2>6, <3>1, SumUpdate
    <2>8. total + d = SumFunctionOnSet(added, rows \cup {a})
      BY <1>1, <2>2, <2>5, <2>7
    <2>9. \A b \in rows \cup {a} : added[b] = attempt'[b].score
      BY <1>1, <2>3, <2>5
    <2> QED  BY <1>3, <2>1, <2>5, <2>6, <2>8, <2>9 DEF AddsUp
  <1> QED  BY <1>2, <1>3

\* A cell at the end of a tape, as evidence.
Appends(s, cell) == tapes' = [tapes EXCEPT ![s] = Append(@, cell)]

LEMMA EvidenceAppends ==
  ASSUME Types, NEW s \in Runs, NEW cell \in Cell, Appends(s, cell),
         NEW r \in Runs, NEW status
  PROVE  /\ r = s /\ Backs(cell, status)
              => \E i : i \notin Evidence(r, status) /\ Evidence(r, status)' = Evidence(r, status) \cup {i}
         /\ ~(r = s /\ Backs(cell, status)) => Evidence(r, status)' = Evidence(r, status)
  <1>1. /\ TapesGrow /\ Len(tapes[s]) + 1 \in DOMAIN tapes'[s] \ DOMAIN tapes[s]
        /\ DOMAIN tapes'[s] = DOMAIN tapes[s] \cup {Len(tapes[s]) + 1}
        /\ tapes'[s][Len(tapes[s]) + 1] = cell
    BY AppendGrows DEF Appends
  <1>2. Len(tapes[s]) + 1 \notin Evidence(s, status)
    BY <1>1 DEF Evidence
  <1>3. CASE r # s
    <2>1. tapes'[r] = tapes[r]
      BY <1>3 DEF Appends, Types
    <2>2. Evidence(r, status)' = Evidence(r, status)
      BY <2>1 DEF Evidence
    <2> QED  BY <1>3, <2>2
  <1>4. CASE r = s
    <2>1. PICK n : n = Len(tapes[s]) + 1
      OBVIOUS
    <2>2. \A i \in DOMAIN tapes[s] : tapes'[s][i] = tapes[s][i] /\ i # n
      BY <1>1, <2>1 DEF TapesGrow
    <2>3. n \notin Evidence(r, status)
      BY <1>2, <1>4, <2>1
    <2>4. Backs(cell, status) => Evidence(r, status)' = Evidence(r, status) \cup {n}
      BY <1>1, <1>4, <2>1, <2>2 DEF Evidence
    <2>5. ~Backs(cell, status) => Evidence(r, status)' = Evidence(r, status)
      BY <1>1, <1>4, <2>1, <2>2 DEF Evidence
    <2> QED  BY <1>4, <2>3, <2>4, <2>5
  <1> QED  BY <1>3, <1>4

\* A process that goes on with its event without inserting or scoring.
LEMMA QuietKept ==
  ASSUME StepInv, NEW p \in Procs, Working(p), Quiet(p), UNCHANGED tapes, NEW r \in Runs, NEW status \in Scored
  PROVE  Kept(r, status)
  <1>1. PICK ph, st, left : GoesTo(p, ph, st, left) /\ (OwesAt(ph, st, left, status) <=> Owes(p, status))
    BY DEF Quiet
  <1>2. OwedTo(r, status)' = OwedTo(r, status)
    BY <1>1, DebtsStay DEF Quiet
  <1>3. Evidence(r, status)' = Evidence(r, status)
    BY DEF Evidence
  <1> QED  BY <1>2, <1>3 DEF Kept

\* A process that owes nothing before and after.
LEMMA IdleKept ==
  ASSUME NEW p \in Procs, \A status \in Scored : ~(Working(p) /\ Owes(p, status)), phase'[p] = "ensure",
         UNCHANGED tapes,
         \A q \in Procs \ {p} : /\ phase'[q] = phase[q] /\ step'[q] = step[q] /\ verdicts'[q] = verdicts[q]
                                /\ batch'[q] = batch[q] /\ (q \in running' <=> q \in running),
         NEW r \in Runs, NEW status \in Scored
  PROVE  Kept(r, status)
  <1>1. p \notin OwedTo(r, status)' /\ p \notin OwedTo(r, status)
    BY DEF OwedTo, Owes, OwesAt, Scored, Standings
  <1>2. \A q \in Procs \ {p} : q \in OwedTo(r, status)' <=> q \in OwedTo(r, status)
    BY DEF OwedTo, Owes, Working, Attempt, Fact, Current
  <1>3. OwedTo(r, status)' \subseteq Procs /\ OwedTo(r, status) \subseteq Procs
    BY DEF OwedTo
  <1>4. OwedTo(r, status)' = OwedTo(r, status)
    BY <1>1, <1>2, <1>3
  <1>5. Evidence(r, status)' = Evidence(r, status)
    BY DEF Evidence
  <1> QED  BY <1>4, <1>5 DEF Kept

\* The cell and the debt for it come in one step.
LEMMA InsertCellKept ==
  ASSUME StepInv, NEW p \in Procs, InsertCell(p), NEW r \in Runs, NEW status \in Scored
  PROVE  Kept(r, status)
  <1>1. PICK ph, st, left :
          /\ GoesTo(p, ph, st, left)
          /\ OwesAt(ph, st, left, status) <=> Owes(p, status) \/ Backs(row[p].cell, status)
    BY InsertCellEffect
  <1>2. /\ Types /\ Working(p) /\ UNCHANGED <<runnerVars, attempt>>
        /\ ~(Owes(p, status) /\ Backs(row[p].cell, status))
    BY InsertCellEffect DEF StepInv
  <1>3. PICK s \in Runs : s = RunOf[Attempt(p)]
    BY <1>2, FactTypes
  <1>4. PICK cell \in Cell : cell = row[p].cell
    BY InsertAppends
  <1>5. Appends(s, cell)
    BY <1>3, <1>4, InsertAppends DEF Appends
  <1>6. /\ OwedTo(r, status)' \ {p} = OwedTo(r, status) \ {p}
        /\ p \in OwedTo(r, status)' <=> (s = r /\ OwesAt(ph, st, left, status))
        /\ p \in OwedTo(r, status) <=> (s = r /\ Owes(p, status))
    BY <1>1, <1>2, <1>3, DebtsStay
  <1>7. CASE s = r /\ Backs(cell, status)
    <2>1. p \notin OwedTo(r, status) /\ OwedTo(r, status)' = OwedTo(r, status) \cup {p}
      BY <1>1, <1>2, <1>4, <1>6, <1>7
    <2>2. PICK i : i \notin Evidence(r, status) /\ Evidence(r, status)' = Evidence(r, status) \cup {i}
      BY <1>2, <1>5, <1>7, EvidenceAppends
    <2> QED  BY <2>1, <2>2 DEF Kept
  <1>8. CASE ~(s = r /\ Backs(cell, status))
    <2>1. OwedTo(r, status)' = OwedTo(r, status)
      BY <1>1, <1>4, <1>6, <1>8
    <2>2. Evidence(r, status)' = Evidence(r, status)
      BY <1>2, <1>5, <1>8, EvidenceAppends
    <2> QED  BY <2>1, <2>2 DEF Kept
  <1> QED  BY <1>7, <1>8

\* A score settles one debt.
LEMMA AddScoreSettled ==
  ASSUME StepInv, NEW p \in Procs, AddScore(p), NEW r \in Runs, Settled(r)
  PROVE  Settled(r)'
  <1>1. PICK ph, st, left :
          GoesTo(p, ph, st, left) /\ \A status \in Scored : ~OwesAt(ph, st, left, status)
    BY AddScoreEffect
  <1>2. PICK paid \in Scored :
          /\ paid = Delta(p).status /\ Delta(p).score = Points(paid)
          /\ \A status \in Scored : paid = status <=> Owes(p, status)
    BY AddScoreEffect
  <1>3. Types /\ StepInv' /\ Working(p) /\ UNCHANGED <<runnerVars, tapes>>
    BY AddScoreEffect DEF StepInv
  <1>4. PICK a \in Attempts : a = Attempt(p)
    BY <1>3, FactTypes
  <1>5. attempt[a] # None /\ attempt'[a] # None
    BY <1>4, AddScoreEffect
  <1>6. PICK d \in Int : d = Points(paid)
    BY DEF Points, Scored, Standings
  <1>7. \A total \in Int : AddsUp(r, total) =>
          /\ RunOf[a] = r => AddsUp(r, total + d)'
          /\ RunOf[a] # r => AddsUp(r, total)'
    <2>1. /\ attempt'[a].score = attempt[a].score + d
          /\ \A b \in Attempts \ {a} : attempt'[b] = attempt[b]
      BY <1>2, <1>4, <1>6, AddScoreEffect
    <2>2. attempt[a].score \in Int
      BY <1>3, <1>5 DEF Types, AttemptRow
    <2>3. attempt'[a].score = d + (IF attempt[a] = None THEN 0 ELSE attempt[a].score)
      BY <1>5, <2>1, <2>2
    <2> QED  BY <1>3, <1>5, <2>1, <2>3, TotalGrows
  <1>8. ASSUME NEW status \in Scored
        PROVE  /\ OwedTo(r, status)' \ {p} = OwedTo(r, status) \ {p} /\ p \notin OwedTo(r, status)'
               /\ p \in OwedTo(r, status) <=> (RunOf[a] = r /\ paid = status)
               /\ Evidence(r, status)' = Evidence(r, status)
    <2>1. Evidence(r, status)' = Evidence(r, status)
      BY <1>3 DEF Evidence
    <2> QED  BY <1>1, <1>2, <1>3, <1>4, <2>1, DebtsStay
  <1>9. Undisturbed' <=> Undisturbed
    BY <1>3 DEF Undisturbed, runnerVars, AddScore
  <1>10. CASE RunOf[a] # r
    <2>1. \A status \in Scored : Kept(r, status)
      BY <1>8, <1>10 DEF Kept
    <2>2. \A total \in Int : AddsUp(r, total) => AddsUp(r, total)'
      BY <1>7, <1>10
    <2> QED  BY <1>3, <1>9, <2>1, <2>2, KeptSettled
  <1>11. CASE RunOf[a] = r
    <2>1. PICK settled \in [Scored -> Nat] : Settles(r, settled)
      BY DEF Settled
    <2>2. PICK more : more = [settled EXCEPT ![paid] = @ + 1]
      OBVIOUS
    <2>3. /\ more \in [Scored -> Nat] /\ more[paid] = settled[paid] + 1
          /\ \A status \in Scored \ {paid} : more[status] = settled[status]
      BY <2>2
    <2>4. Worth(settled) \in Int /\ Worth(more) = Worth(settled) + d
      <3>1. PICK w \in Nat, g \in Nat, b \in Nat, c \in Nat :
              /\ w = settled["working"] /\ g = settled["passed"] /\ b = settled["failed"]
              /\ c = settled["claimed_without_pass"]
        BY DEF Scored, Standings
      <3>2. Worth(settled) = w + 5 * g + 2 * b - 3 * c
        BY <3>1 DEF Worth
      <3>3. CASE paid = "working"
        <4>1. Worth(more) = (w + 1) + 5 * g + 2 * b - 3 * c /\ d = 1
          BY <1>6, <2>3, <3>1, <3>3 DEF Worth, Points, Scored, Standings
        <4> QED  BY <3>2, <4>1
      <3>4. CASE paid = "passed"
        <4>1. Worth(more) = w + 5 * (g + 1) + 2 * b - 3 * c /\ d = 5
          BY <1>6, <2>3, <3>1, <3>4 DEF Worth, Points, Scored, Standings
        <4> QED  BY <3>2, <4>1
      <3>5. CASE paid = "failed"
        <4>1. Worth(more) = w + 5 * g + 2 * (b + 1) - 3 * c /\ d = 2
          BY <1>6, <2>3, <3>1, <3>5 DEF Worth, Points, Scored, Standings
        <4> QED  BY <3>2, <4>1
      <3>6. CASE paid = "claimed_without_pass"
        <4>1. Worth(more) = w + 5 * g + 2 * b - 3 * (c + 1) /\ d = -3
          BY <1>6, <2>3, <3>1, <3>6 DEF Worth, Points, Scored, Standings
        <4> QED  BY <3>2, <4>1
      <3> QED  BY <3>3, <3>4, <3>5, <3>6 DEF Scored, Standings
    <2>5. AddsUp(r, Worth(more))'
      <3>1. AddsUp(r, Worth(settled))
        BY <2>1 DEF Settles
      <3>2. PICK total \in Int : total = Worth(settled)
        BY <2>4
      <3>3. AddsUp(r, total + d)'
        BY <1>7, <1>11, <3>1, <3>2
      <3>4. PICK whole : whole = Worth(more)
        OBVIOUS
      <3>5. AddsUp(r, whole)'
        BY <2>4, <3>2, <3>3, <3>4
      <3> QED  BY <3>4, <3>5
    <2>6. ASSUME NEW status \in Scored
          PROVE  (/\ more[status] + Cardinality(OwedTo(r, status)) <= Cardinality(Evidence(r, status))
                  /\ Undisturbed
                       => more[status] + Cardinality(OwedTo(r, status)) = Cardinality(Evidence(r, status)))'
      <3>1. /\ settled[status] + Cardinality(OwedTo(r, status)) <= Cardinality(Evidence(r, status))
            /\ Undisturbed
                 => settled[status] + Cardinality(OwedTo(r, status)) = Cardinality(Evidence(r, status))
        BY <2>1 DEF Settles
      <3>2. /\ settled[status] \in Nat /\ IsFiniteSet(OwedTo(r, status))
            /\ Cardinality(OwedTo(r, status)) \in Nat /\ Cardinality(Evidence(r, status)) \in Nat
        BY FiniteBooks
      <3>3. CASE status = paid
        <4>1. OwedTo(r, status)' = OwedTo(r, status) \ {p} /\ p \in OwedTo(r, status)
          BY <1>8, <1>11, <3>3
        <4>2. Cardinality(OwedTo(r, status)') = Cardinality(OwedTo(r, status)) - 1
          BY <3>2, <4>1, FS_RemoveElement
        <4> QED  BY <1>8, <1>9, <2>3, <3>1, <3>2, <3>3, <4>2
      <3>4. CASE status # paid
        <4>1. OwedTo(r, status)' = OwedTo(r, status)
          BY <1>8, <3>4
        <4> QED  BY <1>8, <1>9, <2>3, <3>1, <3>4, <4>1
      <3> QED  BY <3>3, <3>4
    <2>7. Settles(r, more)'
      BY <2>5, <2>6 DEF Settles
    <2> QED  BY <2>3, <2>7 DEF Settled
  <1> QED  BY <1>10, <1>11

\* A step that adds no score, and disturbs the books only by an aborted run or a cell
\* added by hand.
LEMMA KeptBooks ==
  ASSUME StepInv, StepInv', BooksInv, manual' \in Nat, Undisturbed' => Undisturbed,
         \A r \in Runs : \A total \in Int : AddsUp(r, total) => AddsUp(r, total)',
         \A r \in Runs : \A status \in Scored : Kept(r, status)
  PROVE  BooksInv'
  <1>1. ASSUME NEW r \in Runs PROVE Settled(r)'
    <2>1. Settled(r)
      BY DEF BooksInv
    <2> QED  BY <2>1, KeptSettled
  <1> QED  BY <1>1 DEF BooksInv

\* A step that leaves the rows of attempts alone.
LEMMA SameTotals ==
  ASSUME UNCHANGED attempt
  PROVE  \A r \in Runs : \A total \in Int : AddsUp(r, total) => AddsUp(r, total)'
  BY TotalStays

LEMMA EnsureAttemptBooks ==
  ASSUME StepInv, BooksInv, NEW p \in Procs, EnsureAttempt(p)
  PROVE  BooksInv'
  <1>1. Types /\ Quiet(p) /\ StepInv' /\ Working(p) /\ UNCHANGED <<runnerVars, tapes, manual>>
    BY EnsureAttemptEffect DEF StepInv, EnsureAttempt, At
  <1>2. PICK a \in Attempts : a = Attempt(p)
    BY <1>1, FactTypes
  <1>3. \A r \in Runs : \A total \in Int : AddsUp(r, total) => AddsUp(r, total)'
    <2>1. CASE attempt[a] # None
      <3>1. UNCHANGED attempt
        BY <1>2, <2>1 DEF EnsureAttempt
      <3> QED  BY <3>1, SameTotals
    <2>2. CASE attempt[a] = None
      <3>1. attempt' = [attempt EXCEPT ![a] = [status |-> "started", score |-> 0]]
        BY <1>2, <2>2 DEF EnsureAttempt
      <3>2. attempt'[a] = [status |-> "started", score |-> 0] /\ \A b \in Attempts \ {a} : attempt'[b] = attempt[b]
        BY <1>1, <3>1 DEF Types
      <3>3. attempt'[a] \in AttemptRow /\ attempt'[a].score = 0
        BY <3>2 DEF AttemptRow, Statuses
      <3>4. attempt'[a] # None
        BY <3>3, ExerciseAssumption
      <3>5. attempt'[a].score = 0 + (IF attempt[a] = None THEN 0 ELSE attempt[a].score)
        BY <2>2, <3>3
      <3>6. ASSUME NEW r \in Runs, NEW total \in Int, AddsUp(r, total) PROVE AddsUp(r, total)'
        <4>1. /\ RunOf[a] = r => AddsUp(r, total + 0)'
              /\ RunOf[a] # r => AddsUp(r, total)'
          BY <1>1, <3>2, <3>4, <3>5, <3>6, TotalGrows
        <4>2. PICK same : same = total + 0
          OBVIOUS
        <4>3. RunOf[a] = r => AddsUp(r, same)'
          BY <4>1, <4>2
        <4>4. same = total
          BY <4>2
        <4> QED  BY <4>1, <4>3, <4>4
      <3> QED  BY <3>6
    <2> QED  BY <2>1, <2>2
  <1>4. manual' \in Nat /\ (Undisturbed' => Undisturbed)
    BY <1>1 DEF BooksInv, Undisturbed, runnerVars
  <1>5. \A r \in Runs : \A status \in Scored : Kept(r, status)
    BY <1>1, QuietKept
  <1> QED  BY <1>1, <1>3, <1>4, <1>5, KeptBooks

LEMMA StaysBooked ==
  ASSUME StepInv, StepInv', BooksInv,
         UNCHANGED <<running, batch, aborts, tapes, attempt, phase, step, verdicts, manual>>
  PROVE  BooksInv'
  <1>1. ASSUME NEW r \in Runs, NEW status \in Scored PROVE Kept(r, status)
    <2>1. OwedTo(r, status)' = OwedTo(r, status)
      BY DEF OwedTo, Owes, Working, Attempt, Fact, Current
    <2>2. Evidence(r, status)' = Evidence(r, status)
      BY DEF Evidence
    <2> QED  BY <2>1, <2>2 DEF Kept
  <1>2. manual' \in Nat /\ (Undisturbed' => Undisturbed)
    BY DEF BooksInv, Undisturbed
  <1> QED  BY <1>1, <1>2, SameTotals, KeptBooks

\* A process that is between two events, or gets there, owes nothing.
LEMMA IdleBooked ==
  ASSUME StepInv, StepInv', BooksInv, NEW p \in Procs, phase[p] \in {"ensure", "mark"}, phase'[p] = "ensure",
         UNCHANGED <<tapes, attempt, manual, aborts>>,
         \A q \in Procs \ {p} : /\ phase'[q] = phase[q] /\ step'[q] = step[q] /\ verdicts'[q] = verdicts[q]
                                /\ batch'[q] = batch[q] /\ (q \in running' <=> q \in running)
  PROVE  BooksInv'
  <1>1. \A status \in Scored : ~(Working(p) /\ Owes(p, status))
    BY DEF Owes, OwesAt, Scored, Standings
  <1>2. \A r \in Runs : \A status \in Scored : Kept(r, status)
    BY <1>1, IdleKept
  <1>3. manual' \in Nat /\ (Undisturbed' => Undisturbed)
    BY DEF BooksInv, Undisturbed
  <1> QED  BY <1>2, <1>3, SameTotals, KeptBooks

LEMMA NextBooks == StepInv /\ BooksInv /\ [Next]_vars => BooksInv'
  <1> SUFFICES ASSUME StepInv, BooksInv, [Next]_vars PROVE BooksInv'
    OBVIOUS
  <1>1. Types /\ StepInv' /\ manual \in Nat
    BY NextStep DEF StepInv, BooksInv
  <1>2. ASSUME NEW e \in Events, RecordEvent(e), UNCHANGED exerciseVars PROVE BooksInv'
    <2>1. UNCHANGED <<running, batch, aborts, tapes, attempt, phase, step, verdicts, manual>>
      BY <1>2 DEF RecordEvent, exerciseVars
    <2> QED  BY <1>1, <2>1, StaysBooked
  <1>3. ASSUME NEW p \in Procs, ListEvents(p) \/ EndRun(p), UNCHANGED exerciseVars PROVE BooksInv'
    <2>1. phase'[p] = "ensure" /\ phase[p] = "ensure" /\ UNCHANGED <<tapes, attempt, manual, aborts>>
      BY <1>3, ListEventsStep, EndRunStep DEF exerciseVars, ListEvents, EndRun
    <2>2. \A q \in Procs \ {p} : /\ phase'[q] = phase[q] /\ step'[q] = step[q] /\ verdicts'[q] = verdicts[q]
                                  /\ batch'[q] = batch[q] /\ (q \in running' <=> q \in running)
      BY <1>1, <1>3 DEF ListEvents, EndRun, Types, exerciseVars
    <2> QED  BY <1>1, <2>1, <2>2, IdleBooked
  <1>4. ASSUME NEW p \in Procs, Mark(p) PROVE BooksInv'
    <2>1. phase'[p] = "ensure" /\ phase[p] = "mark" /\ UNCHANGED <<tapes, attempt, manual, aborts>>
      BY <1>4, MarkStep DEF Mark, MarkNormalized, At
    <2>2. \A q \in Procs \ {p} : /\ phase'[q] = phase[q] /\ step'[q] = step[q] /\ verdicts'[q] = verdicts[q]
                                  /\ batch'[q] = batch[q] /\ (q \in running' <=> q \in running)
      BY <1>1, <1>4 DEF Mark, MarkNormalized, Goto, Types
    <2> QED  BY <1>1, <2>1, <2>2, IdleBooked
  <1>5. ASSUME NEW p \in Procs, Abort(p) PROVE BooksInv'
    <2>1. phase'[p] = "ensure" /\ UNCHANGED <<tapes, attempt, manual>> /\ aborts' # 0
      <3>1. phase'[p] = "ensure" /\ UNCHANGED <<tapes, attempt>>
        BY <1>5, AbortStep
      <3>2. aborts' = aborts + 1 /\ aborts \in 0 .. MaxAborts /\ MaxAborts \in Nat /\ UNCHANGED manual
        BY <1>1, <1>5, RunnerAssumption DEF Abort, AbortRun, Types
      <3> QED  BY <3>1, <3>2
    <2>2. \A q \in Procs \ {p} : /\ phase'[q] = phase[q] /\ step'[q] = step[q] /\ verdicts'[q] = verdicts[q]
                                  /\ batch'[q] = batch[q] /\ (q \in running' <=> q \in running)
      BY <1>1, <1>5 DEF Abort, AbortRun, Goto, Types
    <2>3. ASSUME NEW r \in Runs, NEW status \in Scored PROVE Kept(r, status)
      <3>1. p \notin OwedTo(r, status)'
        BY <2>1 DEF OwedTo, Owes, OwesAt, Scored, Standings
      <3>2. \A q \in Procs \ {p} : q \in OwedTo(r, status)' => q \in OwedTo(r, status)
        BY <2>2 DEF OwedTo, Owes, Working, Attempt, Fact, Current
      <3>3. OwedTo(r, status)' \subseteq Procs
        BY DEF OwedTo
      <3>4. Evidence(r, status)' = Evidence(r, status)
        BY <2>1 DEF Evidence
      <3>5. ~Undisturbed'
        BY <2>1 DEF Undisturbed
      <3> QED  BY <3>1, <3>2, <3>3, <3>4, <3>5 DEF Kept
    <2>4. Undisturbed' => Undisturbed
      BY <2>1 DEF Undisturbed
    <2> QED  BY <1>1, <2>1, <2>3, <2>4, SameTotals, KeptBooks
  <1>6. ASSUME NEW p \in Procs, ViewTape(p) \/ CheckTape(p) \/ ClaimGate(p) PROVE BooksInv'
    <2>1. /\ Quiet(p) /\ Working(p) /\ UNCHANGED <<runnerVars, tapes, attempt, manual>>
      BY <1>6, ViewTapeEffect, CheckTapeEffect, ClaimGateEffect DEF ViewTape, CheckTape, ClaimGate, At
    <2>2. \A r \in Runs : \A status \in Scored : Kept(r, status)
      BY <2>1, QuietKept
    <2>3. Undisturbed' => Undisturbed
      BY <2>1 DEF Undisturbed, runnerVars
    <2> QED  BY <1>1, <2>1, <2>2, <2>3, SameTotals, KeptBooks
  <1>7. ASSUME NEW p \in Procs, ReadTape(p) PROVE BooksInv'
    <2>1. /\ GoesTo(p, phase[p], "insert", verdicts[p]) /\ step[p] = "read" /\ Working(p)
          /\ UNCHANGED <<runnerVars, tapes, attempt, manual>>
      BY <1>7, ReadTapeEffect DEF ReadTape
    <2>2. ASSUME NEW r \in Runs, NEW status \in Scored PROVE Kept(r, status)
      <3>1. OwesAt(phase[p], "insert", verdicts[p], status) <=> Owes(p, status)
        BY <2>1 DEF OwesAt, Owes, Scored, Standings
      <3>2. OwedTo(r, status)' = OwedTo(r, status)
        BY <2>1, <3>1, DebtsStay
      <3>3. Evidence(r, status)' = Evidence(r, status)
        BY <2>1 DEF Evidence
      <3> QED  BY <3>2, <3>3 DEF Kept
    <2>3. Undisturbed' => Undisturbed
      BY <2>1 DEF Undisturbed, runnerVars
    <2> QED  BY <1>1, <2>1, <2>2, <2>3, SameTotals, KeptBooks
  <1>8. ASSUME NEW p \in Procs, InsertCell(p) PROVE BooksInv'
    <2>1. UNCHANGED <<runnerVars, attempt, manual>>
      BY <1>8 DEF InsertCell
    <2>2. Undisturbed' => Undisturbed
      BY <2>1 DEF Undisturbed, runnerVars
    <2> QED  BY <1>1, <1>8, <2>1, <2>2, InsertCellKept, SameTotals, KeptBooks
  <1>9. ASSUME NEW p \in Procs, AddScore(p) PROVE BooksInv'
    <2>1. \A r \in Runs : Settled(r)'
      BY <1>9, AddScoreSettled DEF BooksInv
    <2> QED  BY <1>1, <1>9, <2>1 DEF BooksInv, AddScore
  <1>10. ASSUME NEW s \in Runs, NEW kind \in Kinds, NEW passed \in Verdicts, RecordByHand(s, kind, passed)
         PROVE  BooksInv'
    <2>1. /\ TapesGrow /\ UNCHANGED <<runnerVars, attempt, phase, step, verdicts, row>>
          /\ manual' = manual + 1
      BY <1>10, RecordByHandStep DEF RecordByHand
    <2>2. manual' \in Nat /\ ~Undisturbed'
      BY <1>1, <2>1 DEF Undisturbed
    <2>3. ASSUME NEW r \in Runs, NEW status \in Scored PROVE Kept(r, status)
      <3>1. OwedTo(r, status)' = OwedTo(r, status)
        BY <2>1 DEF OwedTo, Owes, Working, Attempt, Fact, Current, runnerVars
      <3>2. Evidence(r, status) \subseteq Evidence(r, status)'
        BY <2>1 DEF Evidence, TapesGrow
      <3> QED  BY <2>2, <3>1, <3>2 DEF Kept
    <2> QED  BY <1>1, <2>1, <2>2, <2>3, SameTotals, KeptBooks
  <1>11. CASE UNCHANGED vars
    <2>1. UNCHANGED <<running, batch, aborts, tapes, attempt, phase, step, verdicts, manual>>
      BY <1>11 DEF vars, runnerVars, exerciseVars
    <2> QED  BY <1>1, <2>1, StaysBooked
  <1> QED
    BY <1>2, <1>3, <1>4, <1>5, <1>6, <1>7, <1>8, <1>9, <1>10, <1>11, EnsureAttemptBooks DEF Next, Runner, Apply

\* In the first state no attempt has a row, and every tape is empty.
LEMMA InitBooks == Init => BooksInv
  <1> SUFFICES ASSUME Init, NEW r \in Runs PROVE Settled(r)
    BY DEF BooksInv, Init
  <1> DEFINE none == [status \in Scored |-> 0]
  <1>1. AddsUp(r, 0)
    <2>1. PICK scores \in [Attempts -> Int] : TRUE
      <3>1. [a \in Attempts |-> 0] \in [Attempts -> Int]
        OBVIOUS
      <3> QED  BY <3>1
    <2>2. getExerciseAttempts(r) = {}
      BY DEF getExerciseAttempts, Init
    <2> QED  BY <2>1, <2>2, SumOfNone DEF AddsUp
  <1>2. none \in [Scored -> Nat] /\ Worth(none) = 0
    BY DEF Worth, Scored, Standings
  <1>3. \A status \in Scored : OwedTo(r, status) = {} /\ Evidence(r, status) = {}
    BY DEF Init, RunnerInit, OwedTo, Working, Evidence
  <1>4. \A status \in Scored : none[status] = 0
    OBVIOUS
  <1> HIDE DEF none
  <1>5. Settles(r, none)
    BY <1>1, <1>2, <1>3, <1>4, FS_EmptySet DEF Settles
  <1> QED  BY <1>2, <1>5 DEF Settled

\* What a tape is worth, by the cells that back each status.
LEMMA TapeIsWorth ==
  ASSUME NEW r \in Runs
  PROVE  /\ Gain(tapes[r]) = Cardinality(Evidence(r, "working")) + 5 * Cardinality(Evidence(r, "passed"))
                               + 2 * Cardinality(Evidence(r, "failed"))
         /\ Cost(tapes[r]) = 3 * Cardinality(Evidence(r, "claimed_without_pass"))
  BY DEF Gain, Cost, Count, Evidence, Backs

\* The sum that `lyo exercise` shows.
LEMMA ViewAddsUp ==
  ASSUME Types, NEW r \in Runs, NEW total, AddsUp(r, total)
  PROVE  getExerciseView(r).totalScore = total
  <1>1. PICK rows \in SUBSET Attempts, scores \in [Attempts -> Int] :
          /\ rows = getExerciseAttempts(r)
          /\ \A b \in rows : scores[b] = attempt[b].score
          /\ total = SumFunctionOnSet(scores, rows)
    BY DEF AddsUp
  <1>2. PICK shown : shown = [a \in rows |-> attempt[a].score]
    OBVIOUS
  <1>3. IsFiniteSet(rows)
    BY FS_Subset, ExerciseAssumption
  <1>4. \A a \in rows : scores[a] \in Int /\ shown[a] = scores[a]
    BY <1>1, <1>2
  <1>5. SumFunctionOnSet(shown, rows) = SumFunctionOnSet(scores, rows)
    BY <1>3, <1>4, SumSame
  <1>6. getExerciseView(r).totalScore = SumFunctionOnSet(shown, rows)
    BY <1>1, <1>2 DEF getExerciseView
  <1> QED  BY <1>1, <1>5, <1>6

\* No point of a run's attempts comes from anywhere but the cells of its tape, and none is
\* lost while no run was cut off and no cell added by hand: once everyone has returned the
\* attempts hold exactly what the tape is worth, for any number of processes that apply
\* the same events.
THEOREM ScoresAreEvidence == Spec => []ScoreIsEvidence
  <1>1. StepInv /\ BooksInv => ScoreIsEvidence
    <2> SUFFICES ASSUME StepInv, BooksInv, NEW r \in Runs
                 PROVE  /\ getExerciseView(r).totalScore \in -Cost(tapes[r]) .. Gain(tapes[r])
                        /\ running = {} /\ aborts = 0 /\ manual = 0
                             => getExerciseView(r).totalScore = Gain(tapes[r]) - Cost(tapes[r])
      BY DEF ScoreIsEvidence, ScoreIsBacked, EvidenceIsScored
    <2>1. PICK settled \in [Scored -> Nat] : Settles(r, settled)
      BY DEF BooksInv, Settled
    <2>2. getExerciseView(r).totalScore = Worth(settled)
      BY <2>1, ViewAddsUp DEF Settles, StepInv
    <2> DEFINE Owed(status) == Cardinality(OwedTo(r, status))
               Cells(status) == Cardinality(Evidence(r, status))
    <2>3. \A status \in Scored : /\ settled[status] \in Nat /\ Owed(status) \in Nat /\ Cells(status) \in Nat
                                 /\ settled[status] + Owed(status) <= Cells(status)
      BY <2>1, FiniteBooks DEF Settles
    <2>4. running = {} /\ aborts = 0 /\ manual = 0 => \A status \in Scored : settled[status] = Cells(status)
      <3> SUFFICES ASSUME running = {}, aborts = 0, manual = 0, NEW status \in Scored
                   PROVE  settled[status] = Cells(status)
        OBVIOUS
      <3>1. OwedTo(r, status) = {}
        BY DEF OwedTo, Working
      <3>2. settled[status] + Owed(status) = Cells(status) /\ Owed(status) = 0
        BY <2>1, <3>1, FS_EmptySet DEF Settles, Undisturbed
      <3> HIDE DEF Owed, Cells
      <3> QED  BY <2>3, <3>2
    <2>5. /\ Gain(tapes[r]) = Cells("working") + 5 * Cells("passed") + 2 * Cells("failed")
          /\ Cost(tapes[r]) = 3 * Cells("claimed_without_pass")
      BY TapeIsWorth
    <2> HIDE DEF Owed, Cells
    <2>6. \A status \in Scored : settled[status] \in Nat /\ Cells(status) \in Nat /\ settled[status] <= Cells(status)
      BY <2>3
    <2>7. /\ "working" \in Scored /\ "passed" \in Scored /\ "failed" \in Scored
          /\ "claimed_without_pass" \in Scored
      BY DEF Scored, Standings
    <2> QED  BY <2>2, <2>4, <2>5, <2>6, <2>7 DEF Worth
  <1>2. Init => StepInv /\ BooksInv
    BY InitStep, InitBooks
  <1>3. StepInv /\ BooksInv /\ [Next]_vars => (StepInv /\ BooksInv)'
    BY NextStep, NextBooks
  <1> QED  BY <1>1, <1>2, <1>3, PTL DEF Spec

=============================================================================
