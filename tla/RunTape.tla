------------------------------ MODULE RunTape ------------------------------
(***************************************************************************)
(* recordRunTapeCell (src/src/reducers/tape.ts) called by processes that   *)
(* share the ledger file: hook processes and `lyo tape record`.  A call    *)
(* reads the tape in one statement, decides on what it read, and inserts   *)
(* in another.  There is no transaction around the two; what serialises    *)
(* the callers is the unique index on (run_id, cell_index).                *)
(*                                                                         *)
(* tapes[r] holds the rows of run_tape_cells of run r, keyed by            *)
(* cell_index.  call[w] is the call process w is in: None, or what it      *)
(* computed from the view it read.                                         *)
(***************************************************************************)
EXTENDS TapeGrammar

CONSTANTS Runs,      \* run ids
          Writers,   \* processes that write tapes
          MaxCells,  \* bound on the cells of a tape
          None       \* no call in progress

VARIABLES tapes, call

vars == <<tapes, call>>

Request == [run: Runs, index: Nat \ {0}, cell: Cell]

ASSUME RunTapeAssumption == None \notin Request /\ MaxCells \in Nat

Init ==
  /\ tapes = [r \in Runs |-> <<>>]
  /\ call = [w \in Writers |-> None]

\* A row numbered one too far.
RequestSkipping(r, view, kind, passed) ==
  [run |-> r, index |-> Len(view) + 2, cell |-> CellAfter(TapeState(view), kind, passed)]

\* The row a reader of the view appends: cells.length + 1, view.state.
RequestFrom(r, view, kind, passed) ==
  [run |-> r, index |-> Len(view) + 1, cell |-> CellAfter(TapeState(view), kind, passed)]

\* A call validates its input and reads the tape.  An illegal kind throws: nothing changes.
ReadView(w, r, kind, passed) ==
  /\ call[w] = None
  /\ Len(tapes[r]) < MaxCells
  /\ ValidPayload(kind, passed)
  /\ kind \in LegalNextKinds(tapes[r])
  /\ call' = [call EXCEPT ![w] = RequestFrom(r, tapes[r], kind, passed)]
  /\ UNCHANGED tapes

\* An index that does not keep cell numbers unique: the row replaces an earlier one.
CanInsertOverwriting(rows, index) == TRUE

\* unique (run_id, cell_index), and the primary key cell_id that is built from both.
CanInsert(rows, index) == index \notin DOMAIN rows

InsertRow(rows, index, cell) ==
  [i \in DOMAIN rows \cup {index} |-> IF i = index THEN cell ELSE rows[i]]

Insert(w) ==
  LET req == call[w] IN
  /\ req # None
  /\ CanInsert(tapes[req.run], req.index)
  /\ tapes' = [tapes EXCEPT ![req.run] = InsertRow(@, req.index, req.cell)]
  /\ call' = [call EXCEPT ![w] = None]

\* The insert throws: the constraint is violated, or the file stays locked past
\* busy_timeout; or the process dies between the two statements.
Abandon(w) ==
  /\ call[w] # None
  /\ call' = [call EXCEPT ![w] = None]
  /\ UNCHANGED tapes

Next ==
  \E w \in Writers :
    \/ \E r \in Runs, kind \in Kinds, passed \in Verdicts : ReadView(w, r, kind, passed)
    \/ Insert(w)
    \/ Abandon(w)

Spec == Init /\ [][Next]_vars

-----------------------------------------------------------------------------
\* Every tape is a sequence of cells without gaps, and every call in progress is
\* for a row at most one past the end of the tape (getRunTapeCells orders by
\* cell_index and recordRunTapeCell counts rows: a gap would make the count collide).
TypeOK ==
  /\ tapes \in [Runs -> Seq(Cell)]
  /\ call \in [Writers -> Request \cup {None}]
  /\ \A w \in Writers : call[w] # None => call[w].index <= Len(tapes[call[w].run]) + 1

\* A tape read by anyone is a sentence of the grammar, however the writers
\* interleave between their read and their insert.
TapesLegal == \A r \in Runs : LegalTape(tapes[r])

\* The verifier gate: a run is recorded as completed only directly after a
\* verifier result that passed.
VerifierGated ==
  \A r \in Runs : \A i \in DOMAIN tapes[r] :
    tapes[r][i].kind = "outcome_completed" =>
      /\ i > 1
      /\ tapes[r][i - 1].kind = "verifier_result"
      /\ tapes[r][i - 1].passed = "pass"

\* No verdict without new work: between two verifier results of a run its
\* worker acted.
FreshWorkPerVerdict ==
  \A r \in Runs : \A i, j \in DOMAIN tapes[r] :
    (i < j /\ tapes[r][i].kind = "verifier_result" /\ tapes[r][j].kind = "verifier_result")
      => \E k \in i..j : tapes[r][k].kind = "worker_action"

\* No completion without a verdict that passed and no verdict without work: a run
\* is only ever completed on account of work that was verified (reducers/tape.ts:119).
VerdictsAreEarned == VerifierGated /\ FreshWorkPerVerdict

\* What makes the optimistic insert safe: a call whose row is still the next one
\* holds the cell that the current tape calls for.
RequestsCurrent ==
  \A w \in Writers :
    LET req == call[w]
        tape == tapes[req.run]
    IN  req # None /\ req.index = Len(tape) + 1 =>
          /\ ValidPayload(req.cell.kind, req.cell.passed)
          /\ req.cell.kind \in LegalNextKinds(tape)
          /\ req.cell = CellAfter(TapeState(tape), req.cell.kind, req.cell.passed)

\* The inductive invariant.
IInv == TypeOK /\ TapesLegal /\ RequestsCurrent

\* Unsynchronised readers and inserters implement the tape that grows atomically.
Abstract == INSTANCE AtomicTape
ImplementsAtomicTape == Abstract!Spec
=============================================================================
