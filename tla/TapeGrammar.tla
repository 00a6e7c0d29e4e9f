---------------------------- MODULE TapeGrammar ----------------------------
(***************************************************************************)
(* The grammar of a run tape (src/src/reducers/tape.ts): which kinds of    *)
(* cell may follow a tape, the state a cell leaves the tape in, and the    *)
(* cell that recordRunTapeCell would insert.  A tape is the sequence of    *)
(* the rows of run_tape_cells of one run in cell_index order.              *)
(***************************************************************************)
EXTENDS Naturals, Sequences

Kinds == {"run_goal", "verifier_spec", "worker_action", "assistant_claim",
          "verifier_result", "gap", "outcome_completed", "blocked"}

States == {"empty", "goal_declared", "verifier_specified", "working",
           "claimed_completion", "verifying", "revising", "completed", "blocked"}

\* The column passed: 1, 0 or null.
Verdicts == {"pass", "fail", "null"}

Cell == [kind: Kinds, passed: Verdicts, before: States, after: States]

\* verifier_result carries a verdict, no other kind does.
ValidPayload(kind, passed) == (kind = "verifier_result") <=> (passed # "null")

StateAfterForCell(kind) ==
  CASE kind = "run_goal"          -> "goal_declared"
    [] kind = "verifier_spec"     -> "verifier_specified"
    [] kind = "worker_action"     -> "working"
    [] kind = "assistant_claim"   -> "claimed_completion"
    [] kind = "verifier_result"   -> "verifying"
    [] kind = "gap"               -> "revising"
    [] kind = "outcome_completed" -> "completed"
    [] kind = "blocked"           -> "blocked"

\* The state the first n cells of a tape leave it in, and the verdict of the last of them.
StateAfter(tape, n) == IF n = 0 THEN "empty" ELSE tape[n].after

VerdictAt(tape, n) == IF n = 0 THEN "null" ELSE tape[n].passed

\* getRunTapeView: the state of a tape is what its last cell recorded.
TapeState(tape) == StateAfter(tape, Len(tape))

\* A grammar that lets a run complete on a failed verdict.
LegalNextIgnoringVerdict(state, passed) ==
  CASE state = "empty"              -> {"run_goal"}
    [] state = "goal_declared"      -> {"verifier_spec"}
    [] state = "verifier_specified" -> {"worker_action"}
    [] state = "working"            -> {"assistant_claim", "verifier_result"}
    [] state = "claimed_completion" -> {"gap", "verifier_result", "blocked"}
    [] state = "revising"           -> {"worker_action", "blocked"}
    [] state = "verifying"          -> {"gap", "worker_action", "blocked",
                                        "outcome_completed", "verifier_spec"}
    [] OTHER                        -> {}

\* A grammar that lets a failed run be verified again without new work.
LegalNextReverify(state, passed) ==
  IF state = "revising" THEN {"worker_action", "verifier_result", "blocked"}
                        ELSE LegalNextIgnoringVerdict(state, passed)

\* The kinds that may follow a cell that left the tape in state, with its verdict.
LegalNextKindsFor(state, passed) ==
  CASE state = "empty"              -> {"run_goal"}
    [] state = "goal_declared"      -> {"verifier_spec"}
    [] state = "verifier_specified" -> {"worker_action"}
    [] state = "working"            -> {"assistant_claim", "verifier_result"}
    [] state = "claimed_completion" -> {"gap", "verifier_result", "blocked"}
    [] state = "revising"           -> {"worker_action", "blocked"}
    [] state = "verifying" /\ passed = "fail" -> {"gap", "worker_action", "blocked"}
    [] state = "verifying" /\ passed = "pass" -> {"outcome_completed", "verifier_spec"}
    [] OTHER                        -> {}

LegalNextKinds(tape) == LegalNextKindsFor(TapeState(tape), VerdictAt(tape, Len(tape)))

CellAfter(state, kind, passed) ==
  [kind |-> kind, passed |-> passed, before |-> state, after |-> StateAfterForCell(kind)]

\* Every cell of the tape was legal after the cells before it, and records the
\* state they left.
LegalTape(tape) ==
  \A i \in DOMAIN tape :
    /\ tape[i].kind \in LegalNextKindsFor(StateAfter(tape, i - 1), VerdictAt(tape, i - 1))
    /\ ValidPayload(tape[i].kind, tape[i].passed)
    /\ tape[i] = CellAfter(StateAfter(tape, i - 1), tape[i].kind, tape[i].passed)
=============================================================================
