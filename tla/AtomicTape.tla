----------------------------- MODULE AtomicTape -----------------------------
(***************************************************************************)
(* What a run tape promises its readers: each run's tape grows by one      *)
(* legal cell at a time and nothing of it is ever changed or removed.      *)
(***************************************************************************)
EXTENDS TapeGrammar

CONSTANT Runs

VARIABLE tapes

Init == tapes = [r \in Runs |-> <<>>]

Append1(r, kind, passed) ==
  /\ ValidPayload(kind, passed)
  /\ kind \in LegalNextKinds(tapes[r])
  /\ tapes' = [tapes EXCEPT ![r] = Append(@, CellAfter(TapeState(@), kind, passed))]

Next == \E r \in Runs, kind \in Kinds, passed \in Verdicts : Append1(r, kind, passed)

Spec == Init /\ [][Next]_tapes
=============================================================================
