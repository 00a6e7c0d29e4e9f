--------------------------- MODULE MCLessonStores ----------------------------
(* Instances of LessonStores for TLC. *)
EXTENDS LessonStores, MCLessonStore

CONSTANTS r1, r2, m1, m2

\* Runs are alike, and so are triggers.
Alike == Permutations(Runs) \cup Permutations(Triggers)

Prior(confidence, strength) == [confidence |-> confidence, strength |-> strength]
Proposal(arm, prior) == [arm |-> arm, prior |-> prior]
Trace(run, trigger, class, scope, outcome, proposals) ==
  [run |-> run, trigger |-> trigger, class |-> class, scope |-> scope, outcome |-> outcome,
   proposals |-> proposals, seed |-> trigger]

\* Two lessons of one class, one further upstream, and one outside the taxonomy.
MCArmClass == ("a1" :> "tool_selection") @@ ("a2" :> "tool_selection") @@
              ("a3" :> "goal_deviation") @@ ("a4" :> "other")

\* Strengths above the maximum and left out, a confidence out of range, and a run that
\* is replayed with two triggers.
MCTraces ==
  {Trace("x1", "t1", "tool_selection", "exact", "passed",
         <<Proposal("a1", Prior(9, Nothing)), Proposal("a2", Prior(12, 20))>>),
   Trace("x3", "t1", "tool_selection", "upstream", "failed",
         <<Proposal("a3", Prior(3, 1)), Proposal("a1", Prior(0, 1))>>),
   Trace("x1", "t2", "other", "upstream", "failed", <<Proposal("a4", Prior(13, 1))>>)}

\* A store from before decisions were logged and credits were weighted, with a receipt
\* that is still pending.
Old(arm) ==
  [library  |-> (arm :> [helpful |-> One, harmful |-> 0, uses |-> 2, prior |-> Nothing]),
   deltas   |-> <<LessonDelta("CREATE", arm), [LessonDelta("MARK_HELPFUL", arm) EXCEPT !.receipt = 1]>>,
   receipts |-> <<[arm |-> arm, run |-> "x0", trigger |-> "t1", decision |-> 0, outcome |-> "passed",
                   resolvedIn |-> 0],
                  [arm |-> arm, run |-> "x1", trigger |-> "t2", decision |-> 0, outcome |-> "pending",
                   resolvedIn |-> 0]>>]

MCLegacies == {Old("a1")}
=============================================================================
