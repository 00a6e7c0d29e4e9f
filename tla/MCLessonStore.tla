---------------------------- MODULE MCLessonStore ----------------------------
EXTENDS LessonStore, TLC

CONSTANTS g1, g2

\* The uniform credit, and a half against the outcome.
MCWeights == {-1, 2}

Repeated(delta, n) == [i \in 1..n |-> delta]

\* A lesson that so many runs marked, each by the uniform credit.
Earned(l, g, helpful, harmful) ==
  <<[NewDelta("CREATE", l) EXCEPT !.group = g]>>
  \o Repeated([NewDelta("MARK_HARMFUL", l) EXCEPT !.harmful = Unit], harmful)
  \o Repeated([NewDelta("MARK_HELPFUL", l) EXCEPT !.helpful = Unit], helpful)

\* Half a credit on either side, of lessons that were chosen less than they should be.
Halves(l) == <<[NewDelta("MARK_HARMFUL", l) EXCEPT !.harmful = 1],
               [NewDelta("MARK_HELPFUL", l) EXCEPT !.helpful = 1]>>

\* A lesson one mark away from its promotion, one that a mark will quarantine, and two
\* lessons that say the same, as a store may hold that was not written by createLesson.
NearVerdicts == {Earned(1, g1, 6, 1), Earned(1, g1, 0, 6) \o Halves(1),
                 Earned(1, g1, 1, 0) \o Earned(2, g1, 2, 1)}

NearQuarantine == {Earned(1, g1, 0, 6) \o Halves(1)}
=============================================================================
