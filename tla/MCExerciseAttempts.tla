------------------------- MODULE MCExerciseAttempts -------------------------
EXTENDS ExerciseAttempts, TLC

CONSTANTS a1, a2, r1

\* Two exercises worked on in one turn share the turn's tape.
MCRunOf == [a \in Attempts |-> r1]

Ev(a, wrote, results, stop) ==
  [attempt |-> a, wrote |-> wrote, verdicts |-> results, stop |-> stop]

\* A shell command that patches a file and runs the tests, which fail; another one,
\* in the other exercise, whose tests pass; and the end of the turn in the first.
MCFacts == [e \in Events |-> <<Ev(a1, TRUE, <<"fail">>, FALSE),
                              Ev(a2, TRUE, <<"pass">>, FALSE),
                              Ev(a1, FALSE, <<>>, TRUE)>>[e]]

\* Either a run that ends early or a cell added by hand, not both in one behaviour.
OneDisturbance == aborts + manual <= 1

Symmetry == Permutations(Procs)
=============================================================================
