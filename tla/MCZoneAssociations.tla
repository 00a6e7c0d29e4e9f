------------------------ MODULE MCZoneAssociations -------------------------
EXTENDS ActivationReports, TLC

CONSTANTS j1, j2, src, docs, api, test, lint

Ev(j, zones, command, status, stop) ==
  [job |-> j, zones |-> zones, command |-> command, status |-> status, stop |-> stop]

\* A job that touches its two zones in different events, with a command that
\* succeeds and then fails, and another job.
RacingFacts == [e \in Events |-> <<Ev(j1, {src}, test, "succeeded", FALSE),
                                  Ev(j1, {docs}, test, "failed", FALSE),
                                  Ev(j2, {src, docs}, test, "attempted", TRUE)>>[e]]

\* Two jobs whose events alternate, one of them with a second command, and one that
\* fails late and touches a zone that the other never does.
SoloFacts == [e \in Events |-> <<Ev(j1, {src, docs}, test, "succeeded", FALSE),
                                Ev(j2, {src, api}, lint, "succeeded", TRUE),
                                Ev(j1, {docs}, lint, "attempted", FALSE),
                                Ev(j2, {docs}, test, "failed", FALSE),
                                Ev(j1, {}, lint, "succeeded", TRUE)>>[e]]

MCTwoZones == <<docs, src>>
MCThreeZones == <<api, docs, src>>

Symmetry == Permutations(Procs)
=============================================================================
