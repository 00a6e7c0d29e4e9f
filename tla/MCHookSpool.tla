---------------------------- MODULE MCHookSpool ----------------------------
EXTENDS HookSpool, TLC

CONSTANTS s1

Kinds(kinds) == [f \in Packets |-> [kind |-> kinds[f], session |-> s1]]

\* Two prompts of one session and its end.
SessionContent == Kinds(<<"prompt", "end", "prompt">>)

\* A packet without a required field before one that does not parse and a good one.
PoisonContent == Kinds(<<"incomplete", "malformed", "prompt">>)

Symmetry == Permutations(Drainers)
=============================================================================
