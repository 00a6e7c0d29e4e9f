-------------------------- MODULE MCLessonLearning --------------------------
EXTENDS LessonLearning

CONSTANTS d1, d2

MCDirs == {d1, d2}

PlanStage(role, reads, outputs, forbidden) ==
  [role |-> role, reads |-> reads, outputs |-> outputs, forbidden |-> forbidden]

\* Plans of one specification, with and without an iteration budget, and two
\* the gate turns away: one that leaves the tests readable, and one compiled
\* from markdown.
BlindPlan(spec, rounds) ==
  [valid |-> TRUE, sha |-> spec, maxRounds |-> rounds, spec |-> [file |-> "json", sha |-> spec],
   stages |-> {PlanStage("code-writer", TRUE, {"src"}, {"tests"}),
               PlanStage("test-writer", TRUE, {"tests"}, {"src"}),
               PlanStage("verifier", TRUE, {}, {})}]

SightedPlan ==
  [BlindPlan("s1", 1) EXCEPT !.stages = {PlanStage("code-writer", TRUE, {"src"}, {}),
                                         PlanStage("test-writer", TRUE, {"tests"}, {"src"})}]

MCPlans == <<{BlindPlan("s1", 3), SightedPlan, Compiled("s1", TRUE)},
             {BlindPlan("s1", 1), BlindPlan("s2", 1)}>>

Tests(code, passed, failed) ==
  [code |-> code, total |-> passed + failed, passed |-> passed, failed |-> failed]

MCResults == {Tests(0, 2, 0), Tests(1, 1, 1), Tests(7, 0, 0)}

MCBatches == {<<d1, d1>>, <<d1, d2>>}

Lesson(helpful, harmful) ==
  [vehicle |-> "prose", helpful |-> helpful, harmful |-> harmful, observed |-> <<"x", "y">>]

\* A library with one lesson for the code writer, promoted by earlier runs.
MCLibraries == {[s \in Slots |-> IF s = <<1, "code-bug">> THEN Lesson(0, 0) ELSE None]}

-----------------------------------------------------------------------------
(* The inside of a run.                                                    *)

SpecFile == <<"spec.json">>
Src == <<"src">>
TestDir == <<"tests">>
Both(code, tests) == [w \in StageWriters |-> IF w = "code" THEN code ELSE tests]
OneShot == Both("single-shot", "single-shot")

InnerPlan(reads, outputs, kind) ==
  [spec |-> SpecFile, reads |-> [w \in StageWriters |-> reads[w] \cup {SpecFile}], outputs |-> outputs,
   forbidden |-> Both(outputs.tests, outputs.code), kind |-> kind]

\* Side by side; an agent that is given its old code; tests that are given the code and
\* lie below it; a prefix that no path is under; outputs in common; and nothing forbidden.
MCStagePlans ==
  {InnerPlan(Both({}, {}), Both({Src}, {TestDir}), OneShot),
   InnerPlan(Both({Src}, {}), Both({Src}, {TestDir}), Both("agent", "single-shot")),
   InnerPlan(Both({}, {Src}), Both({Src}, {Src \o TestDir}), OneShot),
   InnerPlan(Both({}, {}), Both({<<"src", "">>}, {TestDir}), OneShot),
   InnerPlan(Both({}, {}), Both({Src}, {Src}), OneShot),
   [InnerPlan(Both({}, {}), Both({Src}, {TestDir}), OneShot) EXCEPT !.forbidden = Both({}, {})]}

MCSourceTree == {SpecFile, <<"src", "old">>}

Fence(tag, path) == [tag |-> tag, path |-> path]

\* Files of both writers, a declaration before a tagged block, a path that comes back
\* from another directory, a last declaration alone, and an absolute path.
MCReplies ==
  {<<Fence("info", <<"src", "a">>), Fence("info", <<"tests", "x">>)>>,
   <<Fence("declares", <<"src", "c">>), Fence("info", <<"src", "a">>), Fence("first", <<"src", "b">>)>>,
   <<Fence("info", <<"src", "..", "tests", "x">>), Fence("plain", <<>>),
     Fence("declares", <<"src", "tests", "x">>)>>,
   <<Fence("info", <<"src", "a">>), Fence("first", <<"src", "a">>), Fence("info", <<"tests", "y">>)>>,
   <<Fence("info", <<"", "tmp", "x">>), Fence("declares", <<"tests", "y">>)>>}

MCAgentFiles == {<<"src", "a">>, <<"tests", "x">>}

\* One rule matches the paths of both tasks, the other those of one.
MCEvalRules == ("t1" :> {"r1", "r2"}) @@ ("t2" :> {"r1"})

\* No step reads the applied tree, and what excuses it only grows: a behaviour
\* need not be followed past its first apply.
NothingFollowsApply == target = None
=============================================================================
