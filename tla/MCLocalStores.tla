--------------------------- MODULE MCLocalStores ----------------------------
(* Instances of LocalStores for TLC. *)
EXTENDS LocalStores

CONSTANTS w1, w2, g1, g2

Leaf(key, kind, value) == [key |-> key, kind |-> kind, value |-> value, patch |-> <<>>, children |-> <<>>]
Branch(key, kind, children) ==
  [key |-> key, kind |-> kind, value |-> None, patch |-> <<>>, children |-> children]
Patch(key, operations) == [Leaf(key, "text", "patch") EXCEPT !.patch = operations]

Command(text, words, traits, paths) ==
  [text |-> text, class |-> classifyCommand(words), traits |-> traits, paths |-> paths]

Reply(exit) ==
  Branch("", "object", <<Branch("toolinput", "object", <<>>),
                         Branch("toolresponse", "object",
                                IF exit = None THEN <<>> ELSE <<Leaf("exitcode", "number", ToString(exit))>>)>>)

\* What the compiler keeps of the paths of a tool's input.
TouchedPaths(input, found) ==
  {[path |-> fact.path, write |-> fact.kind \in {"file_written", "file_created", "file_deleted"}] :
     fact \in collectPathFacts(input, pathActivationKindForTool(found))}

HookRow(id, turn, session, name, call, tool, command, paths, exit) ==
  [id |-> id, turn |-> turn, session |-> session, name |-> name, call |-> call, tool |-> tool,
   command |-> command, paths |-> paths, exit |-> exit, signal |-> hookStatusSignal(Reply(exit))]

Npm == Command("npm test", <<"npm", "test">>, {"package"}, {})
RemoveOut == Command("rm -rf out", <<"rm", "-rf", "out">>, {"destructive", "file-mutation"}, {"out"})
Push == Command("git push", <<"git", "push">>, {"git", "git-prefix", "mentions-git"}, {})
Beads == Command("bd ready", <<"bd", "ready">>, {}, {})
Edited == TouchedPaths(Patch("patch", << <<"Update", "f">> >>), {})
Viewed == TouchedPaths(Branch("", "object", <<Leaf("path", "text", "f")>>), {"read"})

\* Payloads that speak of the outcome at the top, inside, in a list, twice, or not at all.
Outcomes1 == {Leaf("exitcode", "number", "0"), Leaf("exitcode", "number", "1"), Leaf("exitcode", "text", "1"),
              Leaf("success", "boolean", "false"), Leaf("status", "text", "completed"),
              Leaf("status", "text", "running"), Leaf("error", "text", ""), Leaf("error", "text", "timeout")}
Nested == Outcomes1 \cup {Branch("items", "list", <<Leaf("items", "text", "x"), Branch("items", "object", <<o>>)>>) :
                           o \in Outcomes1}
MCPayloads == {Branch("", "object", <<Branch("toolinput", "object", <<a>>), Branch("toolresponse", "object", <<b>>)>>) :
               a \in Nested, b \in Nested}

MCCommandLines == {<<"vitest">>, <<"tsc", "build">>, <<"docker", "build">>, <<"docker", "push">>, <<"docker", "run">>,
                   <<"helm", "upgrade">>, <<"eslint", "test">>, <<"bd", "ready">>}

\* The run whose key is turn 2 starts after the one whose key is session 1.
MCRow ==
  (1 :> HookRow(1, 2, 1, "PostToolUse", "c1", "shell", Npm, {}, None)) @@
  (2 :> HookRow(2, 2, 1, "PreToolUse", "c1", "shell", Npm, {}, None)) @@
  (3 :> HookRow(3, None, 1, "tool.after", None, "FileChange", None, Edited, None))

MCScripts == {<<>>, <<LineOf(3), Blank, LineOf(1)>>, <<LineOf(2), LineOf(1), LineOf(3)>>,
              <<LineOf(2), Malformed>>}

Kind(name, call, tool, command, paths, exit) == HookRow(0, 1, 9, name, call, tool, command, paths, exit)

MCRowKinds ==
  {Kind("PreToolUse", "c1", "shell", Npm, {}, None),
   Kind("PostToolUseFailure", "c1", "shell", Npm, {}, 1),
   Kind("PreToolUse", None, "shell", Npm, {}, None),
   Kind("PostToolUse", None, "shell", Npm, {}, 0),
   Kind("tool.after", None, "FileChange", None, Edited, None),
   Kind("tool.after", None, "Read", None, Viewed, None),
   Kind("PermissionRequest", "c2", "shell", RemoveOut, {}, None),
   Kind("PostToolUse", "c2", "shell", RemoveOut, {}, None),
   Kind("tool.after", "c3", "shell", Push, {}, None),
   Kind("UserPromptSubmit", None, None, None, {}, None),
   HookRow(0, None, 9, "tool.after", None, "shell", Beads, {}, None),
   Kind("Stop", None, None, None, {}, None)}

Spec1(id, commands, kind, required) == [id |-> id, commands |-> commands, kind |-> kind, required |-> required]

MCSpecLists ==
  {<<>>,
   <<Spec1("tests", {"npm test"}, "targeted", TRUE), Spec1("push", {"git push"}, "smoke", FALSE)>>,
   <<Spec1("all", {"npm test", "git push"}, "broad", FALSE)>>}

MCWordings == {{}, {"done"}, {"done", "verifier"}, {"blocker"}}

MCLineages ==
  {[prompts |-> 0, calls |-> 2, refs |-> {}],
   [prompts |-> 1, calls |-> 0, refs |-> {}],
   [prompts |-> 1, calls |-> 2, refs |-> {"loop"}],
   [prompts |-> 3, calls |-> 1, refs |-> {"docs", "tests"}]}

MCGaps == (g1 :> "observed") @@ (g2 :> "observed") @@ ("g3" :> "inferred")
MCPreferences == ("f1" :> "high") @@ ("f2" :> "medium")
MCDerivations == {[chosen |-> "a", rejected |-> "b", preference |-> "f2", protocol |-> 2]}
MCJudgements == {[followed |-> TRUE, repeated |-> FALSE, verified |-> TRUE, cost |-> "low"],
                 [followed |-> FALSE, repeated |-> TRUE, verified |-> FALSE, cost |-> "high"]}

MCTurn == ("p1" :> 1) @@ ("p2" :> 1)
MCTextKind == ("p1" :> "follow_up") @@ ("p2" :> "debugging_request")
MCLegacy == <<"p1">>
MCResponses == {[turn |-> 1, kind |-> "question"]}
MCAlikeSummaries == {{"p1", "p2"}}
MCTurnCost == <<2>>

\* A change of one hunk, and a commit that changes no file.
MCHistory == <<"k1", "k2">>
MCChanged == ("k1" :> <<[path |-> "a.ts", hunks |-> << <<>> >>]>>) @@ ("k2" :> <<>>)
MCCorpora == <<"s1">>

\* An empty store only, one before another with lessons, and one with lessons.
MCOpenings == {<<>>, <<"absent", "empty">>, <<"empty", "stocked">>, <<"stocked", "absent">>}
MCMarkerName == ("a.b" :> "a_b") @@ ("a_b" :> "a_b")

\* The processes are alike, and so are the two observed gaps.
Alike == Permutations({w1, w2}) \cup Permutations({g1, g2})

\* A recorded outcome is not read by any action.
NothingFollowsOutcome == DOMAIN outcomes = {}

\* Gaps and preferences are counted apart.
OneKindOfEvidence == evidence = {} \/ preferring = {}
=============================================================================
