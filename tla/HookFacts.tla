----------------------------- MODULE HookFacts ------------------------------
(***************************************************************************)
(* What a hook event says: the class of the command it carries, how the    *)
(* call ended and which paths it touched (src/src/hooks/normalizer.ts,     *)
(* behavior/command-classifier.ts).  The normalization of the ledger and   *)
(* the telemetry compiler both read events through these functions.        *)
(*                                                                         *)
(* A command is the sequence of its lower-case words, the first of which   *)
(* names it.  A payload is a tree: a node has a key, normalized, a kind, a *)
(* value, the patch operations of its text, and its children in order; an  *)
(* item of a list has the key of the list.                                 *)
(***************************************************************************)
EXTENDS EffectAlgebra

CONSTANTS Payloads,     \* the payloads and the commands that the statements
          CommandLines, \* at the end are checked for
          MaxDepth      \* bound: the depth of a payload

ASSUME HookFactsAssumption == MaxDepth \in Nat

BeforeNames == {"PreToolUse", "tool.before"}
AfterNames == {"PostToolUse", "tool.after"}
FailureNames == {"PostToolUseFailure", "tool.failure"}

\* A chain of ifs: the value of the first rule whose condition holds.
FirstOf(rules, default) ==
  LET hit == SelectInSeq(rules, LAMBDA rule : rule[1])
  IN IF hit = 0 THEN default ELSE rules[hit][2]

FirstKnown(values) ==
  LET hit == SelectInSeq(values, LAMBDA value : value # None)
  IN IF hit = 0 THEN None ELSE values[hit]

\* A payload and all that is inside it.
NodesOf(payload) ==
  LET within[depth \in Nat] ==
        IF depth = 0 THEN {payload}
        ELSE within[depth - 1] \cup UNION {Range(node.children) : node \in within[depth - 1]}
  IN within[MaxDepth]

-----------------------------------------------------------------------------
(* Commands.                                                               *)

PackageManagers == {"npm", "npx", "pnpm", "yarn"}

\* A word of the pattern stands anywhere in the command, not behind a hyphen.
Mentions(words, pattern) == \E i \in DOMAIN words : words[i] = pattern

PackageClass(words) ==
  FirstOf([i \in 1 .. 5 |->
    LET rule == << <<"test", "test">>, <<"lint", "lint">>, <<"format", "format">>,
                   <<"build", "build">>, <<"install", "package">> >>[i]
    IN <<Mentions(words, rule[1]), rule[2]>>], "unknown")

\* The rules that only look at the tool, but for docker's two.
ToolClass(tool, words) ==
  FirstOf(<< <<tool \in PackageManagers, PackageClass(words)>>,
             <<tool \in {"git", "gh"}, "git">>,
             <<tool = "docker" /\ Mentions(words, "build"), "build">>,
             <<tool = "docker" /\ Mentions(words, "push"), "deploy">>,
             <<tool \in {"kubectl", "terraform", "releasectl", "gcloud"}, "deploy">>,
             <<tool \in {"pytest", "vitest", "jest"}, "test">>,
             <<tool = "tsc", "build">>,
             <<tool = "eslint", "lint">>,
             <<tool = "prettier", "format">>,
             <<tool \in {"sqlite3", "psql"}, "database">>,
             <<tool = "aws", "cloud">>,
             <<tool \in {"ls", "cat", "grep", "find"}, "inspect">>,
             <<tool \in {"node", "vite"}, "local_dev">> >>, "unknown")

\* The tool that npx and pnpm run: the word behind them, or behind exec.
PassedThrough(words) ==
  IF Len(words) < 2 THEN None
  ELSE IF words[2] = "exec" /\ Len(words) > 2 THEN words[3] ELSE words[2]

\* npx and pnpm are the tool they run, except pnpm run.  (One that runs itself would
\* be classified for ever, and is no command of a model.)
classifyCommand(words) ==
  LET tool == words[1]
      inner == PassedThrough(words)
      wraps == inner # None /\ (tool = "npx" \/ (tool = "pnpm" /\ inner \notin {"run", "exec"}))
  IN ToolClass(IF wraps THEN inner ELSE tool, words)

-----------------------------------------------------------------------------
(* How a call ended.                                                       *)

Truthy(node) ==
  <<node.kind, node.value>> \notin {<<"number", "0">>, <<"boolean", "false">>, <<"null", None>>, <<"text", "">>}

FailedWords == {"failed", "failure", "error", "errored", "cancelled"}
SucceededWords == {"succeeded", "success", "completed", "passed", "ok"}

\* What an entry of an object says by itself.
EntrySignal(node) ==
  FirstOf(<< <<node.key = "exitcode" /\ node.kind = "number",
               IF node.value = "0" THEN "succeeded" ELSE "failed">>,
             <<node.key = "success" /\ node.kind = "boolean",
               IF node.value = "true" THEN "succeeded" ELSE "failed">>,
             <<node.key = "status" /\ node.kind = "text" /\ node.value \in FailedWords, "failed">>,
             <<node.key = "status" /\ node.kind = "text" /\ node.value \in SucceededWords, "succeeded">>,
             <<node.key = "error" /\ Truthy(node), "failed">> >>, None)

\* A word of the walk through a payload: a node to be visited, or what was said.
Visit(node) == [said |-> FALSE, node |-> node]
Said(signal) == [said |-> TRUE, signal |-> signal]

\* The entries of an object speak before anything inside them.
Visited(word) ==
  IF word.said THEN <<word>>
  ELSE LET children == word.node.children
           entries == IF word.node.kind # "object" THEN <<>>
                      ELSE SelectSeq([i \in DOMAIN children |-> EntrySignal(children[i])], LAMBDA signal : signal # None)
       IN [i \in DOMAIN entries |-> Said(entries[i])] \o [i \in DOMAIN children |-> Visit(children[i])]

\* A walk that has reached so deep.
Walk(payload) ==
  LET walk[depth \in Nat] ==
        IF depth = 0 THEN <<Visit(payload)>>
        ELSE LET before == walk[depth - 1] IN FlattenSeq([i \in DOMAIN before |-> Visited(before[i])])
  IN walk[MaxDepth]

\* The first that is said, None when nothing is.
hookStatusSignal(payload) ==
  LET heard == SelectSeq(Walk(payload), LAMBDA word : word.said)
  IN IF heard = <<>> THEN None ELSE heard[1].signal

inferHookCommandStatus(name, signal) ==
  FirstOf(<< <<name \in BeforeNames, "attempted">>,
             <<name \in FailureNames, "failed">>,
             <<name \notin AfterNames, "unknown">>,
             <<signal # None, signal>> >>, "succeeded")

-----------------------------------------------------------------------------
(* Paths.                                                                  *)

\* The kind is that of the first word found in the tool's name.
pathActivationKindForTool(found) ==
  FirstOf(<< <<"read" \in found, "file_read">>,
             <<found \cap {"ls", "list"} # {}, "directory_listed">>,
             <<"delete" \in found, "file_deleted">>,
             <<found \cap {"write", "edit", "patch"} # {}, "file_written">> >>, "unknown")

patchOperationKind(operation) ==
  FirstOf(<< <<operation = "Add", "file_created">>, <<operation = "Delete", "file_deleted">> >>, "file_written")

\* A text under a path's key is a path of the tool's kind; a patch, wherever it
\* stands, has the kind of each of its operations.
collectPathFacts(payload, kind) ==
  UNION {(IF node.kind = "text" /\ node.key = "path" THEN {[path |-> node.value, kind |-> kind]} ELSE {})
           \cup {[path |-> operation[2], kind |-> patchOperationKind(operation[1])] : operation \in Range(node.patch)} :
         node \in NodesOf(payload)}

-----------------------------------------------------------------------------
\* Every statement about the outcome that a payload makes.
SignalsIn(payload) ==
  UNION {{EntrySignal(child) : child \in Range(node.children)} :
           node \in {n \in NodesOf(payload) : n.kind = "object"}} \ {None}

\* However deep a result reports how the call ended, it is heard: a payload without a
\* statement gives none, one whose statements agree gives what they say, and any other
\* gives one of them.
SignalsAreHeard ==
  \A payload \in Payloads :
    LET all == SignalsIn(payload)
        heard == hookStatusSignal(payload)
    IN IF all = {} THEN heard = None ELSE heard \in all

\* A tool is of one class whether it is run by itself, by npx or by pnpm exec, whatever
\* it is told to do.
WrappersAreSeenThrough ==
  \A words \in {w \in CommandLines : w[1] \notin PackageManagers} :
    \A wrapper \in {<<"npx">>, <<"npx", "exec">>, <<"pnpm", "exec">>} :
      classifyCommand(wrapper \o words) = classifyCommand(words)

EventsAreRead == SignalsAreHeard /\ WrappersAreSeenThrough
=============================================================================
