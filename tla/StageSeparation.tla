--------------------------- MODULE StageSeparation ---------------------------
(***************************************************************************)
(* What keeps the two writers of a blind run apart, file by file: the gate *)
(* and the prompts compiled from a plan (src/src/contract/plan.ts,         *)
(* src/src/compiler/prompt-artifacts.ts), the sandbox each writer is given *)
(* and the file blocks taken from its replies (src/src/runner/files.ts),   *)
(* and the artifacts that replace those of the round before and are merged *)
(* for the verifier (src/src/runner/writer-stage.ts, run-pipeline.ts).     *)
(*                                                                         *)
(* A path is its text split at the slashes, so <<"src", "">> is src/ and   *)
(* <<"", "tmp">> is /tmp.  A file on disk is known by its place and its    *)
(* content by its origin.                                                  *)
(***************************************************************************)
EXTENDS Integers, Sequences, FiniteSets, SequencesExt

CONSTANTS StagePlans,   \* [spec, reads, outputs, forbidden, kind], the last four by writer
          SourceTree,   \* the files beside the plan
          WriterReplies,\* what a model may answer: sequences of raw blocks
          AgentFiles,   \* the files an agent may write into its sandbox
          MaxStageRounds

VARIABLES stagePlan,    \* the plan of the run
          stageRound,   \* the round of the code writer
          stageAt,      \* what each writer is doing
          transcript,   \* the raw blocks of its replies
          sandbox,      \* its files, each with its origin
          artifact,     \* artifacts/code and artifacts/tests
          manifest,     \* the files that each manifest lists
          mergedTree,   \* the tree of the verifier
          suite         \* history: the tests of the first verification

stageVars == <<stagePlan, stageRound, stageAt, transcript, sandbox, artifact, manifest, mergedTree, suite>>

StageWriters == {"code", "tests"}

ASSUME StageAssumption ==
  /\ MaxStageRounds \in Nat \ {0}
  /\ \A plan \in StagePlans, w \in StageWriters :
       plan.reads[w] \subseteq Seq(STRING) /\ plan.outputs[w] \subseteq Seq(STRING)
  /\ SourceTree \subseteq Seq(STRING) /\ AgentFiles \subseteq Seq(STRING)
  /\ WriterReplies \subseteq Seq([tag : STRING, path : Seq(STRING)])

OtherWriter(w) == IF w = "code" THEN "tests" ELSE "code"
NoFiles == <<>>
Source == [by |-> "source", round |-> 0, block |-> 0]

-----------------------------------------------------------------------------
(* Paths.                                                                  *)

\* One part more: nothing for "." and an empty part, one back for ".."
AddPart(parts, part) ==
  IF part \in {"", "."} THEN parts
  ELSE IF part = ".." /\ parts # <<>> /\ Last(parts) # ".." THEN Front(parts)
  ELSE Append(parts, part)

Location(path) == LET parts == FoldLeft(AddPart, <<>>, path) IN IF parts = <<>> THEN <<".">> ELSE parts

\* normalize keeps the slash at the end.
normalizePath(path) == IF Last(path) = "" THEN Append(Location(path), "") ELSE Location(path)

\* filterDeclaredWrites: relative, not out of the sandbox, and a prefix itself or below it.
AcceptsWrite(path, outputs) ==
  /\ Head(path) # "" /\ Head(normalizePath(path)) # ".."
  /\ \E prefix \in outputs : IsPrefix(normalizePath(prefix), normalizePath(path))

Below(place, paths) == \E path \in paths : IsPrefix(Location(path), place)

\* One tree written over another.
Over(files, held) ==
  [p \in DOMAIN files \cup DOMAIN held |-> IF p \in DOMAIN files THEN files[p] ELSE held[p]]

Overlap(paths, others) ==
  \E path \in paths, other \in others :
    IsPrefix(Location(path), Location(other)) \/ IsPrefix(Location(other), Location(path))

-----------------------------------------------------------------------------
(* The gate, and the compiled prompts.                                     *)

\* checkBlindness: both read the specification and forbid the other's outputs, by name.
PlanIsBlind(plan) ==
  \A w \in StageWriters : plan.spec \in plan.reads[w] /\ plan.outputs[OtherWriter(w)] \subseteq plan.forbidden[w]

\* compileSeparatedCodeAndTestPromptArtifacts
WriterConfigs(input) ==
  [w \in StageWriters |->
     [read           |-> input.specPaths \cup input.interfacePaths
                           \cup (IF w = "code" THEN input.sourceReadPaths ELSE input.existingTestReadPaths),
      write          |-> input.outputPaths[w],
      forbiddenRead  |-> input.outputPaths[OtherWriter(w)]
                           \cup (IF w = "code" THEN input.existingTestReadPaths ELSE {}),
      forbiddenWrite |-> input.outputPaths[OtherWriter(w)]]]

\* validateStageConfig, after requiredPaths
ValidConfig(config) ==
  /\ config.read # {} /\ config.write # {}
  /\ config.read \cap config.forbiddenRead = {}
  /\ config.write \cap config.forbiddenWrite = {}

Compiles(input) == \A w \in StageWriters : ValidConfig(WriterConfigs(input)[w])

\* buildStagePrompts: of the reads only the specification is named.
PromptInput(plan) ==
  [specPaths |-> {plan.spec}, interfacePaths |-> {}, sourceReadPaths |-> {},
   existingTestReadPaths |-> {}, outputPaths |-> plan.outputs]

-----------------------------------------------------------------------------
(* Blocks of a reply: fences that carry their path in the info string, as  *)
(* their only content, in the first line with or without path=, or not.    *)

\* Mutant: the block a declaration has taken is looked at once more.
TakesNothing(raw) == {}

\* A block that only declares a path takes the next one for its content, which then
\* declares nothing itself.
Taken(raw) ==
  LET taken[i \in DOMAIN raw] == i > 1 /\ raw[i - 1].tag = "declares" /\ ~taken[i - 1]
  IN {i \in DOMAIN raw : taken[i]}

\* The block that the content of a file comes from: a last declaration has its own.
ContentOf(raw, i) == IF raw[i].tag = "declares" /\ i < Len(raw) THEN i + 1 ELSE i

\* The blocks that name a file.
parseFileBlocks(raw) == {i \in DOMAIN raw \ Taken(raw) : raw[i].tag # "plain"}

AcceptedBlocks(raw, outputs) == {i \in parseFileBlocks(raw) : AcceptsWrite(raw[i].path, outputs)}

\* The files they become, the later over the earlier.
FilesAccepted(raw, outputs, w) ==
  LET writing(p) == {i \in AcceptedBlocks(raw, outputs) : Location(raw[i].path) = p}
  IN [p \in {Location(raw[i].path) : i \in AcceptedBlocks(raw, outputs)} |->
        [by |-> w, round |-> stageRound, block |-> ContentOf(raw, Max(writing(p)))]]

-----------------------------------------------------------------------------
StageInit ==
  /\ stagePlan \in StagePlans
  /\ stageRound = 1
  /\ stageAt = [w \in StageWriters |->
       IF PlanIsBlind(stagePlan) /\ Compiles(PromptInput(stagePlan)) THEN "open" ELSE "refused"]
  /\ transcript = [w \in StageWriters |-> <<>>]
  /\ sandbox = [w \in StageWriters |-> NoFiles]
  /\ artifact = [w \in StageWriters |-> NoFiles]
  /\ manifest = [w \in StageWriters |-> {}]
  /\ mergedTree = NoFiles
  /\ suite = NoFiles

\* A fresh sandbox with the declared reads and nothing else.
OpenSandbox(w) ==
  /\ stageAt[w] = "open"
  /\ sandbox' = [sandbox EXCEPT ![w] = [p \in {q \in SourceTree : Below(q, stagePlan.reads[w])} |-> Source]]
  /\ transcript' = [transcript EXCEPT ![w] = <<>>]
  /\ stageAt' = [stageAt EXCEPT ![w] = "call"]
  /\ UNCHANGED <<stagePlan, stageRound, artifact, manifest, mergedTree, suite>>

\* A model is asked once more when its reply has no block to accept; the replies are
\* then read as one.
ModelReplies(w, reply) ==
  LET raw == transcript[w] \o reply
  IN
  /\ stagePlan.kind[w] = "single-shot" /\ stageAt[w] \in {"call", "correct"}
  /\ transcript' = [transcript EXCEPT ![w] = raw]
  /\ stageAt' = [stageAt EXCEPT ![w] =
       IF @ = "call" /\ AcceptedBlocks(raw, stagePlan.outputs[w]) = {} THEN "correct" ELSE "write"]
  /\ UNCHANGED <<stagePlan, stageRound, sandbox, artifact, manifest, mergedTree, suite>>

WriteAccepted(w) ==
  /\ stageAt[w] = "write"
  /\ sandbox' = [sandbox EXCEPT ![w] = Over(FilesAccepted(transcript[w], stagePlan.outputs[w], w), @)]
  /\ stageAt' = [stageAt EXCEPT ![w] = "collect"]
  /\ UNCHANGED <<stagePlan, stageRound, transcript, artifact, manifest, mergedTree, suite>>

\* The answer is truncated or empty or does not come in time, or the agent fails twice.
ExecutorFails(w) ==
  /\ stageAt[w] \in {"call", "correct"}
  /\ stageAt' = [stageAt EXCEPT ![w] = "threw"]
  /\ UNCHANGED <<stagePlan, stageRound, transcript, sandbox, artifact, manifest, mergedTree, suite>>

\* An agent writes where it likes in its sandbox, in one attempt or two.
AgentWrites(w, places) ==
  /\ stagePlan.kind[w] = "agent" /\ stageAt[w] = "call"
  /\ sandbox' = [sandbox EXCEPT ![w] =
       Over([p \in places |-> [by |-> w, round |-> stageRound, block |-> 0]], @)]
  /\ stageAt' = [stageAt EXCEPT ![w] = "collect"]
  /\ UNCHANGED <<stagePlan, stageRound, transcript, artifact, manifest, mergedTree, suite>>

FilesBelow(tree, paths) == [p \in {q \in DOMAIN tree : Below(q, paths)} |-> tree[p]]
FilesBeside(tree, paths) == [p \in {q \in DOMAIN tree : ~Below(q, paths)} |-> tree[p]]

\* What lay under the declared outputs is removed first.
Replaced(held, collected, paths) == Over(collected, FilesBeside(held, paths))

\* Without a file under the declared outputs the stage throws.
CollectOutputs(w) ==
  LET collected == FilesBelow(sandbox[w], stagePlan.outputs[w])
  IN
  /\ stageAt[w] = "collect"
  /\ IF collected = NoFiles
     THEN /\ stageAt' = [stageAt EXCEPT ![w] = "threw"]
          /\ UNCHANGED <<artifact, manifest>>
     ELSE /\ artifact' = [artifact EXCEPT ![w] = Replaced(@, collected, stagePlan.outputs[w])]
          /\ manifest' = [manifest EXCEPT ![w] = DOMAIN collected]
          /\ stageAt' = [stageAt EXCEPT ![w] = "done"]
  /\ UNCHANGED <<stagePlan, stageRound, transcript, sandbox, mergedTree, suite>>

TestsIn(tree) == FilesBelow(tree, stagePlan.outputs["tests"])

\* verifyRound: the code and over it the tests, in a tree of their own.
MergeAndVerify ==
  LET tree == Over(artifact["tests"], artifact["code"])
  IN
  /\ \A w \in StageWriters : stageAt[w] = "done"
  /\ mergedTree' = tree
  /\ suite' = IF stageRound = 1 THEN TestsIn(tree) ELSE suite
  /\ stageAt' = [stageAt EXCEPT !["code"] = "verified"]
  /\ UNCHANGED <<stagePlan, stageRound, transcript, sandbox, artifact, manifest>>

\* The code writer goes again, told the counts and its own files only.
NextRound ==
  /\ stageAt["code"] = "verified" /\ stageRound < MaxStageRounds
  /\ stageRound' = stageRound + 1
  /\ stageAt' = [stageAt EXCEPT !["code"] = "open"]
  /\ UNCHANGED <<stagePlan, transcript, sandbox, artifact, manifest, mergedTree, suite>>

StageNext ==
  \/ \E w \in StageWriters : OpenSandbox(w) \/ ExecutorFails(w) \/ WriteAccepted(w) \/ CollectOutputs(w)
  \/ \E w \in StageWriters, reply \in WriterReplies : ModelReplies(w, reply)
  \/ \E w \in StageWriters, places \in SUBSET AgentFiles : AgentWrites(w, places)
  \/ MergeAndVerify \/ NextRound

-----------------------------------------------------------------------------
StageTypeOK ==
  /\ stageRound \in 1 .. MaxStageRounds
  /\ \A w \in StageWriters :
       /\ stageAt[w] \in {"refused", "open", "call", "correct", "write", "collect", "threw", "done", "verified"}
       /\ \A p \in DOMAIN sandbox[w] : sandbox[w][p].by \in {"source", w}

\* What a manifest lists is what lies under the outputs of its stage, from the last
\* round only, and all of it was written by the stage, unless the stage was given files
\* that lie there.
ManifestsAreCurrent ==
  \A w \in StageWriters : stageAt[w] \in {"done", "verified"} =>
    /\ DOMAIN artifact[w] = manifest[w]
    /\ \A p \in manifest[w] :
         \/ artifact[w][p].by = w /\ artifact[w][p].round = (IF w = "code" THEN stageRound ELSE 1)
         \/ artifact[w][p] = Source /\ Overlap(stagePlan.reads[w], stagePlan.outputs[w])

\* One block of a reply becomes one file at most, and a block that carries the path of a
\* declared output is lost only to a later one of that path or to a declaration before it.
BlocksBecomeFiles ==
  \A w \in StageWriters : stageAt[w] = "collect" /\ stagePlan.kind[w] = "single-shot" =>
    LET raw == transcript[w]
        Written(i) == {p \in DOMAIN sandbox[w] : sandbox[w][p].by = w /\ sandbox[w][p].block = i}
    IN \A i \in DOMAIN raw :
         /\ Cardinality(Written(i)) <= 1
         /\ raw[i].tag = "info" /\ AcceptsWrite(raw[i].path, stagePlan.outputs[w]) =>
              \/ Written(i) = {Location(raw[i].path)}
              \/ i > 1 /\ raw[i - 1].tag = "declares"
              \/ sandbox[w][Location(raw[i].path)].block > i

\* The verifier runs the same tests in every round, all of them the test writer's,
\* unless an output of one writer lies below an output of the other.
SuiteIsFrozen ==
  mergedTree # NoFiles /\ ~Overlap(stagePlan.outputs["code"], stagePlan.outputs["tests"]) =>
    /\ TestsIn(mergedTree) = suite
    /\ DOMAIN suite = manifest["tests"]

\* The files of the two writers stay apart and current from the reply to the verifier.
StagesStaySeparate == ManifestsAreCurrent /\ BlocksBecomeFiles /\ SuiteIsFrozen
=============================================================================
