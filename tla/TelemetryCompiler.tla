-------------------------- MODULE TelemetryCompiler --------------------------
(***************************************************************************)
(* The compiler of hook telemetry: from the rows of hook_events to         *)
(* normalized actions, from actions to tokens, from tokens to episodes     *)
(* (src/src/compiler/tokenizer.ts, tokenizer/command-resources.ts and      *)
(* parser.ts).                                                             *)
(*                                                                         *)
(* A row is a record: its id, turn and session, the name of the event, the *)
(* tool call it belongs to, the tool, the command or the paths it names,   *)
(* the exit code and the status signal of the payload.  A command is a     *)
(* record as well: its classification, the paths in its text, and the      *)
(* traits that the regular expressions of the tokenizer look for, each     *)
(* named for its predicate.                                                *)
(***************************************************************************)
EXTENDS HookFacts, Listings

StartNames == {"SessionStart", "session.start"}
PromptNames == {"UserPromptSubmit", "prompt.submit"}
StopNames == {"Stop", "turn.stop", "session.end"}

\* The names with a lower-case permission, approval or request: PermissionRequest has none.
ApprovalNames == {"permission.request"}

-----------------------------------------------------------------------------
(* What a command is.                                                      *)

Has(c, trait) == trait \in c.traits

isVerifyCommand(c) == c.class \in {"test", "lint", "format"} \/ Has(c, "verify")
isBuildCommand(c) == c.class = "build" \/ Has(c, "build")
isGitCommand(c) == c.class = "git" \/ Has(c, "git")
startsWithGit(c) == isGitCommand(c) \/ Has(c, "git-prefix")
isDeployCommand(c) == c.class \in {"deploy", "cloud"} \/ Has(c, "databricks-or-railway")

isTextProcessingCommand(c) == Has(c, "text-processing")
textProcessingCommandWrites(c) == Has(c, "in-place") \/ Has(c, "redirect")

isLocalWriteCommand(c) ==
  Has(c, "file-mutation") \/ Has(c, "sqlite-mutation") \/ Has(c, "compose-up")

isSqliteReadOnlyCommand(c) == Has(c, "sqlite-query") /\ ~Has(c, "sqlite-mutation")

isReadOnlyInspectCommand(c) ==
  FirstOf(<< <<Has(c, "redirect"), FALSE>>,
             <<Has(c, "inspect-tool") \/ isSqliteReadOnlyCommand(c), TRUE>>,
             <<isTextProcessingCommand(c), ~textProcessingCommandWrites(c)>> >>,
          Has(c, "reader"))

-----------------------------------------------------------------------------
(* Which rows become actions.                                              *)

\* The rows are already in created_at, event_id order.
RunEvents(rows, run) ==
  LET ofTurn == {i \in DOMAIN rows : rows[i].turn = run}
      ofSession == {i \in DOMAIN rows : rows[i].session = run /\ rows[i].turn = None}
  IN RowsAt(rows, IF ofTurn # {} THEN ofTurn ELSE ofSession)

Completes(e) == e.name \in AfterNames \cup FailureNames

CompletedCalls(events) == {e.call : e \in {f \in Range(events) : Completes(f)}} \ {None}

SameUncalled(e, f) == e.call = None /\ f.call = None /\ e.tool = f.tool /\ e.command = f.command

\* Without a call id an attempt is paired with a completion of the same tool and text.
CompletedUncalled(events, i) ==
  LET attempts == {j \in 1 .. i : events[j].name \in BeforeNames /\ SameUncalled(events[i], events[j])}
      ends == {j \in DOMAIN events : Completes(events[j]) /\ SameUncalled(events[i], events[j])}
  IN events[i].tool # None /\ Cardinality(attempts) <= Cardinality(ends)

\* Mutant: attempts are kept beside their completions.
IsCompletedNever(events, i) == FALSE

IsCompleted(events, i) ==
  /\ events[i].name \in BeforeNames
  /\ \/ events[i].call # None /\ events[i].call \in CompletedCalls(events)
     \/ events[i].call = None /\ CompletedUncalled(events, i)

HasFacts(e) == e.command # None \/ e.paths # {}

Compiles(events, i) ==
  LET e == events[i]
  IN /\ ~IsCompleted(events, i)
     /\ e.name \notin StartNames
     /\ e.name \in PromptNames \cup StopNames \/ HasFacts(e)

-----------------------------------------------------------------------------
(* What a row becomes.                                                     *)

EventKind(e) == IF e.name \in ApprovalNames THEN "approval" ELSE "tool_use"

HookCommandStatus(e) == inferHookCommandStatus(e.name, e.signal)

ActionStatus(e) ==
  IF e.name \in {"PermissionRequest", "permission.request"} THEN "attempted" ELSE HookCommandStatus(e)

Files(e, write) == {Resource("local_file", p.path) : p \in {q \in e.paths : q.write = write}}

ReadBefore(e, c) ==
  Files(e, FALSE)
    \cup (IF startsWithGit(c) THEN {Resource("local_repo", ".")} ELSE {})
    \cup (IF Has(c, "registry-inspect") THEN {Resource("external_resource", "package_registry")} ELSE {})

WrittenBefore(e, c) ==
  Files(e, TRUE)
    \cup (IF (isDeployCommand(c) \/ Has(c, "cloud-cli")) /\ HookCommandStatus(e) \in {"succeeded", "attempted"}
          THEN {Resource("external_resource", "deployment")} ELSE {})
    \cup (IF Has(c, "publish") THEN {Resource("external_resource", "package_registry")} ELSE {})
    \cup (IF Has(c, "compose-up") THEN {Resource("local_cache", "docker")} ELSE {})

CommandWrites(c) ==
  isLocalWriteCommand(c) \/ (isTextProcessingCommand(c) /\ textProcessingCommandWrites(c))

CommandObserves(c) ==
  isReadOnlyInspectCommand(c) \/ (isTextProcessingCommand(c) /\ ~textProcessingCommandWrites(c))

Operation(e, c) ==
  FirstOf(<< <<Has(c, "destructive"), "mutate_local">>,
             <<isDeployCommand(c) \/ Has(c, "publish"), "mutate_external">>,
             <<isVerifyCommand(c), "verify">>,
             <<isBuildCommand(c), "build">>,
             <<isGitCommand(c), "version_control">>,
             <<Has(c, "wait"), "wait">>,
             <<EventKind(e) = "approval", "approve">>,
             <<WrittenBefore(e, c) # {} \/ CommandWrites(c), "mutate_local">>,
             <<ReadBefore(e, c) # {} \/ CommandObserves(c), "observe">> >>, "unknown")

NamedFiles(c, touched) ==
  {Resource("local_file", p) : p \in {q \in c.paths : \A r \in touched : r.ref # q}}

FinalRead(e, c, operation) ==
  LET read == ReadBefore(e, c)
  IN read
     \cup (IF operation \in {"verify", "build"} THEN {Resource("local_repo", ".")} ELSE {})
     \cup (IF operation = "observe" THEN NamedFiles(c, read) ELSE {})

FinalWritten(e, c, operation) ==
  LET written == WrittenBefore(e, c)
      named == IF operation = "mutate_local" THEN written \cup NamedFiles(c, written) ELSE written
  IN IF operation = "mutate_local" /\ named = {} THEN {Resource("local_repo", ".")} ELSE named

Risk(c, operation) ==
  FirstOf(<< <<Has(c, "destructive"), "destructive">>,
             <<Has(c, "credential"), "credential_sensitive">>,
             <<isDeployCommand(c), "deploy">>,
             <<Has(c, "publish"), "external_write">>,
             <<operation = "mutate_local", "low">> >>, "none")

Intent(c, read, written) ==
  FirstOf(<< <<isVerifyCommand(c), "verify">>,
             <<isBuildCommand(c), "build">>,
             <<startsWithGit(c), "version">>,
             <<isDeployCommand(c), "deploy">>,
             <<Has(c, "wait"), "wait">>,
             <<Has(c, "publish"), "deploy">>,
             <<written # {}, "implement">>,
             <<read # {} \/ isReadOnlyInspectCommand(c), "inspect">>,
             <<Has(c, "health"), "verify">> >>, "unknown")

Facets(c, operation, written) ==
  LET tags == << <<c.class = "git" \/ Has(c, "mentions-git"), {"git"}>>,
                 <<isVerifyCommand(c), {"test"}>>,
                 <<isBuildCommand(c) \/ Has(c, "package"), {"package"}>>,
                 <<Has(c, "database"), {"database"}>>,
                 <<isDeployCommand(c) \/ Has(c, "cloud-word"), {"deploy", "cloud", "external"}>>,
                 <<Has(c, "network") \/ Has(c, "registry-inspect"), {"network", "external"}>>,
                 <<Has(c, "publish"), {"network", "external", "deploy"}>>,
                 <<Has(c, "destructive"), {"destructive"}>>,
                 <<Has(c, "credential"), {"credential_sensitive"}>>,
                 <<Has(c, "health"), {"healthcheck"}>> >>
      found == UNION {tag[2] : tag \in {t \in Range(tags) : t[1]}}
  IN found
     \cup (IF "external" \in found THEN {} ELSE {"local"})
     \cup (IF written # {} \/ operation \in {"mutate_local", "mutate_external"}
           THEN {"write"} ELSE {"read_only"})

Action(e, kind, operation, intent, read, written, risk, status, facets) ==
  [id |-> <<e.id, e.command>>, event |-> e.id, turn |-> e.turn, name |-> e.name, eventKind |-> kind,
   operation |-> operation, intent |-> intent, read |-> read, written |-> written,
   risk |-> risk, status |-> status, facets |-> facets,
   command |-> IF e.command = None THEN None ELSE e.command.text,
   exit |-> IF e.command = None THEN None ELSE e.exit]

BoundaryAction(e) ==
  Action(e, "boundary", "boundary", "unknown", {}, {}, "none", "succeeded", {})

CommandAction(e) ==
  LET c == e.command
      operation == Operation(e, c)
      read == FinalRead(e, c, operation)
      written == FinalWritten(e, c, operation)
  IN Action(e, EventKind(e), operation, Intent(c, read, written), read, written,
            Risk(c, operation), ActionStatus(e), Facets(c, operation, written))

\* A tool that names files and runs no command; its status is not read from the event.
PathAction(e) ==
  LET writes == \E p \in e.paths : p.write
  IN Action(e, EventKind(e), IF writes THEN "mutate_local" ELSE "observe",
            IF writes THEN "implement" ELSE "inspect", Files(e, FALSE), Files(e, TRUE),
            IF writes THEN "low" ELSE "none", "succeeded",
            {IF writes THEN "write" ELSE "read_only", "local"})

ActionOf(e) ==
  FirstOf(<< <<e.name \in PromptNames \cup StopNames, BoundaryAction(e)>>,
             <<e.command = None, PathAction(e)>> >>, CommandAction(e))

tokenizeTelemetryActions(rows, run) ==
  LET events == RunEvents(rows, run)
      kept == RowsAt(events, {i \in DOMAIN events : Compiles(events, i)})
  IN [k \in DOMAIN kept |-> ActionOf(kept[k])]

-----------------------------------------------------------------------------
(* Tokens and episodes.                                                    *)

TokenKind(a) ==
  FirstOf(<< <<a.eventKind = "boundary", IF a.name \in StopNames THEN "STOP" ELSE "PROMPT">>,
             <<isTestAction(a), "TEST">>,
             <<a.intent = "build", "BUILD">>,
             <<a.intent = "version" \/ "git" \in a.facets, "GIT">>,
             <<a.intent = "deploy" \/ a.operation = "mutate_external"
                 \/ a.facets \cap {"deploy", "external"} # {}, "EXTERNAL">>,
             <<a.operation = "mutate_local" \/ a.written # {} \/ "write" \in a.facets, "EDIT">> >>,
          "INSPECT")

deriveTelemetryTokens(actions) ==
  [i \in DOMAIN actions |->
     [kind |-> TokenKind(actions[i]), event |-> actions[i].event,
      passed |-> actions[i].command # None /\ actionSucceeded(actions[i])]]

\* Runs of tokens between verifiers and stops, each of which is a chunk of its own.
Chunks(tokens) ==
  LET Bounds(t) == t.kind \in {"TEST", "STOP"}
      Extends(chunks, t) == chunks # <<>> /\ ~Bounds(t) /\ ~Bounds(Last(Last(chunks)))
  IN FoldLeft(LAMBDA chunks, t : IF Extends(chunks, t)
                                 THEN Append(Front(chunks), Append(Last(chunks), t))
                                 ELSE Append(chunks, <<t>>),
              <<>>, tokens)

Episode(phase, tokens) == [phase |-> phase, tokens |-> [i \in DOMAIN tokens |-> tokens[i].event]]

\* A segment before anything failed: looking around up to the first edit, then the edits.
SegmentEpisodes(tokens, lastPhase) ==
  LET firstEdit == SelectInSeq(tokens, LAMBDA t : t.kind = "EDIT")
  IN FirstOf(<< <<lastPhase \in {"failed_verification", "debugging"}, <<Episode("debugging", tokens)>> >>,
                <<firstEdit = 0, <<Episode("orientation", tokens)>> >>,
                <<firstEdit = 1, <<Episode("implementation", tokens)>> >> >>,
             <<Episode("orientation", SubSeq(tokens, 1, firstEdit - 1)),
               Episode("implementation", SubSeq(tokens, firstEdit, Len(tokens)))>>)

ChunkEpisodes(chunk, lastPhase) ==
  CASE chunk[1].kind = "TEST" ->
         <<Episode(IF chunk[1].passed THEN "passed_verification" ELSE "failed_verification", chunk)>>
    [] chunk[1].kind = "STOP" ->
         <<Episode(IF lastPhase = "implementation" THEN "unverified_claim_candidate" ELSE "orientation",
                   chunk)>>
    [] OTHER -> SegmentEpisodes(chunk, lastPhase)

parseTelemetryEpisodes(tokens) ==
  LET LastPhase(episodes) == IF episodes = <<>> THEN "unknown" ELSE Last(episodes).phase
  IN FoldLeft(LAMBDA episodes, chunk : episodes \o ChunkEpisodes(chunk, LastPhase(episodes)),
              <<>>, Chunks(tokens))

RunAst(run, actions, tokens) ==
  [run |-> run, actions |-> actions, tokens |-> tokens, episodes |-> parseTelemetryEpisodes(tokens)]

compileTelemetryRunAst(rows, run) ==
  LET actions == tokenizeTelemetryActions(rows, run)
  IN RunAst(run, actions, deriveTelemetryTokens(actions))
=============================================================================
