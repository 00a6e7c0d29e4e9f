---------------------------- MODULE LocalStores -----------------------------
(***************************************************************************)
(* The stores beside the tape and the spool: the outbox of another agent   *)
(* and the corpus that is synchronised from the ledger, the compiler of    *)
(* one run's telemetry, the protocols, the kinds of prompts, the history   *)
(* of a git repository, and the banner of a session.  The corpus reads     *)
(* what the outbox and the hooks record; the others share no table, so a   *)
(* behaviour is one of a single group, chosen at the start.                *)
(***************************************************************************)
EXTENDS CorpusSync, Protocols, PromptMeasures, GitImport, TelemetryAnalysis, SessionBanner

CONSTANTS RowKinds,  \* the rows of hook_events that a run may consist of
          MaxRows    \* bound: rows of the run that is compiled

ASSUME LocalAssumption == MaxRows \in Nat

VARIABLES active,    \* the group that is explored
          telemetry  \* the rows of one run, in created_at, event_id order

vars == <<flowVars, protocolVars, promptVars, gitVars, bannerVars, active, telemetry>>

TypeOK ==
  /\ OutboxTypeOK /\ SyncTypeOK /\ ProtocolsTypeOK /\ PromptsTypeOK /\ GitTypeOK
  /\ BannerTypeOK
  /\ Len(telemetry) <= MaxRows

Init ==
  /\ FlowInit /\ ProtocolsInit /\ PromptsInit /\ GitInit /\ BannerInit
  /\ telemetry = <<>>
  /\ active \in {"outbox", "corpus", "protocols", "prompts", "git", "telemetry", "banner"}
  /\ active # "outbox" => unwritten = <<>>
  /\ active = "banner" <=> store # <<>>

AppendRow(kind) ==
  /\ Len(telemetry) < MaxRows
  /\ telemetry' = Append(telemetry, [kind EXCEPT !.id = Len(telemetry) + 1])

OutboxStep ==
  /\ active = "outbox"
  /\ OutboxNext /\ posts' = posts
  /\ UNCHANGED <<syncVars, finished, quiet, protocolVars, promptVars, gitVars, bannerVars, telemetry>>

CorpusStep ==
  /\ active = "corpus"
  /\ FlowNext /\ cursor' = cursor /\ batch' = batch
  /\ UNCHANGED <<protocolVars, promptVars, gitVars, bannerVars, telemetry>>

ProtocolsStep ==
  /\ active = "protocols"
  /\ ProtocolsNext
  /\ UNCHANGED <<flowVars, promptVars, gitVars, bannerVars, telemetry>>

PromptsStep ==
  /\ active = "prompts"
  /\ PromptsNext
  /\ UNCHANGED <<flowVars, protocolVars, gitVars, bannerVars, telemetry>>

GitStep ==
  /\ active = "git"
  /\ GitNext
  /\ UNCHANGED <<flowVars, protocolVars, promptVars, bannerVars, telemetry>>

TelemetryStep ==
  /\ active = "telemetry"
  /\ \E kind \in RowKinds : AppendRow(kind)
  /\ UNCHANGED <<flowVars, protocolVars, promptVars, gitVars, bannerVars>>

BannerStep ==
  /\ active = "banner"
  /\ BannerNext
  /\ UNCHANGED <<flowVars, protocolVars, promptVars, gitVars, telemetry>>

Next ==
  /\ active' = active
  /\ \/ OutboxStep \/ CorpusStep \/ ProtocolsStep
     \/ PromptsStep \/ GitStep \/ TelemetryStep \/ BannerStep

Spec == Init /\ [][Next]_vars

-----------------------------------------------------------------------------
\* The last verifier or stop before token i, 0 without one.
BoundaryBefore(tokens, i) ==
  LET bounds == {j \in 1 .. i - 1 : tokens[j].kind \in {"TEST", "STOP"}}
  IN IF bounds = {} THEN 0 ELSE Max(bounds)

\* Something was edited since the last verifier or stop, and not to mend a failure.
StopsUnverified(tokens, i) ==
  LET b == BoundaryBefore(tokens, i)
  IN /\ tokens[i].kind = "STOP"
     /\ \E j \in b + 1 .. i - 1 : tokens[j].kind = "EDIT"
     /\ b # 0 => ~(tokens[b].kind = "TEST" /\ ~tokens[b].passed)

EpisodeOf(ast, event) ==
  CHOOSE k \in DOMAIN ast.episodes : event \in Range(ast.episodes[k].tokens)

\* An attempt is an action only while its call has not completed, and a completion is one action.
CompletesOnce(ast) ==
  /\ \A a \in Range(ast.actions) :
       telemetry[a.event].name \in BeforeNames /\ telemetry[a.event].call # None =>
         \A i \in DOMAIN telemetry :
           telemetry[i].call = telemetry[a.event].call => ~Completes(telemetry[i])
  /\ \A i \in DOMAIN telemetry :
       Completes(telemetry[i]) /\ HasFacts(telemetry[i]) /\ telemetry[i].turn = ast.run =>
       Cardinality({k \in DOMAIN ast.actions : ast.actions[k].event = i}) = 1

EpisodesTell(ast) ==
  /\ FlattenSeq([k \in DOMAIN ast.episodes |-> ast.episodes[k].tokens])
       = [i \in DOMAIN ast.tokens |-> ast.tokens[i].event]
  /\ \A i \in DOMAIN ast.tokens :
       StopsUnverified(ast.tokens, i)
         <=> ast.episodes[EpisodeOf(ast, ast.tokens[i].event)].phase = "unverified_claim_candidate"
  /\ hasVerifiedCompletion(ast.actions) =>
       \E k \in DOMAIN ast.episodes :
         /\ ast.episodes[k].phase = "passed_verification"
         /\ \A a \in Range(ast.actions) : isEditAction(a) => EpisodeOf(ast, a.event) < k

TellsTheTrace(ast) == CompletesOnce(ast) /\ EpisodesTell(ast)

\* However attempts, completions, failures and approvals of several calls are
\* interleaved, the compiled run tells its telemetry: a call that completed is
\* there once, without its attempts; the episodes are the tokens, in order;
\* an episode is an unverified claim exactly where the run stops after an edit
\* that no verifier followed; and a verified completion has an episode of its
\* own behind every edit of a file (src/src/compiler/tokenizer.ts, parser.ts).
EpisodesTellTheTrace == telemetry # <<>> => TellsTheTrace(compileTelemetryRunAst(telemetry, 1))

\* The reports on a run agree with its tokens and with one another: a verifier is
\* credited with the failures and the edits since the pass before it and with no
\* earlier ones, every conflict has a reason, an attempt is ready to ship exactly
\* with a verifier of some quality and never beside an edit that nothing verified,
\* a run is not called a loop without evidence of one, and the audit of a ledger
\* counts every action in one run.  They rest on events that are read right: how a
\* call ended is heard however deep its result says it, and a tool is of one class
\* whichever package manager runs it
\* (src/src/compiler/analyzer.ts:96, effect-report.ts:177, candidate-at-bat.ts,
\* workflow-style.ts:357, effect-audit.ts:98, hooks/normalizer.ts:157,
\* behavior/command-classifier.ts:98).
ReportsTellTheTrace ==
  LET Agree(ast) == ReportsAgree(ast, Verifiers(ast.actions, ast.episodes))
      AllAgree(asts) == AuditAgrees(telemetry, asts) /\ \A ast \in asts : Agree(ast)
  IN EventsAreRead
     /\ AllAgree({compileTelemetryRunAst(telemetry, run) : run \in listTelemetryRunIds(telemetry)})
=============================================================================
