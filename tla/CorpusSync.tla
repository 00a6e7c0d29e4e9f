----------------------------- MODULE CorpusSync ------------------------------
(***************************************************************************)
(* `lyo sync once`: the events of a repository's ledger are copied to the  *)
(* local corpus, and the runs they belong to are compiled there to actions *)
(* and effects (src/src/corpus/sync.ts).  Statements commit one by one; a  *)
(* sync that throws or dies keeps what it has written.                     *)
(*                                                                         *)
(* Each import remembers the key of the last row it saw, in created_at     *)
(* order, and asks next time for greater keys; one that finds no row       *)
(* forgets the key, and the next one starts over with insert or ignore.    *)
(***************************************************************************)
EXTENDS Integers, TelemetryOutbox, TelemetryCompiler

CONSTANTS Row,   \* the row of hook_events of each event
          Runs,  \* the turns and sessions that are run keys, in sqlite's order
          Taped  \* the runs that have a row in the table runs

RunKey(row) == IF row.turn = None THEN row.session ELSE row.turn

ASSUME CorpusAssumption ==
  /\ Runs \subseteq Nat /\ IsFiniteSet(Runs) /\ Taped \subseteq Runs
  /\ \A e \in Events : Row[e].id = e /\ RunKey(Row[e]) \in Runs \cup {None}
  /\ None \notin Events /\ None \notin Runs /\ None \notin {"started", "completed"}

VARIABLES phase,         \* what the sync has to do next
          todo,          \* the run keys it has listed and not yet compiled
          corpusRuns,    \* corpus_runs: the status each run was imported with
          corpusEvents,  \* corpus_events
          corpusActions, \* corpus_actions, by the event of the action
          corpusEffects, \* corpus_effects, by run
          runsCursor, eventsCursor, effectsCursor,
          lastKey,       \* the last run key of the list
          syncBatch,     \* status of the last row of sync_batches
          finished,      \* the runs whose row in the ledger is completed
          quiet          \* history: syncs completed since a row was last recorded

cursors == <<runsCursor, eventsCursor, effectsCursor>>
syncVars == <<phase, todo, corpusRuns, corpusEvents, corpusActions, corpusEffects,
              cursors, lastKey, syncBatch>>
flowVars == <<outboxVars, syncVars, finished, quiet>>

\* Every sync that finds a row moves a cursor to a greater key: after at most n - 1
\* of them one finds none, and the next one sees all n rows.
Enough == Cardinality(recorded) + 1

-----------------------------------------------------------------------------
(* The source ledger.                                                      *)

\* order by created_at, event_id
Before(d, e) == createdAt[d] < createdAt[e] \/ (createdAt[d] = createdAt[e] /\ d < e)

InLedgerOrder(events) ==
  CHOOSE s \in [1 .. Cardinality(events) -> events] : \A i, j \in DOMAIN s : i < j => Before(s[i], s[j])

LedgerOrder == InLedgerOrder(recorded)

Compiled(run) ==
  compileTelemetryRunAst([i \in DOMAIN LedgerOrder |-> Row[LedgerOrder[i]]], run).actions

-----------------------------------------------------------------------------
(* The cursors.                                                            *)

Past(key, position) == position = None \/ key > position

\* Mutant: a sync that finds nothing keeps its position.
NextCursorKept(keys, position) == IF keys = <<>> THEN position ELSE Last(keys)

\* updateCursor(rows.at(-1)?.key ?? null)
NextCursor(keys, position) == IF keys = <<>> THEN None ELSE Last(keys)

NewRunRows == InOrder({r \in Taped : Past(r, runsCursor)})

NewEventRows == InLedgerOrder({e \in recorded : Past(e, eventsCursor)})

RunKeys == {RunKey(Row[e]) : e \in recorded} \ {None}

NewRunKeys == InOrder({r \in RunKeys : Past(r, effectsCursor)})

-----------------------------------------------------------------------------
(* A sync.                                                                 *)

SyncTypeOK ==
  /\ phase \in {"idle", "runs", "events", "keys", "compile"}
  /\ todo \in Seq(Runs)
  /\ corpusRuns \in [Runs -> {None, "started", "completed"}]
  /\ corpusEvents \subseteq recorded
  /\ corpusActions \subseteq recorded
  /\ DOMAIN corpusEffects \subseteq Runs
  /\ syncBatch \in {None, "running", "completed", "failed"}
  /\ quiet \in -1 .. Enough

SyncInit ==
  /\ phase = "idle" /\ todo = <<>>
  /\ corpusRuns = [r \in Runs |-> None]
  /\ corpusEvents = {} /\ corpusActions = {}
  /\ corpusEffects = <<>>
  /\ runsCursor = None /\ eventsCursor = None /\ effectsCursor = None
  /\ lastKey = None
  /\ syncBatch = None
  /\ finished = {}
  /\ quiet = 0

FlowInit == OutboxInit /\ SyncInit

\* finishRun.
FinishRun(r) ==
  /\ r \notin finished
  /\ finished' = finished \cup {r}
  /\ UNCHANGED <<outboxVars, syncVars, quiet>>

\* upsertLedger, startBatch.
StartSync ==
  /\ phase = "idle"
  /\ phase' = "runs"
  /\ syncBatch' = "running"
  /\ UNCHANGED <<outboxVars, finished, quiet, todo, corpusRuns, corpusEvents, corpusActions,
                 corpusEffects, cursors, lastKey>>

\* insert or ignore: a run keeps the status it was first imported with.
ImportRuns ==
  /\ phase = "runs"
  /\ corpusRuns' = [r \in Runs |->
       IF r \in Range(NewRunRows) /\ corpusRuns[r] = None
       THEN IF r \in finished THEN "completed" ELSE "started"
       ELSE corpusRuns[r]]
  /\ runsCursor' = NextCursor(NewRunRows, runsCursor)
  /\ phase' = "events"
  /\ UNCHANGED <<outboxVars, finished, quiet, todo, corpusEvents, corpusActions, corpusEffects,
                 eventsCursor, effectsCursor, lastKey, syncBatch>>

ImportHookEvents ==
  /\ phase = "events"
  /\ corpusEvents' = corpusEvents \cup Range(NewEventRows)
  /\ eventsCursor' = NextCursor(NewEventRows, eventsCursor)
  /\ phase' = "keys"
  /\ UNCHANGED <<outboxVars, finished, quiet, todo, corpusRuns, corpusActions, corpusEffects,
                 runsCursor, effectsCursor, lastKey, syncBatch>>

ListRunKeys ==
  /\ phase = "keys"
  /\ todo' = NewRunKeys
  /\ lastKey' = NextCursor(NewRunKeys, effectsCursor)
  /\ phase' = "compile"
  /\ UNCHANGED <<outboxVars, finished, quiet, corpusRuns, corpusEvents, corpusActions,
                 corpusEffects, cursors, syncBatch>>

Effect(trace) == [effect |-> foldTrace(trace), predicates |-> Predicates(trace)]

\* The whole run is compiled; its new actions are inserted, its effect only once.
CompileRun ==
  /\ phase = "compile" /\ todo # <<>>
  /\ LET run == Head(todo)
         trace == Compiled(run)
     IN /\ corpusActions' = corpusActions \cup {a.event : a \in Range(trace)}
        /\ corpusEffects' = IF trace = <<>> \/ run \in DOMAIN corpusEffects THEN corpusEffects
                            ELSE [r \in DOMAIN corpusEffects \cup {run} |->
                                    IF r = run THEN Effect(trace) ELSE corpusEffects[r]]
  /\ todo' = Tail(todo)
  /\ UNCHANGED <<outboxVars, finished, quiet, phase, corpusRuns, corpusEvents, cursors, lastKey, syncBatch>>

\* The cursors of the compiled rows, and finishBatch.
FinishSync ==
  /\ phase = "compile" /\ todo = <<>>
  /\ effectsCursor' = lastKey
  /\ syncBatch' = "completed"
  /\ phase' = "idle" /\ lastKey' = None
  /\ quiet' = Min({quiet + 1, Enough})
  /\ UNCHANGED <<outboxVars, finished, todo, corpusRuns, corpusEvents, corpusActions,
                 corpusEffects, runsCursor, eventsCursor>>

\* A statement of the event import throws (failBatch) or the process dies: the
\* rows before it are imported and the cursor is not moved.
FailImport ==
  /\ phase # "idle" /\ faults < MaxFaults
  /\ faults' = faults + 1
  /\ IF phase # "events" THEN corpusEvents' = corpusEvents
     ELSE \E n \in 0 .. Len(NewEventRows) :
            corpusEvents' = corpusEvents \cup Range(SubSeq(NewEventRows, 1, n))
  /\ syncBatch' \in {"failed", "running"}
  /\ phase' = "idle" /\ todo' = <<>> /\ lastKey' = None
  /\ quiet' = Max({quiet, 0})
  /\ UNCHANGED <<outbox, unwritten, ledgerVars, cursor, batch, posts, truncations, finished, corpusRuns,
                 corpusActions, corpusEffects, cursors>>

SyncStep == StartSync \/ ImportRuns \/ ImportHookEvents \/ ListRunKeys \/ CompileRun \/ FinishSync

\* A sync that was under way when a row was recorded does not count as quiet.
SourceStep ==
  /\ OutboxNext
  /\ quiet' = IF createdAt' = createdAt THEN quiet ELSE IF phase = "idle" THEN 0 ELSE -1
  /\ UNCHANGED <<syncVars, finished>>

FlowNext ==
  \/ SourceStep
  \/ \E r \in Taped : FinishRun(r)
  \/ SyncStep
  \/ FailImport

-----------------------------------------------------------------------------
(* `lyo corpus report`: the rows of each table that came from the ledger.  *)

corpusReport ==
  [runs       |-> Cardinality({r \in Runs : corpusRuns[r] # None}),
   hookEvents |-> Cardinality(corpusEvents),
   actions    |-> Cardinality(corpusActions),
   effects    |-> Cardinality(DOMAIN corpusEffects)]

\* Nothing stays behind: a ledger that no longer grows is in the corpus, its
\* events, its runs and everything they compile to, after one sync more than
\* it takes the cursors to run out of rows and be forgotten, whatever order
\* the keys came in and whichever syncs failed before (src/src/corpus/sync.ts,
\* updateCursor).  What the report counts then is what the ledger has: no event
\* or run of an interrupted or repeated import is there twice or too many, and every
\* effect is of a run that the ledger names, even if that compiles to nothing any more.
CorpusCatchesUp ==
  quiet = Enough =>
    /\ recorded \subseteq corpusEvents
    /\ corpusReport.hookEvents = Cardinality(recorded)
    /\ corpusReport.runs = Cardinality(Taped)
    /\ corpusReport.effects >= Cardinality({r \in Runs : Compiled(r) # <<>>})
    /\ DOMAIN corpusEffects \subseteq RunKeys
    /\ \A r \in Taped : corpusRuns[r] # None
    /\ \A r \in Runs :
         /\ {a.event : a \in Range(Compiled(r))} \subseteq corpusActions
         /\ Compiled(r) # <<>> => r \in DOMAIN corpusEffects

\* Once the corpus has caught up, the effect it holds of a run is the fold of
\* the run's trace (docs/local-corpus-effect-algebra-spec.md:132).
CorpusEffectsAreFolds ==
  quiet = Enough =>
    \A r \in DOMAIN corpusEffects : corpusEffects[r].effect = foldTrace(Compiled(r))
=============================================================================
