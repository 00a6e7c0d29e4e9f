----------------------------- MODULE GitImport -------------------------------
(***************************************************************************)
(* The history of a git repository as rows of a corpus                     *)
(* (src/src/corpus/git-import.ts), and the pool into which the rows of     *)
(* several corpora are collected (src/src/corpus/pool.ts).                 *)
(*                                                                         *)
(* No transaction spans an import: every row is inserted by a statement of *)
(* its own, or ignored when its key is taken, and a commit that has a row  *)
(* is passed over with all that belongs to it.  A collection copies one    *)
(* table after the other, each as it is found at that moment.              *)
(***************************************************************************)
EXTENDS Naturals, Sequences, FiniteSets, SequencesExt, Functions

CONSTANTS History,    \* the commits of the repository, oldest first
          Changed,    \* commit to its files: [path, hunks], a hunk being its token kinds
          Corpora,    \* the corpora, in the order in which they are collected
          Importers,  \* processes that import
          MaxImports, \* bound: imports
          MaxCollects, \* bound: collections
          MaxCuts     \* bound: statements that throw and processes that die

ASSUME GitAssumption ==
  /\ History \in Seq(DOMAIN Changed) /\ DOMAIN Changed = Range(History) /\ IsInjective(History)
  /\ Corpora \in Seq(Range(Corpora)) /\ Corpora # <<>> /\ IsInjective(Corpora)
  /\ MaxImports \in Nat /\ MaxCollects \in Nat /\ MaxCuts \in Nat

VARIABLES gitRepo,    \* git_repositories: whether each corpus has the row
          gitBatches, \* git_import_batches of each corpus: id to status
          gitRows,    \* the rows of commits in each corpus: key to batch
          importer,   \* what each import has still to do
          gitClock,   \* the millisecond of the last import
          imports, gitCuts,
          collect,    \* the collection: the corpus and the table it is at, 0 when none runs
          poolRepo, poolBatches, poolRows,
          collects,
          undisturbed \* history: no corpus has changed since the last whole collection began

sourceVars == <<gitRepo, gitBatches, gitRows, importer, gitClock, imports, gitCuts>>
poolVars == <<collect, poolRepo, poolBatches, poolRows, collects, undisturbed>>
gitVars == <<sourceVars, poolVars>>

Sources == Range(Corpora)
NotImporting == [at |-> "rest", corpus |-> Corpora[1], batch |-> 0, todo |-> <<>>]

-----------------------------------------------------------------------------
(* The rows of a commit, at places in the order of their inserts: the file, *)
(* the hunk or 0 for what is said of the whole file, the token or 0.       *)

\* A file that the patch does not name, one deleted or binary, has no hunks.
HunkPlaces(file, f) ==
  UNION {{<<f, h, t>> : t \in 0 .. Len(file.hunks[h])} : h \in DOMAIN file.hunks}

FilePlaces(file, f) == {<<f, 0, 0>>, <<f, 0, 1>>} \cup HunkPlaces(file, f)

PlacesBelow(commit) == UNION {FilePlaces(Changed[commit][f], f) : f \in DOMAIN Changed[commit]}

IsBefore(p, q) ==
  \/ p[1] < q[1]
  \/ p[1] = q[1] /\ (p[2] < q[2] \/ (p[2] = q[2] /\ p[3] < q[3]))

RowAt(commit, p) ==
  LET file == Changed[commit][p[1]]
      Below(table, kind) == [commit |-> commit, table |-> table, path |-> file.path, hunk |-> p[2], kind |-> kind]
  IN IF p[3] = 0 THEN Below(IF p[2] = 0 THEN "files" ELSE "hunks", "")
     ELSE Below("tokens", IF p[2] = 0 THEN "file_role" ELSE file.hunks[p[2]][p[3]])

CommitRow(commit) == [commit |-> commit, table |-> "commits", path |-> "", hunk |-> 0, kind |-> ""]

RowsBelow(commit) == {RowAt(commit, p) : p \in PlacesBelow(commit)}

RowsOf(commit) == RowsBelow(commit) \cup {CommitRow(commit)}

-----------------------------------------------------------------------------
GitTypeOK ==
  /\ \A c \in Sources :
       /\ \A b \in DOMAIN gitBatches[c] : b \in 1 .. gitClock /\ gitBatches[c][b] \in {"running", "completed", "failed"}
       /\ \A row \in DOMAIN gitRows[c] : row \in RowsOf(row.commit) /\ gitRows[c][row] \in DOMAIN gitBatches[c]
  /\ \A row \in DOMAIN poolRows : poolRows[row] \in DOMAIN poolBatches

GitInit ==
  /\ gitRepo = [c \in Sources |-> FALSE]
  /\ gitBatches = [c \in Sources |-> <<>>]
  /\ gitRows = [c \in Sources |-> <<>>]
  /\ importer = [i \in Importers |-> NotImporting]
  /\ gitClock = 0 /\ imports = 0 /\ gitCuts = 0
  /\ collect = [source |-> 0, table |-> 0]
  /\ poolRepo = FALSE /\ poolBatches = <<>> /\ poolRows = <<>>
  /\ collects = 0 /\ undisturbed = FALSE

\* insert or ignore of the rows of others, and of one row.
Merged(rows, others) ==
  [key \in DOMAIN rows \cup DOMAIN others |-> IF key \in DOMAIN rows THEN rows[key] ELSE others[key]]

Inserted(rows, key, value) == Merged(rows, [k \in {key} |-> value])

-----------------------------------------------------------------------------
(* An import.                                                              *)

Proceed(i, at, todo) == importer' = [importer EXCEPT ![i].at = at, ![i].todo = todo]

\* importGitHistory up to upsertRepository.  The id of the batch is the millisecond
\* it starts in, which another import of the repository may share.
StartImport(i, c) ==
  /\ importer[i].at = "rest" /\ imports < MaxImports
  /\ \E now \in {gitClock, gitClock + 1} \ {0} :
       /\ importer' = [importer EXCEPT ![i] = [at |-> "batch", corpus |-> c, batch |-> now, todo |-> <<>>]]
       /\ gitClock' = now
  /\ gitRepo' = [gitRepo EXCEPT ![c] = TRUE]
  /\ imports' = imports + 1
  /\ UNCHANGED <<gitBatches, gitRows, gitCuts>>

SetBatch(c, b, status) == gitBatches' = [gitBatches EXCEPT ![c] = Merged([k \in {b} |-> status], gitBatches[c])]

\* startBatch and listCommits, of the last n commits or of all.  An id that is
\* taken throws, and failBatch then names the batch that has it.
StartBatch(i) ==
  LET c == importer[i].corpus
      b == importer[i].batch
  IN /\ importer[i].at = "batch"
     /\ IF b \in DOMAIN gitBatches[c]
        THEN SetBatch(c, b, "failed") /\ importer' = [importer EXCEPT ![i] = NotImporting]
        ELSE /\ SetBatch(c, b, "running")
             /\ \E n \in 1 .. Len(History) : Proceed(i, "commits", SubSeq(History, Len(History) - n + 1, Len(History)))
     /\ UNCHANGED <<gitRepo, gitRows, gitClock, imports, gitCuts>>

IsImported(c, commit) == CommitRow(commit) \in DOMAIN gitRows[c]

\* insertCommit; the loop goes on to the next commit when this one has its row.
InsertCommit(i) ==
  LET c == importer[i].corpus
      commit == Head(importer[i].todo)
  IN /\ importer[i].at = "commits" /\ importer[i].todo # <<>>
     /\ IF IsImported(c, commit)
        THEN Proceed(i, "commits", Tail(importer[i].todo)) /\ gitRows' = gitRows
        ELSE /\ gitRows' = [gitRows EXCEPT ![c] = Inserted(@, CommitRow(commit), importer[i].batch)]
             /\ Proceed(i, "rows", importer[i].todo)
     /\ UNCHANGED <<gitRepo, gitBatches, gitClock, imports, gitCuts>>

\* The places of the rows that are not there yet.
Missing(c, commit) == {p \in PlacesBelow(commit) : RowAt(commit, p) \notin DOMAIN gitRows[c]}

\* insertCommitFile, insertHunk, insertToken.
InsertRow(i) ==
  LET c == importer[i].corpus
      commit == Head(importer[i].todo)
      missing == Missing(c, commit)
  IN /\ importer[i].at = "rows"
     /\ \/ missing = {} /\ gitRows' = gitRows
        \/ \E p \in missing :
             /\ \A q \in missing \ {p} : IsBefore(p, q)
             /\ gitRows' = [gitRows EXCEPT ![c] = Inserted(@, RowAt(commit, p), importer[i].batch)]
     /\ IF RowsBelow(commit) \subseteq DOMAIN gitRows'[c]
        THEN Proceed(i, "commits", Tail(importer[i].todo)) ELSE importer' = importer
     /\ UNCHANGED <<gitRepo, gitBatches, gitClock, imports, gitCuts>>

\* finishBatch.
FinishImport(i) ==
  /\ importer[i].at = "commits" /\ importer[i].todo = <<>>
  /\ SetBatch(importer[i].corpus, importer[i].batch, "completed")
  /\ importer' = [importer EXCEPT ![i] = NotImporting]
  /\ UNCHANGED <<gitRepo, gitRows, gitClock, imports, gitCuts>>

\* git or a statement throws: failBatch.  Or the process dies.
CutImport(i) ==
  LET c == importer[i].corpus
  IN /\ importer[i].at # "rest" /\ gitCuts < MaxCuts
     /\ \/ gitBatches' = gitBatches
        \/ importer[i].batch \in DOMAIN gitBatches[c] /\ SetBatch(c, importer[i].batch, "failed")
     /\ importer' = [importer EXCEPT ![i] = NotImporting]
     /\ gitCuts' = gitCuts + 1
     /\ UNCHANGED <<gitRepo, gitRows, gitClock, imports>>

ImportStep ==
  /\ \E i \in Importers :
       \/ \E c \in Sources : StartImport(i, c)
       \/ StartBatch(i) \/ InsertCommit(i) \/ InsertRow(i) \/ FinishImport(i) \/ CutImport(i)
  /\ undisturbed' = (undisturbed /\ UNCHANGED <<gitRepo, gitBatches, gitRows>>)
  /\ UNCHANGED <<collect, poolRepo, poolBatches, poolRows, collects>>

-----------------------------------------------------------------------------
(* The pool.                                                               *)

\* Mutant: the tokens are forgotten.
CopyOrderWithoutTokens == <<"repositories", "batches", "commits", "files", "hunks">>

CopyOrder == <<"repositories", "batches", "commits", "files", "hunks", "tokens">>

StartCollect ==
  /\ collect.source = 0 /\ collects < MaxCollects
  /\ collects' = collects + 1
  /\ collect' = [source |-> 1, table |-> 1]
  /\ undisturbed' = TRUE
  /\ UNCHANGED <<sourceVars, poolRepo, poolBatches, poolRows>>

NextTable ==
  IF collect.table < Len(CopyOrder) THEN [collect EXCEPT !.table = @ + 1]
  ELSE [source |-> IF collect.source < Len(Corpora) THEN collect.source + 1 ELSE 0, table |-> 1]

TableRows(c, table) == Restrict(gitRows[c], {row \in DOMAIN gitRows[c] : row.table = table})

\* insert or ignore takes no foreign key: a row whose batch or repository the pool
\* does not have throws, and with it the collection.
CopyTable ==
  LET c == Corpora[collect.source]
      table == CopyOrder[collect.table]
      rows == TableRows(c, table)
  IN /\ collect.source # 0
     /\ CASE table = "repositories" ->
               poolRepo' = (poolRepo \/ gitRepo[c]) /\ UNCHANGED <<poolBatches, poolRows>>
          [] table = "batches" ->
               /\ gitBatches[c] # <<>> => poolRepo
               /\ poolBatches' = Merged(poolBatches, gitBatches[c])
               /\ UNCHANGED <<poolRepo, poolRows>>
          [] OTHER ->
               /\ Range(rows) \subseteq DOMAIN poolBatches
               /\ poolRows' = Merged(poolRows, rows)
               /\ UNCHANGED <<poolRepo, poolBatches>>
     /\ collect' = NextTable
     /\ UNCHANGED <<sourceVars, collects, undisturbed>>

\* A foreign key fails.
ThrowInCollect ==
  LET c == Corpora[collect.source]
      table == CopyOrder[collect.table]
  IN /\ collect.source # 0
     /\ \/ table = "batches" /\ gitBatches[c] # <<>> /\ ~poolRepo
        \/ ~(Range(TableRows(c, table)) \subseteq DOMAIN poolBatches)
     /\ collect' = [source |-> 0, table |-> 0]
     /\ undisturbed' = FALSE
     /\ UNCHANGED <<sourceVars, poolRepo, poolBatches, poolRows, collects>>

\* The process dies.
CutCollect ==
  /\ collect.source # 0 /\ gitCuts < MaxCuts
  /\ gitCuts' = gitCuts + 1
  /\ collect' = [source |-> 0, table |-> 0]
  /\ undisturbed' = FALSE
  /\ UNCHANGED <<gitRepo, gitBatches, gitRows, importer, gitClock, imports, poolRepo, poolBatches, poolRows,
                 collects>>

GitNext == ImportStep \/ StartCollect \/ CopyTable \/ ThrowInCollect \/ CutCollect

-----------------------------------------------------------------------------
IsWhole(rows, commit) == RowsOf(commit) \subseteq DOMAIN rows

\* The rows of a commit were inserted by one import, and those of an import that
\* completed are all there: what a cut-off import left of a commit, which no later
\* one adds to, is told by the status of its batch.  A collection that no import
\* disturbed leaves in the pool every row of every corpus, whatever an earlier one
\* left out (src/src/corpus/git-import.ts:99, src/src/corpus/pool.ts).
CommitsAreAccounted ==
  /\ \A c \in Sources : \A row \in DOMAIN gitRows[c] :
       /\ CommitRow(row.commit) \in DOMAIN gitRows[c]
       /\ gitRows[c][row] = gitRows[c][CommitRow(row.commit)]
       /\ gitBatches[c][gitRows[c][row]] = "completed" => IsWhole(gitRows[c], row.commit)
  /\ \A row \in DOMAIN poolRows : \E c \in Sources : row \in DOMAIN gitRows[c]
  /\ undisturbed /\ collect.source = 0 =>
       DOMAIN poolRows = UNION {DOMAIN gitRows[c] : c \in Sources}
=============================================================================
