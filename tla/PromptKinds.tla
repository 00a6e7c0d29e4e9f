----------------------------- MODULE PromptKinds -----------------------------
(***************************************************************************)
(* What kind a prompt is: a log of votes per prompt, whose log likelihood  *)
(* ratios add up, and the kind of the prompt's row, which is recomputed    *)
(* from the log (src/src/reducers/observation.ts,                          *)
(* prompt-kind-evidence.ts).                                               *)
(*                                                                         *)
(* Hooks record the prompts and the responses of one session; a backfill   *)
(* votes for the prompts that no vote was cast for.  Nothing here is a     *)
(* transaction: the number of a vote, its insert, and the two reads and    *)
(* the update of a recomputation are statements of their own.              *)
(***************************************************************************)
EXTENDS Naturals, Sequences, FiniteSets, SequencesExt, Listings

CONSTANTS Prompts,    \* user prompts
          Turn,       \* the turn of each prompt
          TextKind,   \* classifyPromptKind of each prompt's text
          Legacy,     \* sequence of prompts that were recorded before votes were
          Responses,  \* responses that may be recorded, [turn, kind]
          Recorders,  \* processes: hooks and backfills
          MaxCutPrompts, \* bound: processes that die or throw
          NoKind      \* no kind: nothing was recognised

\* The kinds in the order of their names.
KindOrder == <<"correction", "debugging_request", "direction_setting", "follow_up",
               "question", "refactoring_request">>

PromptKindNames == Range(KindOrder) \cup {"user_prompt"}

ASSUME PromptAssumption ==
  /\ Turn \in [Prompts -> Nat]
  /\ TextKind \in [Prompts -> Range(KindOrder)]
  /\ Legacy \in Seq(Prompts)
  /\ Responses \subseteq [turn : Nat, kind : Range(KindOrder) \cup {NoKind}]
  /\ NoKind \notin PromptKindNames
  /\ MaxCutPrompts \in Nat

Methods == {"positional", "heuristic", "contextual"}

VARIABLES sessionRows, \* session_prompts of the session: prompts and responses, by index
          promptKind, \* prompt_kind of each prompt, NoKind without a row
          votes,      \* prompt_kind_evidence of each prompt, by number
          recorder,   \* what each process has still to do, and what it has read
          cuts,       \* count of processes that died or threw
          disturbed   \* history: prompts that two processes worked on at once, or one left half-way

promptVars == <<sessionRows, promptKind, votes, recorder, cuts, disturbed>>

Vote(method, k) == [method |-> method, kind |-> k]

DoVote(p, method, k) == [op |-> "vote", prompt |-> p, vote |-> Vote(method, k)]
DoScan(p, k, contextual) == [op |-> "scan", prompt |-> p, listed |-> k, contextual |-> contextual]
DoRecompute(p) == [op |-> "recompute", prompt |-> p]

Resting == [todo |-> <<>>, number |-> 0, current |-> NoKind, best |-> NoKind]

PromptsTypeOK ==
  /\ promptKind \in [Prompts -> PromptKindNames \cup {NoKind}]
  /\ \A p \in Prompts : \A i \in DOMAIN votes[p] :
       votes[p][i].method \in Methods /\ votes[p][i].kind \in Range(KindOrder)
  /\ \A p \in Prompts : promptKind[p] = NoKind => votes[p] = <<>>
  /\ cuts \in 0 .. MaxCutPrompts

PromptsInit ==
  /\ sessionRows = [i \in DOMAIN Legacy |-> [prompt |-> Legacy[i]]]
  /\ promptKind = [p \in Prompts |-> IF p \in Range(Legacy) THEN "user_prompt" ELSE NoKind]
  /\ votes = [p \in Prompts |-> <<>>]
  /\ recorder = [w \in Recorders |-> Resting]
  /\ cuts = 0 /\ disturbed = {}

-----------------------------------------------------------------------------
(* The belief.                                                             *)

\* exp of a log likelihood ratio: 99, 3 and 4.
Ratio(method) == CASE method = "positional" -> 99 [] method = "heuristic" -> 3 [] OTHER -> 4

Odds(cast, k) ==
  FoldLeft(LAMBDA odds, v : IF v.kind = k THEN odds * Ratio(v.method) ELSE odds, 1, cast)

VotedKinds(cast) == {v.kind : v \in Range(cast)}

OddsOf(cast) == [k \in VotedKinds(cast) |-> Odds(cast, k)]

\* order by log_odds desc, kind asc: the first row, NoKind without one.
FirstBelief(odds) ==
  LET top == SelectInSeq(KindOrder, LAMBDA k : /\ k \in DOMAIN odds
                                               /\ \A l \in DOMAIN odds : odds[k] >= odds[l])
  IN IF top = 0 THEN NoKind ELSE KindOrder[top]

BestKind(cast) == FirstBelief(OddsOf(cast))

-----------------------------------------------------------------------------
(* What a process has to do.                                               *)

IsPrompt(row) == "prompt" \in DOMAIN row

IndexOf(p) == SelectInSeq(sessionRows, LAMBDA row : IsPrompt(row) /\ row.prompt = p) - 1

PromptsInOrder ==
  LET rows == RowsAt(sessionRows, {i \in DOMAIN sessionRows : IsPrompt(sessionRows[i])})
  IN [i \in DOMAIN rows |-> rows[i].prompt]

TurnUserPrompts(turn) ==
  RowsAt(PromptsInOrder, {i \in DOMAIN PromptsInOrder : Turn[PromptsInOrder[i]] = turn})

\* The votes of a prompt that is seen for the first time, and its recomputation.
FirstVotes(p, index, heuristic) ==
  (IF index = 0 THEN <<DoVote(p, "positional", "direction_setting")>> ELSE <<>>)
    \o <<DoVote(p, "heuristic", heuristic)>>

ContextualVote(p, k) == IF k = NoKind THEN <<>> ELSE <<DoVote(p, "contextual", k)>>

\* The first response of the turn that says anything of its kind.
ContextualOf(turn) ==
  LET said == {i \in DOMAIN sessionRows : /\ ~IsPrompt(sessionRows[i])
                                          /\ sessionRows[i].turn = turn /\ sessionRows[i].kind # NoKind}
  IN IF said = {} THEN NoKind ELSE sessionRows[Min(said)].kind

WorkingOn(w, p) == \E i \in DOMAIN recorder[w].todo : recorder[w].todo[i].prompt = p

\* The prompts that another process works on already.
Crowded(w, prompts) == {p \in prompts : \E v \in Recorders \ {w} : WorkingOn(v, p)}

Take(w, todo) ==
  /\ recorder' = [recorder EXCEPT ![w] = [Resting EXCEPT !.todo = todo]]
  /\ disturbed' = disturbed \cup Crowded(w, {op.prompt : op \in Range(todo)})

\* A recordPromptBoundary of a user prompt, up to its row.
RecordPrompt(w, p) ==
  /\ recorder[w].todo = <<>> /\ promptKind[p] = NoKind
  /\ sessionRows' = Append(sessionRows, [prompt |-> p])
  /\ promptKind' = [promptKind EXCEPT ![p] = TextKind[p]]
  /\ Take(w, FirstVotes(p, Len(sessionRows), TextKind[p]) \o <<DoRecompute(p)>>)
  /\ UNCHANGED <<votes, cuts>>

\* A recordPromptBoundary of a response: each prompt of the turn gets a vote and is recomputed.
RecordResponse(w, r) ==
  /\ recorder[w].todo = <<>>
  /\ \A i \in DOMAIN sessionRows : sessionRows[i] # r
  /\ sessionRows' = Append(sessionRows, r)
  /\ LET prompts == IF r.kind = NoKind THEN <<>> ELSE TurnUserPrompts(r.turn)
     IN Take(w, [i \in 1 .. 2 * Len(prompts) |->
                  IF i % 2 = 1 THEN DoVote(prompts[(i + 1) \div 2], "contextual", r.kind)
                  ELSE DoRecompute(prompts[i \div 2])])
  /\ UNCHANGED <<promptKind, votes, cuts>>

\* backfillPromptKindEvidence lists the prompts and the responses.
StartBackfill(w) ==
  /\ recorder[w].todo = <<>>
  /\ Take(w, [i \in DOMAIN PromptsInOrder |->
                LET p == PromptsInOrder[i] IN DoScan(p, promptKind[p], ContextualOf(Turn[p]))])
  /\ UNCHANGED <<sessionRows, promptKind, votes, cuts>>

-----------------------------------------------------------------------------
(* The statements.                                                         *)

At(w, op) == recorder[w].todo # <<>> /\ Head(recorder[w].todo).op = op

Do(w) == Head(recorder[w].todo)

GoOn(w, more) ==
  recorder' = [recorder EXCEPT ![w] = [Resting EXCEPT !.todo = more \o Tail(recorder[w].todo)]]

\* A kind of classifyPromptKind is kept as the vote; any other is derived from the text.
HeuristicKind(p, listed) ==
  IF listed \in {"user_prompt", "direction_setting"} THEN TextKind[p] ELSE listed

\* Mutant: prompts with votes are voted for again.
BackfillVotesAlways(op) ==
  FirstVotes(op.prompt, IndexOf(op.prompt), HeuristicKind(op.prompt, op.listed))
    \o ContextualVote(op.prompt, op.contextual) \o <<DoRecompute(op.prompt)>>

\* A prompt that has a vote is skipped.
BackfillVotes(op) ==
  IF votes[op.prompt] # <<>> THEN <<>>
  ELSE FirstVotes(op.prompt, IndexOf(op.prompt), HeuristicKind(op.prompt, op.listed))
         \o ContextualVote(op.prompt, op.contextual) \o <<DoRecompute(op.prompt)>>

ScanPrompt(w) ==
  /\ At(w, "scan")
  /\ GoOn(w, BackfillVotes(Do(w)))
  /\ UNCHANGED <<sessionRows, promptKind, votes, cuts, disturbed>>

\* count(*) + 1
NumberVote(w) ==
  /\ At(w, "vote") /\ recorder[w].number = 0
  /\ recorder' = [recorder EXCEPT ![w].number = Len(votes[Do(w).prompt]) + 1]
  /\ UNCHANGED <<sessionRows, promptKind, votes, cuts, disturbed>>

\* The number is part of the primary key.
CanInsertVote(w) == recorder[w].number = Len(votes[Do(w).prompt]) + 1

InsertVote(w) ==
  /\ At(w, "vote") /\ CanInsertVote(w)
  /\ votes' = [votes EXCEPT ![Do(w).prompt] = Append(@, Do(w).vote)]
  /\ GoOn(w, <<>>)
  /\ UNCHANGED <<sessionRows, promptKind, cuts, disturbed>>

ReadCurrentKind(w) ==
  /\ At(w, "recompute") /\ recorder[w].current = NoKind
  /\ recorder' = [recorder EXCEPT ![w].current = promptKind[Do(w).prompt]]
  /\ UNCHANGED <<sessionRows, promptKind, votes, cuts, disturbed>>

ReadBeliefs(w) ==
  /\ At(w, "recompute") /\ recorder[w].current # NoKind /\ recorder[w].best = NoKind
  /\ LET best == BestKind(votes[Do(w).prompt])
     IN IF best \in {NoKind, recorder[w].current} THEN GoOn(w, <<>>)
        ELSE recorder' = [recorder EXCEPT ![w].best = best]
  /\ UNCHANGED <<sessionRows, promptKind, votes, cuts, disturbed>>

UpdateKind(w) ==
  /\ At(w, "recompute") /\ recorder[w].best # NoKind
  /\ promptKind' = [promptKind EXCEPT ![Do(w).prompt] = recorder[w].best]
  /\ GoOn(w, <<>>)
  /\ UNCHANGED <<sessionRows, votes, cuts, disturbed>>

LeaveOff(w) ==
  /\ recorder' = [recorder EXCEPT ![w] = Resting]
  /\ disturbed' = disturbed \cup {op.prompt : op \in Range(recorder[w].todo)}
  /\ UNCHANGED <<sessionRows, promptKind, votes>>

\* The number was taken by another process: the insert throws, and with it the call.
NumberTaken(w) ==
  /\ At(w, "vote") /\ recorder[w].number # 0 /\ ~CanInsertVote(w)
  /\ LeaveOff(w)
  /\ cuts' = cuts

StopRecording(w) ==
  /\ recorder[w].todo # <<>> /\ cuts < MaxCutPrompts
  /\ LeaveOff(w)
  /\ cuts' = cuts + 1

PromptsNext ==
  \E w \in Recorders :
    \/ \E p \in Prompts : RecordPrompt(w, p)
    \/ \E r \in Responses : RecordResponse(w, r)
    \/ StartBackfill(w) \/ ScanPrompt(w)
    \/ NumberVote(w) \/ InsertVote(w) \/ NumberTaken(w)
    \/ ReadCurrentKind(w) \/ ReadBeliefs(w) \/ UpdateKind(w)
    \/ StopRecording(w)
=============================================================================
