--------------------------- MODULE PromptMeasures ----------------------------
(***************************************************************************)
(* What is reported of the prompts of a session: which kinds flipped, by   *)
(* what margin, which methods agree, which prompts retry the one before,   *)
(* and the episodes they fall into (src/src/measurement/prompt-kind.ts,    *)
(* episodes.ts).  Two summaries are alike when their tokens overlap by     *)
(* half; costs are whole numbers.                                          *)
(***************************************************************************)
EXTENDS PromptKinds

CONSTANTS AlikeSummaries, \* pairs of prompts whose summaries overlap
          ShortPrompts,   \* prompts of few enough tokens to continue a turn
          TurnCost        \* what the model calls of each turn cost

CountOf(counted, Test(_)) == Cardinality({x \in counted : Test(x)})

Recorded == {p \in Prompts : promptKind[p] # NoKind}

VotesBy(p, method) == SelectSeq(votes[p], LAMBDA v : v.method = method)

-----------------------------------------------------------------------------
(* Flips, margins, concordance.                                            *)

\* A later vote caused the change: positional dominance is not a flip.
IsFlipped(p) ==
  LET heuristic == VotesBy(p, "heuristic")
      later == SelectSeq(votes[p], LAMBDA v : v.method \notin {"heuristic", "positional"})
  IN /\ heuristic # <<>>
     /\ promptKind[p] # heuristic[1].kind
     /\ promptKind[p] \in VotedKinds(later)

FlipCounts ==
  LET voted == {p \in Recorded : VotesBy(p, "heuristic") # <<>>}
  IN [flipped |-> CountOf(voted, IsFlipped), unflipped |-> CountOf(voted, LAMBDA p : ~IsFlipped(p))]

\* The factor between the odds of the two best kinds.
MarginOf(odds) ==
  LET Beats(factor) == \E k \in DOMAIN odds : \A l \in DOMAIN odds \ {k} : odds[k] >= factor * odds[l]
  IN IF Beats(10) THEN "decisive" ELSE IF Beats(2) THEN "moderate" ELSE "flat"

Margin(p) == MarginOf(OddsOf(votes[p]))

MarginCounts ==
  [m \in {"flat", "moderate", "decisive"} |-> CountOf({p \in Recorded : votes[p] # <<>>}, LAMBDA p : Margin(p) = m)]

KindsBy(p, method) == VotedKinds(VotesBy(p, method))

\* Of the prompts that two methods voted on, how many they agree on.
Concordance(left, right) ==
  LET both == {p \in Recorded : KindsBy(p, left) # {} /\ KindsBy(p, right) # {}}
  IN [prompts |-> Cardinality(both),
      agreeing |-> CountOf(both, LAMBDA p : KindsBy(p, left) \cap KindsBy(p, right) # {})]

Coverage ==
  [userPrompts |-> Cardinality(Recorded),
   withEvidence |-> CountOf(Recorded, LAMBDA p : votes[p] # <<>>),
   withMultipleMethods |->
     CountOf(Recorded, LAMBDA p : KindsBy(p, "heuristic") # {} /\ KindsBy(p, "contextual") # {})]

-----------------------------------------------------------------------------
(* Retries and episodes.                                                   *)

CostOf(p) == TurnCost[Turn[p]]

Spend(prompts) == FoldLeft(LAMBDA sum, p : sum + CostOf(p), 0, prompts)

IsAlike(p, q) == {p, q} \in AlikeSummaries

\* The prompts that say again what the prompt before them said.
Retries(order) ==
  LET again == {i \in 2 .. Len(order) : IsAlike(order[i - 1], order[i])}
  IN [k \in 1 .. Cardinality(again) |-> order[SetToSortSeq(again, <)[k]]]

\* Of the prompts with a next one, flipped or not, how many were retried.
RetryRate(order, flipped) ==
  LET followed == {i \in 1 .. Len(order) - 1 : IsFlipped(order[i]) = flipped}
  IN [followed |-> Cardinality(followed),
      retried |-> CountOf(followed, LAMBDA i : IsAlike(order[i], order[i + 1]))]

HasResponseBetween(p, q) == \E i \in IndexOf(p) + 2 .. IndexOf(q) : ~IsPrompt(sessionRows[i])

Continues(previous, p) ==
  \/ IsAlike(previous, p)
  \/ p \in ShortPrompts /\ HasResponseBetween(previous, p)

PromptEpisodes(order) ==
  FoldLeft(LAMBDA episodes, p :
             IF episodes # <<>> /\ Continues(Last(Last(episodes)), p)
             THEN Append(Front(episodes), Append(Last(episodes), p))
             ELSE Append(episodes, <<p>>),
           <<>>, order)

\* The kind with the greatest odds over all prompts of an episode.
DominantKind(episode) == BestKind(FlattenSeq([i \in DOMAIN episode |-> votes[episode[i]]]))

\* What was spent on the prompts of an episode after its first.
EchoSpend(episodes) ==
  FoldLeft(LAMBDA sum, episode : sum + Spend(Tail(episode)), 0, episodes)

-----------------------------------------------------------------------------
AtRest(p) == \A w \in Recorders : ~WorkingOn(w, p)

\* The responses of its turn that came after a prompt and say anything of its kind.
ResponsesAfter(p) ==
  {i \in IndexOf(p) + 2 .. Len(sessionRows) :
     ~IsPrompt(sessionRows[i]) /\ sessionRows[i].turn = Turn[p] /\ sessionRows[i].kind # NoKind}

\* A live prompt has its heuristic vote once, its positional vote if it is the
\* first, and a vote of each response after it; a legacy prompt that a response
\* voted for first is never given the others.
VotesAreCastOnce(p) ==
  LET Count(method) == Len(VotesBy(p, method))
  IN /\ Count("heuristic") <= 1
     /\ Count("positional") = IF IndexOf(p) = 0 THEN Count("heuristic") ELSE 0
     /\ p \notin Range(Legacy) =>
          Count("heuristic") = 1 /\ Count("contextual") = Cardinality(ResponsesAfter(p))

KindIsExplained(p) ==
  /\ promptKind[p] \in {"user_prompt", TextKind[p]} \cup VotedKinds(votes[p])
  /\ AtRest(p) /\ p \notin disturbed /\ votes[p] # <<>> =>
       /\ VotesAreCastOnce(p)
       /\ promptKind[p] = BestKind(votes[p])
       /\ VotesBy(p, "heuristic") # <<>> =>
            promptKind[p] \in KindsBy(p, "heuristic") \cup KindsBy(p, "positional") \/ IsFlipped(p)

EpisodesAreConsistent(order, episodes) ==
  /\ FlattenSeq(episodes) = order
  /\ Spend(Retries(order)) <= EchoSpend(episodes)
  /\ RetryRate(order, TRUE).retried + RetryRate(order, FALSE).retried = Len(Retries(order))

\* A kind is never anything that nobody said of the prompt; and a prompt that was
\* neither worked on by two processes at once nor left half-way has its votes once
\* and the kind they amount to, so that the report explains every kind: it is the
\* heuristic one, that of the first position, or a flip.  Whatever the order of
\* prompts, responses and backfills, the episodes are the prompts in order, and a
\* retry is never the first of its episode (src/src/measurement/prompt-kind.ts:104).
PromptKindsAreExplained ==
  /\ \A p \in Recorded : KindIsExplained(p)
  /\ EpisodesAreConsistent(PromptsInOrder, PromptEpisodes(PromptsInOrder))
  /\ Coverage.withEvidence = MarginCounts["flat"] + MarginCounts["moderate"] + MarginCounts["decisive"]
  /\ FlipCounts.flipped <= Coverage.withMultipleMethods
  /\ Concordance("contextual", "heuristic").prompts = Coverage.withMultipleMethods
=============================================================================
