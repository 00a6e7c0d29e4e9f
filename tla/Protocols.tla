------------------------------ MODULE Protocols ------------------------------
(***************************************************************************)
(* Protocols: proposals that become active on evidence, are delivered to   *)
(* runs of their channel and earn credit from what came of it              *)
(* (src/src/reducers/protocols.ts), and the proposal that is derived from  *)
(* two tapes (src/src/reducers/harness.ts).                                *)
(*                                                                         *)
(* No call is a transaction.  A promotion reads the status, attaches its   *)
(* evidence, counts, and updates the row by its id alone; two promotions   *)
(* of one candidate may both get there, and what a failed one attached     *)
(* stays attached.                                                         *)
(***************************************************************************)
EXTENDS Integers, Sequences, FiniteSets, SequencesExt

CONSTANTS ProtocolIds,  \* numbered in the order sqlite compares them
          Gaps,         \* gap to its status
          Preferences,  \* preference pair to its confidence
          Derivations,  \* the pairs of tapes that warrant a verifier gate
          OutcomeNames, \* "default", and the outcome ids a caller chooses
          Judgements,   \* what may have come of a delivery: [followed, repeated, verified, cost]
          Promoters,    \* processes that promote
          ChannelRuns,  \* the runs of the channel, and "adhoc"
          MaxOutcomes,  \* bound: outcomes
          NoOne         \* no process, no protocol

ProtocolStatuses == {"none", "candidate", "active"}
GapIds == DOMAIN Gaps
PreferenceIds == DOMAIN Preferences

ASSUME ProtocolsAssumption ==
  /\ IsFiniteSet(GapIds) /\ IsFiniteSet(PreferenceIds)
  /\ \A d \in Derivations : d.preference \in PreferenceIds /\ d.protocol \in ProtocolIds
  /\ NoOne \notin ProtocolIds

VARIABLES protocol,    \* protocols: the status and promoted_at of each
          evidence,    \* protocol_evidence
          preferring,  \* protocol_preferences
          traces,      \* learning_traces of derived gates
          preferences, \* preference_pairs
          promoting,   \* what each promoter is promoting
          deliveries,  \* deliveries, by run and protocol
          outcomes,    \* outcomes, by delivery and name: the credit of each
          promotions   \* count of promotions

protocolVars == <<protocol, evidence, preferring, traces, preferences, promoting, deliveries,
                  outcomes, promotions>>

NotPromoting == [protocol |-> NoOne, from |-> "gaps", step |-> "attach"]

ProtocolsTypeOK ==
  /\ \A p \in ProtocolIds : protocol[p].status \in ProtocolStatuses
  /\ evidence \subseteq ProtocolIds \X GapIds
  /\ preferring \subseteq ProtocolIds \X preferences
  /\ deliveries \subseteq ChannelRuns \X ProtocolIds
  /\ DOMAIN outcomes \subseteq deliveries \X OutcomeNames

ProtocolsInit ==
  /\ protocol = [p \in ProtocolIds |-> [status |-> "none", at |-> 0]]
  /\ evidence = {} /\ preferring = {}
  /\ traces = {}
  /\ preferences = PreferenceIds \ {d.preference : d \in Derivations}
  /\ promoting = [w \in Promoters |-> NotPromoting]
  /\ deliveries = {} /\ outcomes = <<>>
  /\ promotions = 0

\* A protocol that exists already throws: its id is the primary key.
Propose(p) ==
  /\ protocol[p].status = "none"
  /\ protocol' = [protocol EXCEPT ![p].status = "candidate"]
  /\ UNCHANGED <<evidence, preferring, traces, preferences, promoting, deliveries, outcomes, promotions>>

AttachEvidence(p, g) ==
  /\ protocol[p].status # "none"
  /\ evidence' = evidence \cup {<<p, g>>}
  /\ UNCHANGED <<protocol, preferring, traces, preferences, promoting, deliveries, outcomes, promotions>>

\* promoteProtocol, promoteProtocolFromPreferences: the status is read first.
StartPromotion(w, p, from) ==
  /\ promoting[w] = NotPromoting
  /\ protocol[p].status = "candidate"
  /\ promoting' = [promoting EXCEPT ![w] = [protocol |-> p, from |-> from, step |-> "attach"]]
  /\ UNCHANGED <<protocol, evidence, preferring, traces, preferences, deliveries, outcomes, promotions>>

\* insert or ignore, for the evidence that the call names.
AttachNamed(w, gaps, named) ==
  LET p == promoting[w].protocol
  IN /\ p # NoOne /\ promoting[w].step = "attach"
     /\ IF promoting[w].from = "gaps" THEN named = {} ELSE gaps = {} /\ named \subseteq preferences
     /\ evidence' = evidence \cup ({p} \X gaps)
     /\ preferring' = preferring \cup ({p} \X named)
     /\ promoting' = [promoting EXCEPT ![w].step = "count"]
     /\ UNCHANGED <<protocol, traces, preferences, deliveries, outcomes, promotions>>

\* Mutant: what was inferred counts as much as what was observed.
ObservedAny(p) == {g \in GapIds : <<p, g>> \in evidence}

Observed(p) == {g \in GapIds : <<p, g>> \in evidence /\ Gaps[g] = "observed"}

Confident(p) == {f \in PreferenceIds : <<p, f>> \in preferring /\ Preferences[f] \in {"medium", "high"}}

HasEvidence(w) ==
  LET p == promoting[w].protocol
  IN IF promoting[w].from = "gaps" THEN Cardinality(Observed(p)) >= 2
     ELSE Cardinality(Confident(p)) >= 2

\* With too little evidence the call throws; what it attached stays.
CountEvidence(w) ==
  /\ promoting[w].protocol # NoOne /\ promoting[w].step = "count"
  /\ promoting' = [promoting EXCEPT ![w] = IF HasEvidence(w) THEN [@ EXCEPT !.step = "update"]
                                           ELSE NotPromoting]
  /\ UNCHANGED <<protocol, evidence, preferring, traces, preferences, deliveries, outcomes, promotions>>

\* The update names the protocol and no status: a second promotion moves promoted_at.
Promote(w) ==
  /\ promoting[w].step = "update"
  /\ protocol' = [protocol EXCEPT ![promoting[w].protocol] = [status |-> "active", at |-> promotions + 1]]
  /\ promotions' = promotions + 1
  /\ promoting' = [promoting EXCEPT ![w] = NotPromoting]
  /\ UNCHANGED <<evidence, preferring, traces, preferences, deliveries, outcomes>>

\* The process dies.
StopPromoting(w) ==
  /\ promoting[w] # NotPromoting
  /\ promoting' = [promoting EXCEPT ![w] = NotPromoting]
  /\ UNCHANGED <<protocol, evidence, preferring, traces, preferences, deliveries, outcomes, promotions>>

\* order by promoted_at, protocol_id limit 1
EarliestActive ==
  {p \in ProtocolIds : /\ protocol[p].status = "active"
                       /\ \A q \in ProtocolIds : protocol[q].status = "active" =>
                            protocol[p].at < protocol[q].at \/ (protocol[p].at = protocol[q].at /\ p <= q)}

\* resolveProtocol: one delivery for a run and a protocol, and one for all calls without a run.
Resolve(run) ==
  /\ deliveries' = deliveries \cup ({run} \X EarliestActive)
  /\ UNCHANGED <<protocol, evidence, preferring, traces, preferences, promoting, outcomes, promotions>>

Points(holds, points) == IF holds THEN points ELSE 0

ScoreOutcome(came) ==
  Points(came.verified, 10) + Points(came.followed, 5) + Points(~came.repeated, 5)
    - Points(~came.followed, 5) - Points(came.repeated, 20)
    - Points(came.cost = "medium", 2) - Points(came.cost = "high", 5)

\* The outcome's id is that of its delivery, or one the caller chooses: a second
\* outcome of one id throws.
RecordOutcome(d, name, came) ==
  /\ <<d, name>> \notin DOMAIN outcomes
  /\ Cardinality(DOMAIN outcomes) < MaxOutcomes
  /\ outcomes' = [o \in DOMAIN outcomes \cup {<<d, name>>} |->
                    IF o = <<d, name>> THEN ScoreOutcome(came) ELSE outcomes[o]]
  /\ UNCHANGED <<protocol, evidence, preferring, traces, preferences, promoting, deliveries, promotions>>

\* deriveVerifierGatePolicyFromTapes: two traces, a preference and a proposal, each
\* under an id of its own, so that a second derivation for a channel throws at the
\* first id that is taken and keeps what came before.  (Or the process dies.)
StatementsOf(d) ==
  << <<d.chosen, "verified">> \notin traces, <<d.rejected, "claim">> \notin traces,
     d.preference \notin preferences, protocol[d.protocol].status = "none" >>

DeriveGate(d, n) ==
  /\ \A k \in 1 .. n : StatementsOf(d)[k]
  /\ traces' = traces \cup (IF n >= 1 THEN {<<d.chosen, "verified">>} ELSE {})
                        \cup (IF n >= 2 THEN {<<d.rejected, "claim">>} ELSE {})
  /\ preferences' = preferences \cup (IF n >= 3 THEN {d.preference} ELSE {})
  /\ protocol' = IF n = 4 THEN [protocol EXCEPT ![d.protocol].status = "candidate"] ELSE protocol
  /\ UNCHANGED <<evidence, preferring, promoting, deliveries, outcomes, promotions>>

ProtocolsNext ==
  \/ \E p \in ProtocolIds : Propose(p) \/ (\E g \in GapIds : AttachEvidence(p, g))
  \/ \E w \in Promoters :
       \/ \E p \in ProtocolIds, from \in {"gaps", "preferences"} : StartPromotion(w, p, from)
       \/ \E gaps \in SUBSET GapIds, named \in SUBSET preferences :
            AttachNamed(w, gaps, named)
       \/ CountEvidence(w) \/ Promote(w) \/ StopPromoting(w)
  \/ \E run \in ChannelRuns : Resolve(run)
  \/ \E d \in deliveries, name \in OutcomeNames, came \in Judgements : RecordOutcome(d, name, came)
  \/ \E d \in Derivations, n \in 1 .. 4 : DeriveGate(d, n)

-----------------------------------------------------------------------------
\* Two observed gaps, or two confident preferences, are attached to the protocol.
IsEvidenced(p) ==
  \/ \E g, h \in GapIds : /\ g # h /\ Gaps[g] = "observed" /\ Gaps[h] = "observed"
                         /\ {<<p, g>>, <<p, h>>} \subseteq evidence
  \/ \E f, h \in PreferenceIds : /\ f # h /\ "low" \notin {Preferences[f], Preferences[h]}
                                /\ {<<p, f>>, <<p, h>>} \subseteq preferring

\* A protocol is active, and a run was given it, only on two observed gaps or two
\* confident preferences of its own, whoever else promoted it or died half-way
\* (src/src/reducers/protocols.ts:67).
PromotionIsEvidenced ==
  /\ \A p \in ProtocolIds : protocol[p].status = "active" => IsEvidenced(p)
  /\ \A d \in deliveries : protocol[d[2]].status = "active"
=============================================================================
