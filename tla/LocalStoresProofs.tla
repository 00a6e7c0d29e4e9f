------------------------- MODULE LocalStoresProofs -------------------------
(***************************************************************************)
(* Proofs about stores beside the tape and the spool, for any number of    *)
(* processes at work on each.                                              *)
(*   Protocols        a protocol becomes active, and is delivered, on two  *)
(*                    pieces of evidence of its own                        *)
(*   TelemetryOutbox  while the file is not emptied, nothing behind the    *)
(*                    cursor is missing from the ledger, although every    *)
(*                    consumer sets the cursor to what it read before      *)
(*   SessionBanner    sessions of one marker name are shown lessons once,  *)
(*                    and a marker is there for a reason                   *)
(*   GitImport        the rows of a commit are of one import, and whole    *)
(*                    when it completed; a collection that nothing         *)
(*                    disturbed has them all                               *)
(*   CorpusSync       what the ledger has is in the corpus, after one more *)
(*                    sync than it has rows that nothing disturbed         *)
(*   LocalStores      the types of all of these stores, and of telemetry,  *)
(*                    the compiler and the kinds of prompts                *)
(***************************************************************************)
EXTENDS LocalStores, SumTheorems, FiniteSetTheorems, SequenceTheorems, WellFoundedInduction, TLAPS

-----------------------------------------------------------------------------
(* Protocols.                                                              *)

ProtocolTypes ==
  /\ protocol \in [ProtocolIds -> [status : ProtocolStatuses, at : Nat]]
  /\ promotions \in Nat
  /\ evidence \subseteq ProtocolIds \X GapIds
  /\ preferences \subseteq PreferenceIds
  /\ preferring \subseteq ProtocolIds \X preferences
  /\ promoting \in [Promoters -> [protocol : ProtocolIds \cup {NoOne}, from : {"gaps", "preferences"},
                                  step : {"attach", "count", "update"}]]
  /\ deliveries \subseteq ChannelRuns \X ProtocolIds
  /\ DOMAIN outcomes \subseteq deliveries \X OutcomeNames

\* A promoter that counted enough has a protocol with evidence, whatever happened since.
UpdatersHaveEvidence ==
  \A w \in Promoters : promoting[w].step = "update" =>
    \E p \in ProtocolIds : p = promoting[w].protocol /\ IsEvidenced(p)

\* The inductive invariant.
ProtocolsInv == ProtocolTypes /\ UpdatersHaveEvidence /\ PromotionIsEvidenced

\* What no step takes away.
EvidenceGrows == evidence \subseteq evidence' /\ preferring \subseteq preferring'

ActiveStays ==
  \A p \in ProtocolIds : protocol[p].status = "active" => protocol'[p].status = "active"

-----------------------------------------------------------------------------
\* A finite set of two or more has two different elements.
LEMMA TwoOfThem ==
  ASSUME NEW S, IsFiniteSet(S), Cardinality(S) >= 2
  PROVE  \E x, y \in S : x # y
  <1>1. S # {}
    BY FS_EmptySet
  <1>2. PICK x \in S : TRUE
    BY <1>1
  <1>3. S # {x}
    BY FS_Singleton
  <1> QED  BY <1>2, <1>3

\* Counting enough is finding two pieces of evidence.
LEMMA CountedIsEvidenced ==
  ASSUME NEW w \in Promoters, HasEvidence(w)
  PROVE  IsEvidenced(promoting[w].protocol)
  <1> DEFINE p == promoting[w].protocol
  <1>1. CASE promoting[w].from = "gaps"
    <2>1. IsFiniteSet(Observed(p)) /\ Cardinality(Observed(p)) >= 2
      BY <1>1, ProtocolsAssumption, FS_Subset DEF HasEvidence, Observed
    <2>2. PICK g, h \in Observed(p) : g # h
      BY <2>1, TwoOfThem
    <2> QED  BY <2>2 DEF Observed, IsEvidenced
  <1>2. CASE promoting[w].from # "gaps"
    <2>1. IsFiniteSet(Confident(p)) /\ Cardinality(Confident(p)) >= 2
      BY <1>2, ProtocolsAssumption, FS_Subset DEF HasEvidence, Confident
    <2>2. PICK f, h \in Confident(p) : f # h
      BY <2>1, TwoOfThem
    <2>3. "low" \notin {Preferences[f], Preferences[h]}
      BY <2>2 DEF Confident
    <2> QED  BY <2>2, <2>3 DEF Confident, IsEvidenced
  <1> QED  BY <1>1, <1>2

\* Evidence stays evidence.
LEMMA EvidencedStays ==
  ASSUME EvidenceGrows, NEW p, IsEvidenced(p)
  PROVE  IsEvidenced(p)'
  BY DEF EvidenceGrows, IsEvidenced

\* A step that takes nothing away, activates nothing and brings no promoter to its update.
LEMMA ProtocolQuietStep ==
  ASSUME ProtocolsInv, ProtocolTypes', EvidenceGrows, ActiveStays,
         \A p \in ProtocolIds : protocol'[p].status = "active" => protocol[p].status = "active",
         \A w \in Promoters : promoting'[w].step = "update" => promoting'[w] = promoting[w],
         \A d \in deliveries' : protocol[d[2]].status = "active"
  PROVE  ProtocolsInv'
  <1>1. UpdatersHaveEvidence'
    <2> SUFFICES ASSUME NEW w \in Promoters, promoting'[w].step = "update"
                 PROVE  \E p \in ProtocolIds : p = promoting'[w].protocol /\ IsEvidenced(p)'
      BY DEF UpdatersHaveEvidence
    <2>1. promoting'[w] = promoting[w]
      OBVIOUS
    <2>2. PICK p \in ProtocolIds : p = promoting[w].protocol /\ IsEvidenced(p)
      BY <2>1 DEF ProtocolsInv, UpdatersHaveEvidence
    <2>3. IsEvidenced(p)'
      BY <2>2, EvidencedStays
    <2> QED  BY <2>1, <2>2, <2>3
  <1>2. \A p \in ProtocolIds : protocol'[p].status = "active" => IsEvidenced(p)'
    BY EvidencedStays DEF ProtocolsInv, PromotionIsEvidenced
  <1>3. \A d \in deliveries' : protocol'[d[2]].status = "active"
    BY DEF ProtocolTypes, ActiveStays
  <1> QED  BY <1>1, <1>2, <1>3 DEF ProtocolsInv, PromotionIsEvidenced

-----------------------------------------------------------------------------
LEMMA ProposeStep ==
  ASSUME ProtocolsInv, NEW p \in ProtocolIds, Propose(p) PROVE ProtocolsInv'
  <1>1. ProtocolTypes'
    BY DEF ProtocolsInv, ProtocolTypes, Propose, ProtocolStatuses
  <1>2. EvidenceGrows /\ ActiveStays
    BY DEF ProtocolsInv, ProtocolTypes, Propose, EvidenceGrows, ActiveStays
  <1> QED  BY <1>1, <1>2, ProtocolQuietStep DEF ProtocolsInv, ProtocolTypes, Propose, PromotionIsEvidenced

LEMMA AttachEvidenceStep ==
  ASSUME ProtocolsInv, NEW p \in ProtocolIds, NEW g \in GapIds, AttachEvidence(p, g) PROVE ProtocolsInv'
  <1>1. ProtocolTypes'
    BY DEF ProtocolsInv, ProtocolTypes, AttachEvidence
  <1>2. EvidenceGrows /\ ActiveStays
    BY DEF AttachEvidence, EvidenceGrows, ActiveStays
  <1> QED  BY <1>1, <1>2, ProtocolQuietStep DEF ProtocolsInv, AttachEvidence, PromotionIsEvidenced

LEMMA StartPromotionStep ==
  ASSUME ProtocolsInv, NEW w \in Promoters, NEW p \in ProtocolIds, NEW from \in {"gaps", "preferences"},
         StartPromotion(w, p, from)
  PROVE  ProtocolsInv'
  <1>1. ProtocolTypes'
    BY DEF ProtocolsInv, ProtocolTypes, StartPromotion
  <1>2. EvidenceGrows /\ ActiveStays
    BY DEF StartPromotion, EvidenceGrows, ActiveStays
  <1>3. \A v \in Promoters : promoting'[v].step = "update" => promoting'[v] = promoting[v]
    BY DEF ProtocolsInv, ProtocolTypes, StartPromotion
  <1> QED  BY <1>1, <1>2, <1>3, ProtocolQuietStep DEF ProtocolsInv, StartPromotion, PromotionIsEvidenced

LEMMA AttachNamedStep ==
  ASSUME ProtocolsInv, NEW w \in Promoters, NEW gaps \in SUBSET GapIds, NEW named \in SUBSET preferences,
         AttachNamed(w, gaps, named)
  PROVE  ProtocolsInv'
  <1>1. promoting[w].protocol \in ProtocolIds
    BY DEF ProtocolsInv, ProtocolTypes, AttachNamed
  <1>2. ProtocolTypes'
    BY <1>1 DEF ProtocolsInv, ProtocolTypes, AttachNamed
  <1>3. EvidenceGrows /\ ActiveStays
    BY DEF AttachNamed, EvidenceGrows, ActiveStays
  <1>4. \A v \in Promoters : promoting'[v].step = "update" => promoting'[v] = promoting[v]
    BY DEF ProtocolsInv, ProtocolTypes, AttachNamed
  <1> QED  BY <1>2, <1>3, <1>4, ProtocolQuietStep DEF ProtocolsInv, AttachNamed, PromotionIsEvidenced

\* The one step that brings a promoter to its update has counted the evidence.
LEMMA CountEvidenceStep ==
  ASSUME ProtocolsInv, NEW w \in Promoters, CountEvidence(w) PROVE ProtocolsInv'
  <1>1. /\ promoting[w].protocol \in ProtocolIds
        /\ UNCHANGED <<protocol, evidence, preferring, preferences, deliveries, outcomes, promotions>>
    BY DEF ProtocolsInv, ProtocolTypes, CountEvidence
  <1>2. CASE HasEvidence(w)
    <2>1. promoting' = [promoting EXCEPT ![w].step = "update"]
      BY <1>2 DEF CountEvidence
    <2>2. ProtocolTypes'
      BY <1>1, <2>1 DEF ProtocolsInv, ProtocolTypes
    <2>3. \A p : IsEvidenced(p)' <=> IsEvidenced(p)
      BY <1>1 DEF IsEvidenced
    <2>4. IsEvidenced(promoting[w].protocol)
      BY <1>2, CountedIsEvidenced
    <2>5. UpdatersHaveEvidence'
      <3> SUFFICES ASSUME NEW v \in Promoters, promoting'[v].step = "update"
                   PROVE  \E p \in ProtocolIds : p = promoting'[v].protocol /\ IsEvidenced(p)
        BY <2>3 DEF UpdatersHaveEvidence
      <3>1. CASE v = w
        BY <1>1, <2>1, <2>4, <3>1 DEF ProtocolsInv, ProtocolTypes
      <3>2. CASE v # w
        BY <2>1, <3>2 DEF ProtocolsInv, ProtocolTypes, UpdatersHaveEvidence
      <3> QED  BY <3>1, <3>2
    <2> QED  BY <1>1, <2>2, <2>3, <2>5 DEF ProtocolsInv, PromotionIsEvidenced
  <1>3. CASE ~HasEvidence(w)
    <2>1. promoting' = [promoting EXCEPT ![w] = NotPromoting]
      BY <1>3 DEF CountEvidence
    <2>2. ProtocolTypes'
      BY <1>1, <2>1 DEF ProtocolsInv, ProtocolTypes, NotPromoting
    <2>3. EvidenceGrows /\ ActiveStays
      BY <1>1 DEF EvidenceGrows, ActiveStays
    <2>4. \A v \in Promoters : promoting'[v].step = "update" => promoting'[v] = promoting[v]
      BY <2>1 DEF ProtocolsInv, ProtocolTypes, NotPromoting
    <2> QED  BY <1>1, <2>2, <2>3, <2>4, ProtocolQuietStep DEF ProtocolsInv, PromotionIsEvidenced
  <1> QED  BY <1>2, <1>3

\* The update goes by the id alone; the evidence of that id is what was counted.
LEMMA PromoteStep ==
  ASSUME ProtocolsInv, NEW w \in Promoters, Promote(w) PROVE ProtocolsInv'
  <1>1. PICK p \in ProtocolIds : p = promoting[w].protocol /\ IsEvidenced(p)
    BY DEF ProtocolsInv, UpdatersHaveEvidence, Promote
  <1>2. /\ protocol' = [protocol EXCEPT ![p] = [status |-> "active", at |-> promotions + 1]]
        /\ promotions' = promotions + 1
        /\ promoting' = [promoting EXCEPT ![w] = NotPromoting]
        /\ UNCHANGED <<evidence, preferring, preferences, deliveries, outcomes>>
    BY <1>1 DEF Promote
  <1>3. ProtocolTypes'
    BY <1>1, <1>2 DEF ProtocolsInv, ProtocolTypes, NotPromoting, ProtocolStatuses
  <1>4. \A q : IsEvidenced(q)' <=> IsEvidenced(q)
    BY <1>2 DEF IsEvidenced
  <1>5. UpdatersHaveEvidence'
    <2>1. \A v \in Promoters : promoting'[v].step = "update" => promoting'[v] = promoting[v]
      BY <1>2 DEF ProtocolsInv, ProtocolTypes, NotPromoting
    <2>2. \A v \in Promoters : promoting'[v].step = "update" =>
            \E q \in ProtocolIds : q = promoting'[v].protocol /\ IsEvidenced(q)
      BY <2>1 DEF ProtocolsInv, UpdatersHaveEvidence
    <2> QED  BY <1>4, <2>2 DEF UpdatersHaveEvidence
  <1>6. \A q \in ProtocolIds : protocol'[q].status = "active" => IsEvidenced(q)'
    BY <1>1, <1>2, <1>4 DEF ProtocolsInv, ProtocolTypes, PromotionIsEvidenced
  <1>7. \A d \in deliveries' : protocol'[d[2]].status = "active"
    BY <1>1, <1>2 DEF ProtocolsInv, ProtocolTypes, PromotionIsEvidenced
  <1> QED  BY <1>3, <1>5, <1>6, <1>7 DEF ProtocolsInv, PromotionIsEvidenced

LEMMA StopPromotingStep ==
  ASSUME ProtocolsInv, NEW w \in Promoters, StopPromoting(w) PROVE ProtocolsInv'
  <1>1. ProtocolTypes'
    BY DEF ProtocolsInv, ProtocolTypes, StopPromoting, NotPromoting
  <1>2. EvidenceGrows /\ ActiveStays
    BY DEF StopPromoting, EvidenceGrows, ActiveStays
  <1>3. \A v \in Promoters : promoting'[v].step = "update" => promoting'[v] = promoting[v]
    BY DEF ProtocolsInv, ProtocolTypes, StopPromoting, NotPromoting
  <1> QED  BY <1>1, <1>2, <1>3, ProtocolQuietStep DEF ProtocolsInv, StopPromoting, PromotionIsEvidenced

LEMMA ResolveStep ==
  ASSUME ProtocolsInv, NEW run \in ChannelRuns, Resolve(run) PROVE ProtocolsInv'
  <1>1. ProtocolTypes'
    BY DEF ProtocolsInv, ProtocolTypes, Resolve, EarliestActive
  <1>2. EvidenceGrows /\ ActiveStays
    BY DEF Resolve, EvidenceGrows, ActiveStays
  <1>3. \A d \in deliveries' : protocol[d[2]].status = "active"
    BY DEF ProtocolsInv, PromotionIsEvidenced, Resolve, EarliestActive
  <1> QED  BY <1>1, <1>2, <1>3, ProtocolQuietStep DEF Resolve

LEMMA RecordOutcomeStep ==
  ASSUME ProtocolsInv, NEW d \in deliveries, NEW name \in OutcomeNames, NEW came \in Judgements,
         RecordOutcome(d, name, came)
  PROVE  ProtocolsInv'
  <1>1. DOMAIN outcomes' = DOMAIN outcomes \cup {<<d, name>>}
    BY DEF RecordOutcome
  <1>2. ProtocolTypes'
    BY <1>1 DEF ProtocolsInv, ProtocolTypes, RecordOutcome
  <1>3. EvidenceGrows /\ ActiveStays
    BY DEF RecordOutcome, EvidenceGrows, ActiveStays
  <1> QED  BY <1>2, <1>3, ProtocolQuietStep DEF ProtocolsInv, RecordOutcome, PromotionIsEvidenced

\* A derived gate is a candidate only where there was no protocol.
LEMMA DeriveGateStep ==
  ASSUME ProtocolsInv, NEW d \in Derivations, NEW n \in 1 .. 4, DeriveGate(d, n)
  PROVE  ProtocolsInv'
  <1>1. /\ UNCHANGED <<evidence, preferring, promoting, deliveries, outcomes, promotions>>
        /\ preferences \subseteq preferences' /\ preferences' \subseteq PreferenceIds
    BY ProtocolsAssumption DEF ProtocolsInv, ProtocolTypes, DeriveGate
  <1>2. \/ protocol' = protocol
        \/ /\ protocol[d.protocol].status = "none"
           /\ protocol' = [protocol EXCEPT ![d.protocol].status = "candidate"]
    <2>1. CASE n = 4
      <3>1. StatementsOf(d)[4]
        BY <2>1 DEF DeriveGate
      <3> QED  BY <2>1, <3>1 DEF DeriveGate, StatementsOf
    <2>2. CASE n # 4
      BY <2>2 DEF DeriveGate
    <2> QED  BY <2>1, <2>2
  <1>3. d.protocol \in ProtocolIds
    BY ProtocolsAssumption
  <1>4. ProtocolTypes'
    BY <1>1, <1>2, <1>3 DEF ProtocolsInv, ProtocolTypes, ProtocolStatuses
  <1>5. EvidenceGrows /\ ActiveStays
    BY <1>1, <1>2, <1>3 DEF ProtocolsInv, ProtocolTypes, EvidenceGrows, ActiveStays
  <1>6. \A p \in ProtocolIds : protocol'[p].status = "active" => protocol[p].status = "active"
    BY <1>2, <1>3 DEF ProtocolsInv, ProtocolTypes
  <1> QED  BY <1>1, <1>4, <1>5, <1>6, ProtocolQuietStep DEF ProtocolsInv, PromotionIsEvidenced

-----------------------------------------------------------------------------
LEMMA InitProtocolsInv == ProtocolsInit => ProtocolsInv
  <1> SUFFICES ASSUME ProtocolsInit PROVE ProtocolsInv
    OBVIOUS
  <1>1. ProtocolTypes
    BY DEF ProtocolsInit, ProtocolTypes, NotPromoting, ProtocolStatuses
  <1> QED  BY <1>1 DEF ProtocolsInit, ProtocolsInv, UpdatersHaveEvidence, NotPromoting, PromotionIsEvidenced

LEMMA NextProtocolsInv == ProtocolsInv /\ [ProtocolsNext]_protocolVars => ProtocolsInv'
  <1> SUFFICES ASSUME ProtocolsInv, [ProtocolsNext]_protocolVars PROVE ProtocolsInv'
    OBVIOUS
  <1>1. CASE ProtocolsNext
    BY <1>1, ProposeStep, AttachEvidenceStep, StartPromotionStep, AttachNamedStep, CountEvidenceStep,
       PromoteStep, StopPromotingStep, ResolveStep, RecordOutcomeStep, DeriveGateStep DEF ProtocolsNext
  <1>2. CASE UNCHANGED protocolVars
    <2>1. \A p : IsEvidenced(p)' <=> IsEvidenced(p)
      BY <1>2 DEF protocolVars, IsEvidenced
    <2>2. ProtocolTypes'
      BY <1>2 DEF protocolVars, ProtocolsInv, ProtocolTypes
    <2>3. UpdatersHaveEvidence' /\ PromotionIsEvidenced'
      BY <1>2, <2>1 DEF protocolVars, ProtocolsInv, UpdatersHaveEvidence, PromotionIsEvidenced
    <2> QED  BY <2>2, <2>3 DEF ProtocolsInv
  <1> QED  BY <1>1, <1>2

\* The inductive invariant holds in every reachable state.
THEOREM ProtocolsInvariance == Spec => []ProtocolsInv
  <1>1. Init => ProtocolsInv
    BY InitProtocolsInv DEF Init
  <1>2. ProtocolsInv /\ [Next]_vars => ProtocolsInv'
    BY NextProtocolsInv
       DEF Next, vars, OutboxStep, CorpusStep, ProtocolsStep, PromptsStep, GitStep, TelemetryStep, BannerStep
  <1> QED  BY <1>1, <1>2, PTL DEF Spec

\* Whoever promotes a protocol at the same time, fails or dies half-way, it is active
\* and delivered only on evidence of its own (promoteProtocol,
\* promoteProtocolFromPreferences, resolveProtocol).
THEOREM PromotionsAreEvidenced == Spec => []PromotionIsEvidenced
  <1>1. ProtocolsInv => PromotionIsEvidenced
    BY DEF ProtocolsInv
  <1> QED  BY <1>1, ProtocolsInvariance, PTL

-----------------------------------------------------------------------------
(* The outbox.                                                             *)

OutboxTypes ==
  /\ outbox \in Seq(Lines) /\ unwritten \in Seq(Lines)
  /\ createdAt \in [Events -> Nat] /\ clock \in Nat
  /\ cursor \in Nat
  /\ batch \in [Consumers -> [reading : BOOLEAN, events : SUBSET Events, ack : Nat]]
  /\ truncations \in Nat

\* Every event among the first n lines is in the ledger or among the given ones.
Accounted(n, events) ==
  n <= Len(outbox) /\ \A i \in 1 .. n : EventLine(i) => outbox[i].event \in recorded \cup events

\* What a consumer read is still to be recorded by it; what lies before that is recorded.
ReadersAreAccounted ==
  \A c \in Consumers : batch[c].reading => Accounted(batch[c].ack, batch[c].events)

\* The inductive invariant.
OutboxInv ==
  /\ OutboxTypes
  /\ truncations = 0 => Accounted(cursor, {}) /\ ReadersAreAccounted

\* What no step but an emptying takes away.
LedgerGrows == recorded \subseteq recorded'

OutboxGrows ==
  Len(outbox) <= Len(outbox') /\ \A i \in 1 .. Len(outbox) : outbox'[i] = outbox[i]

-----------------------------------------------------------------------------
\* A set of numbers up to n that is not empty has a largest one.
LEMMA MaxOfSome ==
  ASSUME NEW n \in Nat, NEW S \in SUBSET (1 .. n), S # {}
  PROVE  Max(S) \in S /\ \A y \in S : y <= Max(S)
  <1> DEFINE below == {n - x : x \in S}
  <1>1. below \subseteq Nat /\ below # {}
    <2>1. \A x \in S : x \in Int /\ 1 <= x /\ x <= n
      OBVIOUS
    <2>2. \A x \in S : n - x \in Nat
      BY <2>1
    <2> QED  BY <2>2
  <1>2. PICK m \in below : \A k \in below : ~(<<k, m>> \in OpToRel(<, Nat))
    BY <1>1, NatLessThanWellFounded, WFMin
  <1>3. \A k \in below : ~(k < m)
    BY <1>1, <1>2 DEF OpToRel
  <1>4. PICK x \in S : m = n - x
    BY <1>2
  <1>5. \A y \in S : x >= y
    BY <1>3, <1>4
  <1>6. \E z \in S : \A y \in S : z >= y
    BY <1>5
  <1> QED  BY <1>6 DEF Max

\* The lines of a batch have no gap: with a line, the ones between it and the cursor are taken.
LEMMA TakenIsClosed ==
  ASSUME OutboxTypes, NEW i \in Taken, NEW k \in cursor + 1 .. i
  PROVE  k \in Taken
  <1> DEFINE before(l) == {j \in cursor + 1 .. l - 1 : EventLine(j)}
  <1>1. /\ cursor \in Nat /\ i \in cursor + 1 .. Len(outbox) /\ Len(outbox) \in Nat
        /\ Cardinality(before(i)) < Limit
    BY DEF OutboxTypes, Taken
  <1>2. k \in cursor + 1 .. Len(outbox) /\ k <= i /\ k \in Nat /\ i \in Nat
    BY <1>1
  <1>3. IsFiniteSet(before(i))
    <2>1. IsFiniteSet(cursor + 1 .. i - 1)
      BY <1>1, FS_Interval
    <2> QED  BY <2>1, FS_Subset
  <1>4. before(k) \subseteq before(i)
    BY <1>1, <1>2
  <1>5. /\ Cardinality(before(k)) <= Cardinality(before(i))
        /\ Cardinality(before(k)) \in Nat /\ Cardinality(before(i)) \in Nat
    BY <1>3, <1>4, FS_Subset, FS_CardinalityType
  <1>6. Cardinality(before(k)) < Limit
    BY <1>1, <1>5, OutboxAssumption
  <1> QED  BY <1>2, <1>6 DEF Taken

\* What is acknowledged: the events of the batch, and nothing else behind the old cursor.
LEMMA AcknowledgedIsRead ==
  ASSUME OutboxTypes, Len(outbox) >= cursor
  PROVE  /\ Acknowledged \in Nat /\ Acknowledged <= Len(outbox)
         /\ \A i \in cursor + 1 .. Acknowledged : EventLine(i) => outbox[i].event \in EventsOf(Taken)
  <1> DEFINE held == {i \in Taken : EventLine(i)}
  <1>1. cursor \in Nat /\ Len(outbox) \in Nat
    BY DEF OutboxTypes
  <1>2. CASE held = {}
    BY <1>1, <1>2 DEF Acknowledged
  <1>3. CASE held # {}
    <2>1. held \in SUBSET (1 .. Len(outbox))
      BY <1>1 DEF Taken
    <2>2. Max(held) \in held
      BY <1>1, <1>3, <2>1, MaxOfSome
    <2>3. Acknowledged = Max(held)
      BY <1>3 DEF Acknowledged
    <2>4. \A i \in cursor + 1 .. Acknowledged : i \in Taken
      BY <2>2, <2>3, TakenIsClosed
    <2> QED  BY <2>1, <2>2, <2>3, <2>4 DEF EventsOf, EventLine
  <1> QED  BY <1>2, <1>3

\* What is accounted for stays so while the outbox and the ledger grow.
LEMMA AccountedStays ==
  ASSUME OutboxTypes, LedgerGrows, OutboxGrows, Len(outbox') \in Nat,
         NEW n \in Nat, NEW events, Accounted(n, events)
  PROVE  Accounted(n, events)'
  BY DEF OutboxTypes, LedgerGrows, OutboxGrows, Accounted, EventLine

\* The events of a transaction have their rows behind it.
LEMMA RecordAllRecords ==
  ASSUME OutboxTypes, NEW events \in SUBSET Events, RecordAll(events)
  PROVE  /\ createdAt' \in [Events -> Nat] /\ clock' \in Nat
         /\ recorded' = recorded \cup events
  <1>1. PICK now \in {clock, clock + 1} \ {0} :
          /\ createdAt' = [e \in Events |-> IF e \in events \ recorded THEN now ELSE createdAt[e]]
          /\ clock' = IF events \subseteq recorded THEN clock ELSE now
    BY DEF RecordAll
  <1>2. now \in Nat /\ now # 0
    BY <1>1 DEF OutboxTypes
  <1>3. createdAt' \in [Events -> Nat] /\ clock' \in Nat
    BY <1>1, <1>2 DEF OutboxTypes
  <1>4. \A e \in Events : createdAt'[e] # 0 <=> e \in events \/ createdAt[e] # 0
    BY <1>1, <1>2 DEF recorded
  <1> QED  BY <1>3, <1>4 DEF recorded

-----------------------------------------------------------------------------
\* A step that takes nothing away, leaves the cursor and begins no batch.
LEMMA OutboxQuietStep ==
  ASSUME OutboxInv, OutboxTypes', LedgerGrows, OutboxGrows, UNCHANGED <<cursor, truncations>>,
         \A c \in Consumers : batch'[c].reading => batch'[c] = batch[c]
  PROVE  OutboxInv'
  <1> SUFFICES ASSUME truncations' = 0 PROVE Accounted(cursor, {})' /\ ReadersAreAccounted'
    BY DEF OutboxInv
  <1>1. Accounted(cursor, {}) /\ ReadersAreAccounted /\ OutboxTypes /\ Len(outbox') \in Nat
    BY DEF OutboxInv, OutboxTypes
  <1>2. Accounted(cursor, {})'
    <2>1. PICK n \in Nat : n = cursor /\ Accounted(n, {})
      BY <1>1 DEF OutboxTypes
    <2>2. Accounted(n, {})'
      BY <1>1, <2>1, AccountedStays
    <2> QED  BY <2>1, <2>2 DEF Accounted
  <1>3. ReadersAreAccounted'
    <2> SUFFICES ASSUME NEW c \in Consumers, batch'[c].reading
                 PROVE  Accounted(batch[c].ack, batch[c].events)'
      BY DEF ReadersAreAccounted
    <2>1. PICK n \in Nat, events \in SUBSET Events :
            n = batch[c].ack /\ events = batch[c].events /\ Accounted(n, events)
      BY <1>1 DEF ReadersAreAccounted, OutboxTypes
    <2>2. Accounted(n, events)'
      BY <1>1, <2>1, AccountedStays
    <2> QED  BY <2>1, <2>2 DEF Accounted
  <1> QED  BY <1>2, <1>3

LEMMA WriteLineStep == ASSUME OutboxInv, WriteLine PROVE OutboxInv'
  <1>1. unwritten \in Seq(Lines) /\ unwritten # <<>> /\ outbox \in Seq(Lines)
    BY DEF OutboxInv, OutboxTypes, WriteLine
  <1>2. Head(unwritten) \in Lines /\ Tail(unwritten) \in Seq(Lines)
    BY <1>1, HeadTailProperties
  <1>3. /\ outbox' \in Seq(Lines) /\ Len(outbox') = Len(outbox) + 1
        /\ \A i \in 1 .. Len(outbox) : outbox'[i] = outbox[i]
    BY <1>1, <1>2, AppendProperties DEF WriteLine
  <1>4. OutboxTypes'
    BY <1>2, <1>3 DEF OutboxInv, OutboxTypes, WriteLine, ledgerVars, counts
  <1>5. LedgerGrows /\ OutboxGrows
    BY <1>1, <1>3 DEF LedgerGrows, OutboxGrows, recorded, WriteLine, ledgerVars
  <1> QED  BY <1>4, <1>5, OutboxQuietStep DEF WriteLine, counts

LEMMA TruncateStep == ASSUME OutboxInv, Truncate PROVE OutboxInv'
  <1>1. <<>> \in Seq(Lines)
    BY EmptySeq
  <1> QED  BY <1>1 DEF OutboxInv, OutboxTypes, Truncate, ledgerVars

LEMMA PostEventsStep ==
  ASSUME OutboxInv, NEW events \in SUBSET Events, PostEvents(events) PROVE OutboxInv'
  <1>1. createdAt' \in [Events -> Nat] /\ clock' \in Nat /\ recorded' = recorded \cup events
    BY RecordAllRecords DEF OutboxInv, PostEvents
  <1>2. OutboxTypes'
    BY <1>1 DEF OutboxInv, OutboxTypes, PostEvents
  <1>3. LedgerGrows /\ OutboxGrows
    BY <1>1 DEF OutboxInv, OutboxTypes, LedgerGrows, OutboxGrows, PostEvents
  <1> QED  BY <1>2, <1>3, OutboxQuietStep DEF PostEvents

\* What is read is accounted for by the ledger up to the cursor and by the batch behind it.
LEMMA ReadOutboxStep ==
  ASSUME OutboxInv, NEW c \in Consumers, ReadOutbox(c) PROVE OutboxInv'
  <1> DEFINE read == EventsOf(Taken)
             ack == Acknowledged
  <1>1. OutboxTypes /\ Len(outbox) >= cursor
    BY DEF OutboxInv, ReadOutbox
  <1>2. /\ ack \in Nat /\ ack <= Len(outbox)
        /\ \A i \in cursor + 1 .. ack : EventLine(i) => outbox[i].event \in read
    BY <1>1, AcknowledgedIsRead
  <1>3. read \in SUBSET Events
    <2>1. Taken \subseteq 1 .. Len(outbox)
      BY <1>1 DEF OutboxTypes, Taken
    <2>2. \A i \in 1 .. Len(outbox) : outbox[i] \in Lines
      BY <1>1, ElementOfSeq DEF OutboxTypes
    <2>3. \A i \in Taken : outbox[i].event \in Events \cup {0}
      BY <2>1, <2>2 DEF Lines
    <2> QED  BY <2>3 DEF EventsOf
  <1>4. /\ batch' = [batch EXCEPT ![c] = [reading |-> TRUE, events |-> read, ack |-> ack]]
        /\ UNCHANGED <<outbox, unwritten, createdAt, clock, cursor, truncations>>
    BY DEF ReadOutbox, ledgerVars, counts
  <1> HIDE DEF read, ack
  <1>5. OutboxTypes'
    BY <1>1, <1>2, <1>3, <1>4 DEF OutboxTypes
  <1>6. \A n, events : Accounted(n, events)' <=> Accounted(n, events)
    BY <1>4 DEF Accounted, EventLine, recorded
  <1>7. ASSUME truncations = 0 PROVE Accounted(ack, read)
    BY <1>1, <1>2, <1>7 DEF OutboxInv, Accounted, OutboxTypes
  <1>8. ASSUME truncations = 0 PROVE ReadersAreAccounted'
    <2> SUFFICES ASSUME NEW d \in Consumers, batch'[d].reading
                 PROVE  \E n \in Nat, events \in SUBSET Events :
                          n = batch'[d].ack /\ events = batch'[d].events /\ Accounted(n, events)
      BY <1>6 DEF ReadersAreAccounted
    <2>1. CASE d = c
      BY <1>1, <1>2, <1>3, <1>4, <1>7, <1>8, <2>1 DEF OutboxTypes
    <2>2. CASE d # c
      BY <1>1, <1>4, <1>8, <2>2 DEF OutboxInv, OutboxTypes, ReadersAreAccounted
    <2> QED  BY <2>1, <2>2
  <1> QED  BY <1>4, <1>5, <1>6, <1>8 DEF OutboxInv

\* The transaction records the batch before it moves the cursor, and no event of
\* another consumer's batch loses its row.
LEMMA CommitBatchStep ==
  ASSUME OutboxInv, NEW c \in Consumers, CommitBatch(c) PROVE OutboxInv'
  <1>1. PICK n \in Nat, events \in SUBSET Events : n = batch[c].ack /\ events = batch[c].events
    BY DEF OutboxInv, OutboxTypes
  <1>2. createdAt' \in [Events -> Nat] /\ clock' \in Nat /\ recorded' = recorded \cup events
    BY <1>1, RecordAllRecords DEF OutboxInv, CommitBatch
  <1>3. /\ cursor' = n /\ batch' = [batch EXCEPT ![c] = Idle]
        /\ UNCHANGED <<outbox, unwritten, truncations>>
    BY <1>1 DEF CommitBatch, counts
  <1>4. OutboxTypes'
    BY <1>2, <1>3 DEF OutboxInv, OutboxTypes, Idle
  <1>5. ASSUME truncations = 0 PROVE Accounted(cursor, {})'
    <2>1. Accounted(n, events)
      BY <1>1, <1>5 DEF OutboxInv, ReadersAreAccounted, CommitBatch
    <2> QED  BY <1>2, <1>3, <2>1 DEF Accounted, EventLine
  <1>6. ASSUME truncations = 0 PROVE ReadersAreAccounted'
    <2> SUFFICES ASSUME NEW d \in Consumers, batch'[d].reading
                 PROVE  \E m \in Nat, others \in SUBSET Events :
                          m = batch'[d].ack /\ others = batch'[d].events /\ Accounted(m, others)'
      BY DEF ReadersAreAccounted
    <2>1. d # c /\ batch'[d] = batch[d]
      BY <1>3 DEF OutboxInv, OutboxTypes, Idle
    <2>2. PICK m \in Nat, others \in SUBSET Events :
            m = batch[d].ack /\ others = batch[d].events /\ Accounted(m, others)
      BY <1>6, <2>1 DEF OutboxInv, OutboxTypes, ReadersAreAccounted
    <2>3. Accounted(m, others)'
      BY <1>2, <1>3, <2>2 DEF Accounted, EventLine
    <2> QED  BY <2>1, <2>2, <2>3
  <1> QED  BY <1>3, <1>4, <1>5, <1>6 DEF OutboxInv

LEMMA RollBackStep == ASSUME OutboxInv, NEW c \in Consumers, RollBack(c) PROVE OutboxInv'
  <1>1. OutboxTypes'
    BY DEF OutboxInv, OutboxTypes, RollBack, ledgerVars, Idle
  <1>2. LedgerGrows /\ OutboxGrows
    BY DEF OutboxInv, OutboxTypes, LedgerGrows, OutboxGrows, RollBack, ledgerVars, recorded
  <1>3. \A d \in Consumers : batch'[d].reading => batch'[d] = batch[d]
    BY DEF OutboxInv, OutboxTypes, RollBack, Idle
  <1> QED  BY <1>1, <1>2, <1>3, OutboxQuietStep DEF RollBack

-----------------------------------------------------------------------------
LEMMA InitOutboxInv == OutboxInit => OutboxInv
  <1> SUFFICES ASSUME OutboxInit PROVE OutboxInv
    OBVIOUS
  <1>1. <<>> \in Seq(Lines) /\ Len(<<>>) = 0
    BY EmptySeq
  <1>2. OutboxTypes
    BY <1>1, OutboxAssumption DEF OutboxInit, OutboxTypes, Lines, Idle
  <1> QED  BY <1>1, <1>2 DEF OutboxInit, OutboxInv, Accounted, ReadersAreAccounted, Idle

LEMMA NextOutboxInv == OutboxInv /\ [OutboxNext]_outboxVars => OutboxInv'
  <1> SUFFICES ASSUME OutboxInv, [OutboxNext]_outboxVars PROVE OutboxInv'
    OBVIOUS
  <1>1. CASE OutboxNext
    BY <1>1, WriteLineStep, TruncateStep, PostEventsStep, ReadOutboxStep, CommitBatchStep, RollBackStep
       DEF OutboxNext, Consume
  <1>2. CASE UNCHANGED outboxVars
    <2>1. UNCHANGED <<outbox, unwritten, createdAt, clock, cursor, batch, truncations>>
      BY <1>2 DEF outboxVars, ledgerVars, counts
    <2>2. OutboxTypes'
      BY <2>1 DEF OutboxInv, OutboxTypes
    <2>3. LedgerGrows /\ OutboxGrows
      BY <2>1 DEF OutboxInv, OutboxTypes, LedgerGrows, OutboxGrows, recorded
    <2> QED  BY <2>1, <2>2, <2>3, OutboxQuietStep
  <1> QED  BY <1>1, <1>2

\* A step of the corpus leaves the outbox alone, or is one of the outbox, or a fault.
LEMMA CorpusStepOutboxInv ==
  ASSUME OutboxInv, FlowNext PROVE OutboxInv'
  <1>1. CASE SourceStep
    BY <1>1, NextOutboxInv DEF SourceStep
  <1>2. CASE FailImport
    <2>1. UNCHANGED <<outbox, unwritten, createdAt, clock, cursor, batch, truncations>>
      BY <1>2 DEF FailImport, ledgerVars
    <2>2. OutboxTypes'
      BY <2>1 DEF OutboxInv, OutboxTypes
    <2>3. LedgerGrows /\ OutboxGrows
      BY <2>1 DEF OutboxInv, OutboxTypes, LedgerGrows, OutboxGrows, recorded
    <2> QED  BY <2>1, <2>2, <2>3, OutboxQuietStep
  <1>3. CASE UNCHANGED outboxVars
    BY <1>3, NextOutboxInv
  <1> QED
    BY <1>1, <1>2, <1>3 DEF FlowNext, FinishRun, SyncStep, StartSync, ImportRuns, ImportHookEvents, ListRunKeys,
       CompileRun, FinishSync

\* The inductive invariant holds in every reachable state.
THEOREM OutboxInvariance == Spec => []OutboxInv
  <1>1. Init => OutboxInv
    BY InitOutboxInv DEF Init, FlowInit
  <1>2. OutboxInv /\ [Next]_vars => OutboxInv'
    <2> SUFFICES ASSUME OutboxInv, [Next]_vars PROVE OutboxInv'
      OBVIOUS
    <2>1. CASE OutboxStep
      BY <2>1, NextOutboxInv DEF OutboxStep
    <2>2. CASE CorpusStep
      BY <2>2, CorpusStepOutboxInv DEF CorpusStep
    <2>3. CASE UNCHANGED flowVars
      BY <2>3, NextOutboxInv DEF flowVars
    <2> QED
      BY <2>1, <2>2, <2>3 DEF Next, vars, ProtocolsStep, PromptsStep, GitStep, TelemetryStep, BannerStep
  <1> QED  BY <1>1, <1>2, PTL DEF Spec

\* However consumers of one id read, commit and roll back, no event is skipped while
\* the file is not emptied (consumeTelemetryOutbox).
THEOREM NoEventIsSkipped == Spec => []SkippingNeedsTruncation
  <1>1. OutboxInv => SkippingNeedsTruncation
    BY DEF OutboxInv, Accounted, SkippingNeedsTruncation
  <1> QED  BY <1>1, OutboxInvariance, PTL

-----------------------------------------------------------------------------
(* The banner.                                                             *)

Stages == {"idle", "resolve", "render", "look", "claim", "print"}

BannerTypes ==
  /\ DOMAIN hook = Hooks
  /\ hook = [h \in Hooks |-> [at |-> hook[h].at, session |-> hook[h].session, place |-> hook[h].place]]
  /\ \A h \in Hooks : hook[h].at \in Stages /\ hook[h].session \in Sessions \cup {NoSession}
  /\ \A h \in Hooks : hook[h].at \in {"look", "claim"} => hook[h].session \in Sessions
  /\ shown \in [Sessions \cup {NoSession} -> Nat]

UnderWay(h, name) == hook[h].session \in Sessions /\ MarkerName[hook[h].session] = name
AtStage(h, name, stage) == UnderWay(h, name) /\ hook[h].at = stage
Shown(s, name) == s \in Sessions /\ MarkerName[s] = name /\ shown[s] # 0

\* No two hooks of the name are under way.
Alone(name) == \A g, h \in Hooks : UnderWay(g, name) /\ UnderWay(h, name) => g = h

\* A hook about to claim finds nothing claimed, one about to print has claimed, and once
\* the lessons are shown no hook of the name is there to show them again.
ClaimedOnce(name) ==
  /\ \A h \in Hooks : AtStage(h, name, "claim") => name \notin markers
  /\ \A h \in Hooks : AtStage(h, name, "print") => name \in markers
  /\ \A s \in Sessions : Shown(s, name) =>
       /\ name \in markers /\ shown[s] = 1
       /\ \A t \in Sessions : Shown(t, name) => t = s
       /\ \A h \in Hooks : ~AtStage(h, name, "print")

\* A marker was written by a hook that showed the lessons, is about to, or ended with them.
MarkedForReason(name) ==
  name \in markers =>
    name \in uncertain \/ (\E s \in Sessions : Shown(s, name)) \/ (\E h \in Hooks : AtStage(h, name, "print"))

\* The inductive invariant.
BannerInv ==
  /\ BannerTypes
  /\ \A name \in {MarkerName[s] : s \in Sessions} :
       /\ name \notin overlapped => Alone(name)
       /\ name \notin overlapped \cup uncertain => ClaimedOnce(name)
       /\ MarkedForReason(name)

\* What the invariant says of one name.
NameInv(name) ==
  /\ name \notin overlapped => Alone(name)
  /\ name \notin overlapped \cup uncertain => ClaimedOnce(name)
  /\ MarkedForReason(name)

-----------------------------------------------------------------------------
\* A step in which one hook goes on, or stops, and shows and claims nothing.
LEMMA HookMoves ==
  ASSUME BannerInv, BannerTypes', NEW h \in Hooks,
         \A g \in Hooks \ {h} : hook'[g] = hook[g],
         UNCHANGED <<markers, shown, overlapped>>, uncertain \subseteq uncertain',
         hook'[h].session \in {hook[h].session, NoSession},
         hook[h].at = "print" /\ hook[h].session \in Sessions => MarkerName[hook[h].session] \in uncertain',
         \A name : hook'[h].at = "claim" /\ UnderWay(h, name)' => name \notin markers \/ name \in uncertain',
         \A name : hook'[h].at = "print" /\ UnderWay(h, name)' => name \in uncertain'
  PROVE  BannerInv'
  <1> SUFFICES ASSUME NEW name \in {MarkerName[s] : s \in Sessions} PROVE NameInv(name)'
    BY DEF BannerInv, NameInv
  <1>1. NameInv(name) /\ BannerTypes
    BY DEF BannerInv, NameInv
  <1>2. hook'[h].session \in Sessions => hook'[h].session = hook[h].session
    BY BannerAssumption
  <1>3. \A g \in Hooks : UnderWay(g, name)' => UnderWay(g, name)
    BY <1>2 DEF UnderWay
  <1>4. name \notin overlapped' => Alone(name)'
    BY <1>1, <1>3 DEF NameInv, Alone
  <1>5. \A s : Shown(s, name)' <=> Shown(s, name)
    BY DEF Shown
  <1>6. ASSUME name \notin overlapped' \cup uncertain' PROVE ClaimedOnce(name)'
    <2>1. ClaimedOnce(name)
      BY <1>1, <1>6 DEF NameInv
    <2>2. \A g \in Hooks : AtStage(g, name, "claim")' => name \notin markers
      BY <1>6, <2>1 DEF AtStage, UnderWay, ClaimedOnce
    <2>3. \A g \in Hooks : AtStage(g, name, "print")' => AtStage(g, name, "print")
      BY <1>6 DEF AtStage, UnderWay
    <2> QED  BY <1>5, <2>1, <2>2, <2>3 DEF ClaimedOnce
  <1>7. MarkedForReason(name)'
    <2>1. \A g \in Hooks : AtStage(g, name, "print") => AtStage(g, name, "print")' \/ name \in uncertain'
      BY DEF AtStage, UnderWay
    <2> QED  BY <1>1, <1>5, <2>1 DEF NameInv, MarkedForReason
  <1> QED  BY <1>4, <1>6, <1>7 DEF NameInv

\* A step that leaves the hooks and what they show and claim alone.
LEMMA OtherStep ==
  ASSUME BannerInv, UNCHANGED <<hook, markers, shown, overlapped, uncertain>>
  PROVE  BannerInv'
  <1>1. BannerTypes'
    BY DEF BannerInv, BannerTypes
  <1>2. \A name : Alone(name)' <=> Alone(name)
    BY DEF Alone, UnderWay
  <1>3. \A name : ClaimedOnce(name)' <=> ClaimedOnce(name)
    BY DEF ClaimedOnce, AtStage, UnderWay, Shown
  <1>4. \A name : MarkedForReason(name)' <=> MarkedForReason(name)
    BY DEF MarkedForReason, AtStage, UnderWay, Shown
  <1> QED  BY <1>1, <1>2, <1>3, <1>4 DEF BannerInv

-----------------------------------------------------------------------------
LEMMA StartHookStep ==
  ASSUME BannerInv, NEW h \in Hooks, NEW s \in Sessions \cup {NoSession}, StartHook(h, s)
  PROVE  BannerInv'
  <1>1. /\ hook[h].at = "idle"
        /\ hook' = [hook EXCEPT ![h] = [at |-> "resolve", session |-> s, place |-> 0]]
        /\ UNCHANGED <<markers, shown, uncertain>>
        /\ overlapped' = IF s # NoSession /\ MarkerName[s] \in NamesUnderWay
                         THEN overlapped \cup {MarkerName[s]} ELSE overlapped
    BY DEF StartHook
  <1>2. BannerTypes /\ BannerTypes'
    BY <1>1 DEF BannerInv, BannerTypes, Stages
  <1> SUFFICES ASSUME NEW name \in {MarkerName[t] : t \in Sessions} PROVE NameInv(name)'
    BY <1>2 DEF BannerInv, NameInv
  <1>3. NameInv(name)
    BY DEF BannerInv, NameInv
  <1>4. \A g \in Hooks \ {h} : hook'[g] = hook[g]
    BY <1>1, <1>2 DEF BannerTypes
  <1>5. hook'[h].at = "resolve" /\ hook'[h].session = s
    BY <1>1, <1>2 DEF BannerTypes
  <1>6. ASSUME name \notin overlapped' PROVE Alone(name)'
    <2>1. Alone(name)
      BY <1>1, <1>3, <1>6 DEF NameInv
    <2>2. CASE s # NoSession /\ MarkerName[s] = name
      <3>1. name \notin NamesUnderWay
        BY <1>1, <1>6, <2>2
      <3>2. \A g \in Hooks : ~UnderWay(g, name)
        BY <3>1, BannerAssumption DEF NamesUnderWay, UnderWay
      <3> QED  BY <1>4, <3>2 DEF Alone, UnderWay
    <2>3. CASE ~(s # NoSession /\ MarkerName[s] = name)
      <3>1. ~UnderWay(h, name)'
        BY <1>5, <2>3, BannerAssumption DEF UnderWay
      <3> QED  BY <1>4, <2>1, <3>1 DEF Alone, UnderWay
    <2> QED  BY <2>2, <2>3
  <1>7. \A g \in Hooks, stage \in {"claim", "print"} : AtStage(g, name, stage)' <=> AtStage(g, name, stage)
    BY <1>1, <1>4, <1>5 DEF AtStage, UnderWay
  <1>8. \A t : Shown(t, name)' <=> Shown(t, name)
    BY <1>1 DEF Shown
  <1>9. ASSUME name \notin overlapped' \cup uncertain' PROVE ClaimedOnce(name)'
    BY <1>1, <1>3, <1>7, <1>8, <1>9 DEF NameInv, ClaimedOnce
  <1>10. MarkedForReason(name)'
    BY <1>1, <1>3, <1>7, <1>8 DEF NameInv, MarkedForReason
  <1> QED  BY <1>6, <1>9, <1>10 DEF NameInv

LEMMA ResolveStoreStep == ASSUME BannerInv, NEW h \in Hooks, ResolveStore(h) PROVE BannerInv'
  <1> DEFINE next == IF FirstStore = 0 THEN IdleHook ELSE [hook[h] EXCEPT !.at = "render", !.place = FirstStore]
  <1>1. /\ hook[h].at = "resolve" /\ UNCHANGED <<markers, shown, overlapped, uncertain>>
        /\ hook' = [hook EXCEPT ![h] = next]
    BY DEF ResolveStore
  <1>2. /\ next.at \in {"idle", "render"} /\ next.session \in {hook[h].session, NoSession}
        /\ next = [at |-> next.at, session |-> next.session, place |-> next.place]
    <2> HIDE DEF FirstStore
    <2>1. hook[h] = [at |-> hook[h].at, session |-> hook[h].session, place |-> hook[h].place]
      BY DEF BannerInv, BannerTypes
    <2> QED  BY <2>1 DEF IdleHook
  <1> HIDE DEF next
  <1>3. BannerTypes' /\ hook'[h] = next /\ \A g \in Hooks \ {h} : hook'[g] = hook[g]
    BY <1>1, <1>2 DEF BannerInv, BannerTypes, Stages
  <1> QED  BY <1>1, <1>2, <1>3, HookMoves

\* A hook without a session prints unclaimed; one with a session looks for the marker first.
LEMMA RenderStep == ASSUME BannerInv, NEW h \in Hooks, Render(h) PROVE BannerInv'
  <1> DEFINE next == IF store[hook[h].place] # "stocked" THEN IdleHook
                     ELSE [hook[h] EXCEPT !.at = IF hook[h].session = NoSession THEN "print" ELSE "look"]
  <1>1. /\ hook[h].at = "render" /\ UNCHANGED <<markers, shown, overlapped, uncertain>>
        /\ hook' = [hook EXCEPT ![h] = next]
    BY DEF Render
  <1>2. /\ next.at \in {"idle", "print", "look"} /\ next.session \in {hook[h].session, NoSession}
        /\ next.at = "print" => next.session = NoSession
        /\ next.at = "look" => next.session \in Sessions
        /\ next = [at |-> next.at, session |-> next.session, place |-> next.place]
    BY DEF BannerInv, BannerTypes, IdleHook
  <1> HIDE DEF next
  <1>3. BannerTypes' /\ hook'[h] = next /\ \A g \in Hooks \ {h} : hook'[g] = hook[g]
    BY <1>1, <1>2 DEF BannerInv, BannerTypes, Stages
  <1>4. \A name : hook'[h].at = "print" => ~UnderWay(h, name)'
    BY <1>2, <1>3, BannerAssumption DEF UnderWay
  <1> QED  BY <1>1, <1>2, <1>3, <1>4, HookMoves

LEMMA LookForMarkerStep == ASSUME BannerInv, NEW h \in Hooks, LookForMarker(h) PROVE BannerInv'
  <1> DEFINE mine == MarkerName[hook[h].session]
             next == IF usable /\ mine \in markers THEN IdleHook
                     ELSE [hook[h] EXCEPT !.at = IF usable THEN "claim" ELSE "print"]
  <1>1. /\ hook[h].at = "look" /\ UNCHANGED <<markers, shown, overlapped>>
        /\ hook' = [hook EXCEPT ![h] = next]
        /\ uncertain' = IF usable THEN uncertain ELSE uncertain \cup {mine}
    BY DEF LookForMarker
  <1>2. /\ next.at \in {"idle", "claim", "print"} /\ next.session \in {hook[h].session, NoSession}
        /\ next.at # "idle" => next.session = hook[h].session /\ next.session \in Sessions
        /\ next.at = "claim" => usable /\ mine \notin markers
        /\ next.at = "print" => ~usable
        /\ next = [at |-> next.at, session |-> next.session, place |-> next.place]
    BY <1>1 DEF BannerInv, BannerTypes, IdleHook
  <1> HIDE DEF next
  <1>3. BannerTypes' /\ hook'[h] = next /\ \A g \in Hooks \ {h} : hook'[g] = hook[g]
    BY <1>1, <1>2 DEF BannerInv, BannerTypes, Stages
  <1>4. \A name : hook'[h].at = "claim" /\ UnderWay(h, name)' => name \notin markers
    BY <1>2, <1>3 DEF UnderWay
  <1>5. \A name : hook'[h].at = "print" /\ UnderWay(h, name)' => name \in uncertain'
    BY <1>1, <1>2, <1>3 DEF UnderWay
  <1> QED  BY <1>1, <1>2, <1>3, <1>4, <1>5, HookMoves

\* Where the name is certain, no other hook of it is under way and nothing was shown.
LEMMA WriteMarkerStep == ASSUME BannerInv, NEW h \in Hooks, WriteMarker(h) PROVE BannerInv'
  <1> DEFINE mine == MarkerName[hook[h].session]
  <1>1. /\ hook[h].at = "claim" /\ UNCHANGED <<shown, overlapped>>
        /\ hook' = [hook EXCEPT ![h].at = "print"]
        /\ markers' = IF usable THEN markers \cup {mine} ELSE markers
        /\ uncertain' = IF usable THEN uncertain ELSE uncertain \cup {mine}
    BY DEF WriteMarker
  <1>2. BannerTypes /\ BannerTypes'
    BY <1>1 DEF BannerInv, BannerTypes, Stages
  <1>3. /\ hook'[h].at = "print" /\ hook'[h].session = hook[h].session /\ hook[h].session \in Sessions
        /\ \A g \in Hooks \ {h} : hook'[g] = hook[g]
    BY <1>1, <1>2 DEF BannerTypes
  <1> SUFFICES ASSUME NEW name \in {MarkerName[t] : t \in Sessions} PROVE NameInv(name)'
    BY <1>2 DEF BannerInv, NameInv
  <1>4. NameInv(name)
    BY DEF BannerInv, NameInv
  <1>5. \A g \in Hooks : UnderWay(g, name)' <=> UnderWay(g, name)
    BY <1>3 DEF UnderWay
  <1>6. \A t : Shown(t, name)' <=> Shown(t, name)
    BY <1>1 DEF Shown
  <1>7. name \notin overlapped' => Alone(name)'
    BY <1>1, <1>4, <1>5 DEF NameInv, Alone
  <1>8. ASSUME name \notin overlapped' \cup uncertain' PROVE ClaimedOnce(name)'
    <2>1. ClaimedOnce(name) /\ Alone(name)
      BY <1>1, <1>4, <1>8 DEF NameInv
    <2>2. CASE mine # name
      <3>1. \A g \in Hooks, stage \in {"claim", "print"} : AtStage(g, name, stage)' <=> AtStage(g, name, stage)
        BY <1>3, <2>2 DEF AtStage, UnderWay
      <3>2. name \in markers' <=> name \in markers
        BY <1>1, <2>2
      <3> QED  BY <1>1, <1>6, <2>1, <3>1, <3>2 DEF ClaimedOnce
    <2>3. CASE mine = name
      <3>1. AtStage(h, name, "claim") /\ name \notin markers /\ name \in markers'
        BY <1>1, <1>3, <1>8, <2>1, <2>3 DEF AtStage, UnderWay, ClaimedOnce
      <3>2. \A g \in Hooks : ~AtStage(g, name, "claim")'
        BY <1>3, <1>5, <2>1, <3>1 DEF Alone, AtStage
      <3>3. \A s \in Sessions : ~Shown(s, name)
        BY <2>1, <3>1 DEF ClaimedOnce
      <3> QED  BY <1>6, <3>1, <3>2, <3>3 DEF ClaimedOnce
    <2> QED  BY <2>2, <2>3
  <1>9. MarkedForReason(name)'
    <2>1. \A g \in Hooks : AtStage(g, name, "print") => AtStage(g, name, "print")'
      BY <1>1, <1>3 DEF AtStage, UnderWay
    <2>2. CASE name \in markers
      BY <1>1, <1>4, <1>6, <2>1, <2>2 DEF NameInv, MarkedForReason
    <2>3. CASE name \notin markers /\ name \in markers'
      <3>1. AtStage(h, name, "print")'
        BY <1>1, <1>3, <2>3 DEF AtStage, UnderWay
      <3> QED  BY <3>1 DEF MarkedForReason
    <2> QED  BY <2>2, <2>3 DEF MarkedForReason
  <1> QED  BY <1>7, <1>8, <1>9 DEF NameInv

LEMMA PrintLessonsStep == ASSUME BannerInv, NEW h \in Hooks, PrintLessons(h) PROVE BannerInv'
  <1>0. PICK s \in Sessions \cup {NoSession} : s = hook[h].session
    BY DEF BannerInv, BannerTypes
  <1>1. /\ hook[h].at = "print" /\ UNCHANGED <<markers, overlapped, uncertain>>
        /\ shown' = [shown EXCEPT ![s] = @ + 1]
        /\ hook' = [hook EXCEPT ![h] = IdleHook]
    BY <1>0 DEF PrintLessons
  <1>2. BannerTypes /\ BannerTypes'
    BY <1>1 DEF BannerInv, BannerTypes, Stages, IdleHook
  <1>3. /\ hook'[h].at = "idle" /\ hook'[h].session = NoSession
        /\ \A g \in Hooks \ {h} : hook'[g] = hook[g]
    BY <1>1, <1>2 DEF BannerTypes, IdleHook
  <1>4. /\ shown'[s] = shown[s] + 1 /\ shown[s] \in Nat
        /\ \A t \in Sessions : t # s => shown'[t] = shown[t]
    BY <1>1, <1>2, <1>3 DEF BannerTypes
  <1> SUFFICES ASSUME NEW name \in {MarkerName[t] : t \in Sessions} PROVE NameInv(name)'
    BY <1>2 DEF BannerInv, NameInv
  <1>5. NameInv(name)
    BY DEF BannerInv, NameInv
  <1>6. ~UnderWay(h, name)' /\ \A g \in Hooks \ {h} : UnderWay(g, name)' <=> UnderWay(g, name)
    BY <1>3, BannerAssumption DEF UnderWay
  <1>7. name \notin overlapped' => Alone(name)'
    BY <1>1, <1>5, <1>6 DEF NameInv, Alone
  <1>8. \A g \in Hooks, stage \in {"claim", "print"} : AtStage(g, name, stage)' => AtStage(g, name, stage) /\ g # h
    BY <1>3, <1>6 DEF AtStage, UnderWay
  <1>9. CASE UnderWay(h, name)
    <2>1. s \in Sessions /\ MarkerName[s] = name
      BY <1>0, <1>9 DEF UnderWay
    <2>2. Shown(s, name)'
      BY <1>4, <2>1 DEF Shown
    <2>3. ASSUME name \notin overlapped' \cup uncertain' PROVE ClaimedOnce(name)'
      <3>1. ClaimedOnce(name) /\ Alone(name) /\ AtStage(h, name, "print")
        BY <1>1, <1>5, <1>9, <2>3 DEF NameInv, AtStage
      <3>2. name \in markers /\ \A t \in Sessions : ~Shown(t, name)
        BY <3>1 DEF ClaimedOnce
      <3>3. shown[s] = 0
        BY <2>1, <3>2 DEF Shown
      <3>4. shown'[s] = 1 /\ \A t \in Sessions : Shown(t, name)' => t = s
        BY <1>4, <3>2, <3>3 DEF Shown
      <3>5. \A g \in Hooks : ~AtStage(g, name, "print")' /\ ~AtStage(g, name, "claim")'
        BY <1>8, <1>9, <3>1 DEF Alone, AtStage
      <3> QED  BY <1>1, <3>2, <3>4, <3>5 DEF ClaimedOnce
    <2> QED  BY <1>7, <2>1, <2>2, <2>3 DEF NameInv, MarkedForReason
  <1>10. CASE ~UnderWay(h, name)
    <2>1. \A t \in Sessions : Shown(t, name)' <=> Shown(t, name)
      BY <1>0, <1>4, <1>10 DEF Shown, UnderWay
    <2>2. \A t \in Sessions : Shown(t, name) => shown'[t] = shown[t]
      BY <1>0, <1>4, <1>10 DEF Shown, UnderWay
    <2>3. \A g \in Hooks, stage \in {"claim", "print"} : AtStage(g, name, stage)' <=> AtStage(g, name, stage)
      BY <1>3, <1>6, <1>10 DEF AtStage
    <2>4. name \notin overlapped' \cup uncertain' => ClaimedOnce(name)'
      BY <1>1, <1>5, <2>1, <2>2, <2>3 DEF NameInv, ClaimedOnce
    <2>5. MarkedForReason(name)'
      BY <1>1, <1>5, <2>1, <2>3 DEF NameInv, MarkedForReason
    <2> QED  BY <1>7, <2>4, <2>5 DEF NameInv
  <1> QED  BY <1>9, <1>10

LEMMA EndHookEarlyStep == ASSUME BannerInv, NEW h \in Hooks, EndHookEarly(h) PROVE BannerInv'
  <1>1. /\ hook' = [hook EXCEPT ![h] = IdleHook] /\ UNCHANGED <<markers, shown, overlapped>>
        /\ uncertain' = IF hook[h].at = "print" /\ hook[h].session # NoSession
                        THEN uncertain \cup {MarkerName[hook[h].session]} ELSE uncertain
    BY DEF EndHookEarly
  <1>2. /\ BannerTypes' /\ hook'[h] = IdleHook /\ \A g \in Hooks \ {h} : hook'[g] = hook[g]
    BY <1>1 DEF BannerInv, BannerTypes, Stages, IdleHook
  <1>3. hook'[h].at = "idle" /\ hook'[h].session = NoSession
    BY <1>2 DEF IdleHook
  <1> QED  BY <1>1, <1>2, <1>3, HookMoves, BannerAssumption

-----------------------------------------------------------------------------
LEMMA InitBannerInv == BannerInit => BannerInv
  BY BannerAssumption DEF BannerInit, BannerInv, BannerTypes, Stages, IdleHook, Alone, ClaimedOnce,
     MarkedForReason, AtStage, UnderWay, Shown

LEMMA NextBannerInv == BannerInv /\ [BannerNext]_bannerVars => BannerInv'
  <1> SUFFICES ASSUME BannerInv, [BannerNext]_bannerVars PROVE BannerInv'
    OBVIOUS
  <1>1. CASE LoseMarkerDirectory \/ (\E place \in DOMAIN store, content \in StoreStates : ChangeStore(place, content))
    <2>1. UNCHANGED <<hook, markers, shown, overlapped, uncertain>>
      BY <1>1 DEF LoseMarkerDirectory, ChangeStore
    <2> QED  BY <2>1, OtherStep
  <1>2. CASE UNCHANGED bannerVars
    <2>1. UNCHANGED <<hook, markers, shown, overlapped, uncertain>>
      BY <1>2 DEF bannerVars
    <2> QED  BY <2>1, OtherStep
  <1> QED  BY <1>1, <1>2, StartHookStep, ResolveStoreStep, RenderStep, LookForMarkerStep, WriteMarkerStep,
              PrintLessonsStep, EndHookEarlyStep DEF BannerNext

\* The inductive invariant holds in every reachable state.
THEOREM BannerInvariance == Spec => []BannerInv
  <1>1. Init => BannerInv
    BY InitBannerInv DEF Init
  <1>2. BannerInv /\ [Next]_vars => BannerInv'
    BY NextBannerInv
       DEF Next, vars, OutboxStep, CorpusStep, ProtocolsStep, PromptsStep, GitStep, TelemetryStep, BannerStep
  <1> QED  BY <1>1, <1>2, PTL DEF Spec

\* Sessions of one marker name are shown lessons once between them, unless hooks of the
\* name overlapped or a marker could not be written, and a marker is there for a reason
\* (claimSessionBanner).
THEOREM BannersAreShownOnce == Spec => []BannerIsShownOnce
  <1>1. ASSUME BannerInv, NEW name \in {MarkerName[s] : s \in Sessions}
        PROVE  /\ Cardinality(ShownAs(name)) > 1 => name \in overlapped \cup uncertain
               /\ ShownAs(name) = {} => \A s \in Sessions : ~Shown(s, name)
    <2>1. \A s \in Sessions : shown[s] \in Nat
      BY <1>1 DEF BannerInv, BannerTypes
    <2>2. \A p \in ShownAs(name) : \E s \in Sessions : Shown(s, name) /\ p \in {s} \X (1 .. shown[s])
      BY <2>1 DEF ShownAs, Shown
    <2>3. ASSUME name \notin overlapped \cup uncertain PROVE ~(Cardinality(ShownAs(name)) > 1)
      <3>1. ClaimedOnce(name)
        BY <1>1, <2>3 DEF BannerInv
      <3>2. CASE ShownAs(name) = {}
        BY <3>2, FS_EmptySet
      <3>3. CASE ShownAs(name) # {}
        <4>1. PICK s \in Sessions : Shown(s, name)
          BY <2>2, <3>3
        <4>2. \A t \in Sessions : Shown(t, name) => t = s /\ shown[t] = 1
          BY <3>1, <4>1 DEF ClaimedOnce
        <4>3. ShownAs(name) \subseteq {<<s, 1>>}
          BY <2>2, <4>2
        <4>4. IsFiniteSet({<<s, 1>>}) /\ Cardinality({<<s, 1>>}) = 1
          BY FS_Singleton
        <4>5. Cardinality(ShownAs(name)) <= 1 /\ Cardinality(ShownAs(name)) \in Nat
          BY <4>3, <4>4, FS_Subset, FS_CardinalityType
        <4> QED  BY <4>5
      <3> QED  BY <3>2, <3>3
    <2>4. \A s \in Sessions : Shown(s, name) => <<s, 1>> \in ShownAs(name)
      <3> SUFFICES ASSUME NEW s \in Sessions, Shown(s, name) PROVE <<s, 1>> \in ShownAs(name)
        OBVIOUS
      <3>1. 1 \in 1 .. shown[s]
        BY <2>1 DEF Shown
      <3>2. s \in {t \in Sessions : MarkerName[t] = name} /\ <<s, 1>> \in {s} \X (1 .. shown[s])
        BY <3>1 DEF Shown
      <3> QED  BY <3>2 DEF ShownAs
    <2> QED  BY <2>3, <2>4
  <1>2. BannerInv => BannerIsShownOnce
    <2> SUFFICES ASSUME BannerInv, NEW name \in {MarkerName[s] : s \in Sessions}, name \in markers,
                        ShownAs(name) = {}, name \notin uncertain
                 PROVE  \E h \in Hooks : /\ hook[h].at = "print" /\ hook[h].session # NoSession
                                         /\ MarkerName[hook[h].session] = name
      BY <1>1 DEF BannerIsShownOnce
    <2>1. MarkedForReason(name)
      BY DEF BannerInv
    <2>2. PICK h \in Hooks : AtStage(h, name, "print")
      BY <1>1, <2>1 DEF MarkedForReason
    <2> QED  BY <2>2, BannerAssumption DEF AtStage, UnderWay
  <1> QED  BY <1>2, BannerInvariance, PTL

-----------------------------------------------------------------------------
(* The history of a git repository.                                        *)

Works == [at : {"rest", "batch", "commits", "rows"}, corpus : Sources, batch : Nat, todo : Seq(DOMAIN Changed)]

SourceTypes ==
  /\ gitBatches = [c \in Sources |-> gitBatches[c]]
  /\ gitRows = [c \in Sources |-> gitRows[c]]
  /\ importer \in [Importers -> Works]
  /\ gitClock \in Nat

PoolTypes ==
  /\ collect \in [source : 0 .. Len(Corpora), table : 0 .. Len(CopyOrder)]
  /\ collect.source # 0 => collect.table # 0
  /\ undisturbed \in BOOLEAN

Owns(i, c, b) == importer[i].at \in {"commits", "rows"} /\ importer[i].corpus = c /\ importer[i].batch = b

\* A batch is the work of one import at most, and not completed while it is.
OwnedOnce ==
  \A i \in Importers, c \in Sources : \A b \in Nat :
    Owns(i, c, b) =>
      /\ b \in DOMAIN gitBatches[c] /\ gitBatches[c][b] # "completed"
      /\ \A j \in Importers : Owns(j, c, b) => j = i

\* The import that inserts the rows of a commit has inserted its own row.
BelowItsCommit(i) ==
  LET row == CommitRow(Head(importer[i].todo))
      c == importer[i].corpus
  IN /\ importer[i].todo # <<>>
     /\ row \in DOMAIN gitRows[c] /\ gitRows[c][row] = importer[i].batch

InsertersHaveCommit == \A i \in Importers : importer[i].at = "rows" => BelowItsCommit(i)

RowsFollowCommit ==
  \A c \in Sources : \A row \in DOMAIN gitRows[c] :
    /\ row \in RowsOf(row.commit)
    /\ CommitRow(row.commit) \in DOMAIN gitRows[c]
    /\ gitRows[c][row] = gitRows[c][CommitRow(row.commit)]
    /\ gitRows[c][row] \in DOMAIN gitBatches[c] /\ gitRows[c][row] \in Nat

\* A commit is whole, or an import is at its rows, or the import it was cut off
\* from did not complete and never will.
IsSettled(c, commit, b) ==
  \/ IsWhole(gitRows[c], commit)
  \/ \E i \in Importers : Owns(i, c, b) /\ importer[i].at = "rows" /\ Head(importer[i].todo) = commit
  \/ gitBatches[c][b] # "completed" /\ \A i \in Importers : ~Owns(i, c, b)

CommitsAreSettled ==
  \A c \in Sources : \A row \in DOMAIN gitRows[c] : IsSettled(c, row.commit, gitRows[c][row])

PoolIsOfCorpora == \A row \in DOMAIN poolRows : \E c \in Sources : row \in DOMAIN gitRows[c]

\* The collection has passed the table of the row in the k-th corpus.
IsPassed(k, row) ==
  \/ collect.source = 0 \/ k < collect.source
  \/ k = collect.source /\ \E t \in 1 .. collect.table - 1 : CopyOrder[t] = row.table

PassedIsInPool ==
  undisturbed =>
    \A k \in 1 .. Len(Corpora) : \A row \in DOMAIN gitRows[Corpora[k]] : IsPassed(k, row) => row \in DOMAIN poolRows

SourcesInv == OwnedOnce /\ InsertersHaveCommit /\ RowsFollowCommit /\ CommitsAreSettled

\* The inductive invariant.
GitInv == SourceTypes /\ PoolTypes /\ SourcesInv /\ PoolIsOfCorpora /\ PassedIsInPool

-----------------------------------------------------------------------------
\* What a row says is of its commit, at every place.
LEMMA RowAtPlace ==
  ASSUME NEW commit, NEW p
  PROVE  RowAt(commit, p).commit = commit /\ RowAt(commit, p).table \in {"files", "hunks", "tokens"}
  <1>1. CASE p[3] = 0
    BY <1>1 DEF RowAt
  <1>2. CASE p[3] # 0
    BY <1>2 DEF RowAt
  <1> QED  BY <1>1, <1>2

LEMMA RowsAreOfCommit ==
  /\ \A commit, row : row \in RowsOf(commit) =>
       row.commit = commit /\ row.table \in {"commits", "files", "hunks", "tokens"}
  /\ \A commit, other : CommitRow(commit) = CommitRow(other) => commit = other
  /\ \A commit : CommitRow(commit) \in RowsOf(commit) /\ CommitRow(commit).commit = commit
  <1>1. \A commit : CommitRow(commit).commit = commit /\ CommitRow(commit).table = "commits"
    BY DEF CommitRow
  <1>2. \A commit : CommitRow(commit) \in RowsOf(commit)
    BY DEF RowsOf
  <1>3. \A commit, row : row \in RowsOf(commit) => row = CommitRow(commit) \/ \E p : row = RowAt(commit, p)
    BY DEF RowsOf, RowsBelow
  <1> QED  BY <1>1, <1>2, <1>3, RowAtPlace

\* What a change of one batch's status leaves.
LEMMA BatchSet ==
  ASSUME SourceTypes, NEW c \in Sources, NEW b, NEW status, SetBatch(c, b, status)
  PROVE  /\ gitBatches' = [d \in Sources |-> gitBatches'[d]]
         /\ DOMAIN gitBatches'[c] = DOMAIN gitBatches[c] \cup {b}
         /\ gitBatches'[c][b] = status
         /\ \A k \in DOMAIN gitBatches[c] : k # b => gitBatches'[c][k] = gitBatches[c][k]
         /\ \A d \in Sources : d # c => gitBatches'[d] = gitBatches[d]
  <1> DEFINE batches == Merged([k \in {b} |-> status], gitBatches[c])
  <1>1. /\ DOMAIN batches = DOMAIN gitBatches[c] \cup {b}
        /\ batches[b] = status
        /\ \A k \in DOMAIN gitBatches[c] : k # b => batches[k] = gitBatches[c][k]
    BY DEF Merged
  <1>2. gitBatches' = [gitBatches EXCEPT ![c] = batches]
    BY DEF SetBatch
  <1> HIDE DEF batches
  <1>3. gitBatches' = [d \in Sources |-> IF d = c THEN batches ELSE gitBatches[d]]
    BY <1>2 DEF SourceTypes
  <1> QED  BY <1>1, <1>3

LEMMA SourceStates ==
  ASSUME SourceTypes, NEW i \in Importers
  PROVE  importer[i] \in Works
  BY DEF SourceTypes

LEMMA Proceeded ==
  ASSUME SourceTypes, NEW i \in Importers, NEW at, NEW left, Proceed(i, at, left)
  PROVE  /\ importer' = [j \in Importers |-> IF j = i THEN importer'[i] ELSE importer[j]]
         /\ importer'[i] = [at |-> at, corpus |-> importer[i].corpus, batch |-> importer[i].batch, todo |-> left]
  <1>1. importer[i] \in Works
    BY DEF SourceTypes
  <1> DEFINE moved == [importer[i] EXCEPT !.at = at]
  <1> DEFINE next == [moved EXCEPT !.todo = left]
  <1>2. moved = [at |-> at, corpus |-> importer[i].corpus, batch |-> importer[i].batch, todo |-> importer[i].todo]
    BY <1>1 DEF Works
  <1>3. importer' = [importer EXCEPT ![i] = next]
    BY <1>1 DEF Proceed, SourceTypes, Works
  <1> HIDE DEF moved
  <1>4. next = [at |-> at, corpus |-> importer[i].corpus, batch |-> importer[i].batch, todo |-> left]
    BY <1>2
  <1> HIDE DEF next
  <1> QED  BY <1>3, <1>4 DEF SourceTypes

\* The work of one import changes.
Moves(i) == importer' = [j \in Importers |-> IF j = i THEN importer'[i] ELSE importer[j]] /\ importer'[i] \in Works

\* No batch is forgotten, and none completes.
NothingCompletes ==
  \A c \in Sources : \A b \in DOMAIN gitBatches[c] :
    b \in DOMAIN gitBatches'[c] /\ (gitBatches'[c][b] = "completed" => gitBatches[c][b] = "completed")

LEMMA OthersOwn ==
  ASSUME SourceTypes, NEW i \in Importers, Moves(i), NEW j \in Importers, j # i
  PROVE  importer'[j] = importer[j] /\ \A c, b : Owns(j, c, b)' <=> Owns(j, c, b)
  BY DEF Moves, Owns

\* An import that owns nothing afterwards leaves its batch as it is.
LEMMA LeavingStep ==
  ASSUME SourceTypes, SourcesInv, NEW i \in Importers, Moves(i), importer'[i].at \in {"rest", "batch"},
         gitRows' = gitRows, NothingCompletes
  PROVE  SourcesInv'
  <1>1. \A c, b : ~Owns(i, c, b)'
    BY DEF Owns
  <1>2. OwnedOnce'
    <2> SUFFICES ASSUME NEW j \in Importers, NEW c \in Sources, NEW b \in Nat, Owns(j, c, b)'
                 PROVE  /\ b \in DOMAIN gitBatches'[c] /\ gitBatches'[c][b] # "completed"
                        /\ \A k \in Importers : Owns(k, c, b)' => k = j
      BY DEF OwnedOnce
    <2>1. j # i /\ Owns(j, c, b)
      BY <1>1, OthersOwn
    <2>2. b \in DOMAIN gitBatches[c] /\ gitBatches[c][b] # "completed"
      BY <2>1 DEF SourcesInv, OwnedOnce
    <2>3. \A k \in Importers : Owns(k, c, b)' => k = j
      BY <1>1, <2>1, OthersOwn DEF SourcesInv, OwnedOnce
    <2> QED  BY <2>2, <2>3 DEF NothingCompletes
  <1>3. InsertersHaveCommit'
    BY DEF SourcesInv, InsertersHaveCommit, BelowItsCommit, Moves
  <1>4. RowsFollowCommit'
    BY DEF SourcesInv, RowsFollowCommit, NothingCompletes
  <1>5. CommitsAreSettled'
    <2> SUFFICES ASSUME NEW c \in Sources, NEW row \in DOMAIN gitRows[c]
                 PROVE  IsSettled(c, row.commit, gitRows[c][row])'
      BY DEF CommitsAreSettled
    <2>a. PICK b \in Nat : b = gitRows[c][row]
      BY DEF SourcesInv, RowsFollowCommit
    <2>1. b \in DOMAIN gitBatches[c] /\ IsSettled(c, row.commit, b)
      BY <2>a DEF SourcesInv, RowsFollowCommit, CommitsAreSettled
    <2>b. SUFFICES IsSettled(c, row.commit, b)'
      BY <2>a
    <2>2. CASE IsWhole(gitRows[c], row.commit)
      BY <2>2 DEF IsSettled, IsWhole
    <2>3. CASE Owns(i, c, b)
      <3>1. gitBatches[c][b] # "completed" /\ \A j \in Importers : Owns(j, c, b) => j = i
        BY <2>1, <2>3 DEF SourcesInv, OwnedOnce
      <3>2. \A j \in Importers : ~Owns(j, c, b)'
        BY <1>1, <3>1, OthersOwn
      <3>3. gitBatches'[c][b] # "completed"
        BY <2>1, <3>1 DEF NothingCompletes
      <3> QED  BY <3>2, <3>3 DEF IsSettled
    <2>4. CASE ~Owns(i, c, b) /\ \E j \in Importers :
                 Owns(j, c, b) /\ importer[j].at = "rows" /\ Head(importer[j].todo) = row.commit
      BY <2>4, OthersOwn DEF IsSettled
    <2>5. CASE gitBatches[c][b] # "completed" /\ \A j \in Importers : ~Owns(j, c, b)
      <3>1. \A j \in Importers : ~Owns(j, c, b)'
        BY <1>1, <2>5, OthersOwn
      <3>2. gitBatches'[c][b] # "completed"
        BY <2>1, <2>5 DEF NothingCompletes
      <3> QED  BY <3>1, <3>2 DEF IsSettled
    <2> QED  BY <2>1, <2>2, <2>3, <2>4, <2>5 DEF IsSettled
  <1> QED  BY <1>2, <1>3, <1>4, <1>5 DEF SourcesInv

\* An import that keeps its batch, and is at no rows before and after.
LEMMA GoingOnStep ==
  ASSUME SourceTypes, SourcesInv, NEW i \in Importers, Moves(i), importer[i].at = "commits", importer'[i].at = "commits",
         importer'[i].corpus = importer[i].corpus, importer'[i].batch = importer[i].batch,
         gitRows' = gitRows, gitBatches' = gitBatches
  PROVE  SourcesInv'
  <1>1. \A j \in Importers : \A c, b : Owns(j, c, b)' <=> Owns(j, c, b)
    BY OthersOwn DEF Owns
  <1>2. OwnedOnce'
    BY <1>1 DEF SourcesInv, OwnedOnce
  <1>3. InsertersHaveCommit'
    BY DEF SourcesInv, InsertersHaveCommit, BelowItsCommit, Moves
  <1>4. RowsFollowCommit'
    BY DEF SourcesInv, RowsFollowCommit
  <1>5. CommitsAreSettled'
    <2> SUFFICES ASSUME NEW c \in Sources, NEW row \in DOMAIN gitRows[c]
                 PROVE  IsSettled(c, row.commit, gitRows[c][row])'
      BY DEF CommitsAreSettled
    <2>1. PICK b : b = gitRows[c][row]
      OBVIOUS
    <2>2. IsSettled(c, row.commit, b)
      BY <2>1 DEF SourcesInv, CommitsAreSettled
    <2>3. IsSettled(c, row.commit, b)'
      BY <1>1, <2>2, OthersOwn DEF IsSettled, IsWhole
    <2> QED  BY <2>1, <2>3
  <1> QED  BY <1>2, <1>3, <1>4, <1>5 DEF SourcesInv

LEMMA MovesTypes ==
  ASSUME SourceTypes, NEW i \in Importers, Moves(i)
  PROVE  importer' \in [Importers -> Works]
  BY DEF SourceTypes, Moves

LEMMA RestIsWork == NotImporting \in Works
  <1>1. Corpora[1] \in Sources
    BY GitAssumption DEF Sources, Range
  <1>2. <<>> \in Seq(DOMAIN Changed)
    OBVIOUS
  <1> QED  BY <1>1, <1>2 DEF NotImporting, Works

LEMMA StartImportStep ==
  ASSUME SourceTypes, SourcesInv, NEW i \in Importers, NEW c \in Sources, StartImport(i, c)
  PROVE  SourceTypes' /\ SourcesInv'
  <1>1. PICK now \in {gitClock, gitClock + 1} \ {0} :
          /\ importer' = [importer EXCEPT ![i] = [at |-> "batch", corpus |-> c, batch |-> now, todo |-> <<>>]]
          /\ gitClock' = now
    BY DEF StartImport
  <1>2. now \in Nat
    BY DEF SourceTypes
  <1>3. [at |-> "batch", corpus |-> c, batch |-> now, todo |-> <<>>] \in Works
    <2>1. <<>> \in Seq(DOMAIN Changed)
      OBVIOUS
    <2> QED  BY <1>2, <2>1 DEF Works
  <1>4. Moves(i) /\ importer'[i].at = "batch"
    BY <1>1, <1>3 DEF Moves, SourceTypes
  <1>5. NothingCompletes /\ gitRows' = gitRows
    BY DEF StartImport, NothingCompletes
  <1>6. SourceTypes'
    BY <1>1, <1>2, <1>4, MovesTypes DEF SourceTypes, StartImport
  <1> QED  BY <1>4, <1>5, <1>6, LeavingStep

\* Leaving, with the batch as it is or failed.
LEMMA LeaveStep ==
  ASSUME SourceTypes, SourcesInv, NEW i \in Importers, gitRows' = gitRows, gitClock' = gitClock,
         importer' = [importer EXCEPT ![i] = NotImporting],
         \/ gitBatches' = gitBatches
         \/ importer[i].batch \in DOMAIN gitBatches[importer[i].corpus]
            /\ SetBatch(importer[i].corpus, importer[i].batch, "failed")
  PROVE  SourceTypes' /\ SourcesInv'
  <1>1. Moves(i) /\ importer'[i].at = "rest"
    BY RestIsWork DEF SourceTypes, Moves, NotImporting
  <1>2. importer[i].corpus \in Sources
    BY DEF SourceTypes, Works
  <1>3. NothingCompletes /\ gitBatches' = [c \in Sources |-> gitBatches'[c]]
    <2>1. CASE gitBatches' = gitBatches
      BY <2>1 DEF NothingCompletes, SourceTypes
    <2>2. CASE gitBatches' # gitBatches
      <3>1. /\ importer[i].batch \in DOMAIN gitBatches[importer[i].corpus]
            /\ SetBatch(importer[i].corpus, importer[i].batch, "failed")
        BY <2>2
      <3> QED  BY <1>2, <3>1, BatchSet DEF NothingCompletes
    <2> QED  BY <2>1, <2>2
  <1>4. SourceTypes'
    BY <1>1, <1>3, MovesTypes DEF SourceTypes
  <1> QED  BY <1>1, <1>3, <1>4, LeavingStep

LEMMA CutImportStep ==
  ASSUME SourceTypes, SourcesInv, NEW i \in Importers, CutImport(i)
  PROVE  SourceTypes' /\ SourcesInv'
  BY LeaveStep DEF CutImport

\* A batch of one's own: no row is of it yet.
LEMMA StartBatchStep ==
  ASSUME SourceTypes, SourcesInv, NEW i \in Importers, StartBatch(i)
  PROVE  SourceTypes' /\ SourcesInv'
  <1>1. PICK c \in Sources, b \in Nat : c = importer[i].corpus /\ b = importer[i].batch
    BY DEF SourceTypes, Works
  <1>2. CASE b \in DOMAIN gitBatches[c]
    BY <1>1, <1>2, LeaveStep DEF StartBatch
  <1>3. CASE b \notin DOMAIN gitBatches[c]
    <2>1. PICK n \in 1 .. Len(History) :
            SetBatch(c, b, "running") /\ Proceed(i, "commits", SubSeq(History, Len(History) - n + 1, Len(History)))
      BY <1>1, <1>3 DEF StartBatch
    <2>2. PICK left \in Seq(DOMAIN Changed) : left = SubSeq(History, Len(History) - n + 1, Len(History))
      <3>1. Len(History) \in Nat /\ \A k \in Len(History) - n + 1 .. Len(History) : History[k] \in DOMAIN Changed
        BY GitAssumption
      <3>2. Len(History) - n + 1 \in Int /\ Len(History) \in Int
        BY <3>1
      <3>3. SubSeq(History, Len(History) - n + 1, Len(History)) \in Seq(DOMAIN Changed)
        BY <3>1, <3>2, SubSeqProperties
      <3> QED  BY <3>3
    <2>3. /\ importer' = [j \in Importers |-> IF j = i THEN importer'[i] ELSE importer[j]]
          /\ importer'[i] = [at |-> "commits", corpus |-> c, batch |-> b, todo |-> left]
      BY <1>1, <2>1, <2>2, Proceeded
    <2>4. Moves(i) /\ importer'[i].at = "commits" /\ Owns(i, c, b)'
      BY <2>3 DEF Moves, Works, Owns
    <2>5. /\ gitBatches' = [d \in Sources |-> gitBatches'[d]]
          /\ DOMAIN gitBatches'[c] = DOMAIN gitBatches[c] \cup {b}
          /\ gitBatches'[c][b] = "running"
          /\ \A k \in DOMAIN gitBatches[c] : k # b => gitBatches'[c][k] = gitBatches[c][k]
          /\ \A d \in Sources : d # c => gitBatches'[d] = gitBatches[d]
      BY <2>1, BatchSet
    <2>6. gitRows' = gitRows /\ gitClock' = gitClock /\ importer[i].at = "batch"
      BY DEF StartBatch
    <2>7. SourceTypes'
      BY <2>4, <2>5, <2>6, MovesTypes DEF SourceTypes
    <2>8. \A d \in Sources, k \in Nat : k \in DOMAIN gitBatches[d] =>
            k \in DOMAIN gitBatches'[d] /\ gitBatches'[d][k] = gitBatches[d][k]
      BY <1>3, <2>5
    <2>9. \A j \in Importers : \A d \in Sources, k \in Nat :
            Owns(j, d, k)' <=> Owns(j, d, k) \/ (j = i /\ d = c /\ k = b)
      BY <2>3, <2>4, <2>6, OthersOwn DEF Owns
    <2>10. OwnedOnce'
      <3> SUFFICES ASSUME NEW j \in Importers, NEW d \in Sources, NEW k \in Nat, Owns(j, d, k)'
                   PROVE  /\ k \in DOMAIN gitBatches'[d] /\ gitBatches'[d][k] # "completed"
                          /\ \A l \in Importers : Owns(l, d, k)' => l = j
        BY DEF OwnedOnce
      <3>1. CASE d = c /\ k = b
        <4>1. \A l \in Importers : ~Owns(l, c, b)
          BY <1>3 DEF SourcesInv, OwnedOnce
        <4> QED  BY <2>5, <2>9, <3>1, <4>1
      <3>2. CASE ~(d = c /\ k = b)
        <4>1. Owns(j, d, k) /\ \A l \in Importers : Owns(l, d, k)' => Owns(l, d, k)
          BY <2>9, <3>2
        <4>2. /\ k \in DOMAIN gitBatches[d] /\ gitBatches[d][k] # "completed"
              /\ \A l \in Importers : Owns(l, d, k) => l = j
          BY <4>1 DEF SourcesInv, OwnedOnce
        <4> QED  BY <2>8, <4>1, <4>2
      <3> QED  BY <3>1, <3>2
    <2>11. InsertersHaveCommit'
      BY <2>4, <2>6 DEF SourcesInv, InsertersHaveCommit, BelowItsCommit, Moves
    <2>12. RowsFollowCommit'
      BY <2>6, <2>8 DEF SourcesInv, RowsFollowCommit
    <2>13. CommitsAreSettled'
      <3> SUFFICES ASSUME NEW d \in Sources, NEW row \in DOMAIN gitRows[d]
                   PROVE  IsSettled(d, row.commit, gitRows[d][row])'
        BY <2>6 DEF CommitsAreSettled
      <3>1. PICK k \in Nat : k = gitRows[d][row]
        BY DEF SourcesInv, RowsFollowCommit
      <3>2. k \in DOMAIN gitBatches[d] /\ IsSettled(d, row.commit, k)
        BY <3>1 DEF SourcesInv, RowsFollowCommit, CommitsAreSettled
      <3>3. \A j \in Importers : Owns(j, d, k)' <=> Owns(j, d, k)
        BY <1>3, <2>9, <3>2
      <3>4. IsSettled(d, row.commit, k)'
        BY <2>6, <2>8, <3>2, <3>3, <2>4, OthersOwn DEF IsSettled, IsWhole
      <3> QED  BY <2>6, <3>1, <3>4
    <2> QED  BY <2>7, <2>10, <2>11, <2>12, <2>13 DEF SourcesInv
  <1> QED  BY <1>2, <1>3

\* The row of a commit that has none: the import that inserted it is at its rows.
LEMMA InsertCommitStep ==
  ASSUME SourceTypes, SourcesInv, NEW i \in Importers, InsertCommit(i)
  PROVE  SourceTypes' /\ SourcesInv'
  <1>1. PICK c \in Sources, b \in Nat, left \in Seq(DOMAIN Changed) :
          c = importer[i].corpus /\ b = importer[i].batch /\ left = importer[i].todo
    BY DEF SourceTypes, Works
  <1>2. importer[i].at = "commits" /\ left # <<>> /\ gitBatches' = gitBatches /\ gitClock' = gitClock
    BY <1>1 DEF InsertCommit
  <1>3. PICK commit : commit = Head(left)
    OBVIOUS
  <1>4. CASE IsImported(c, commit)
    <2>1. Proceed(i, "commits", Tail(left)) /\ gitRows' = gitRows
      BY <1>1, <1>3, <1>4 DEF InsertCommit
    <2>2. Tail(left) \in Seq(DOMAIN Changed)
      BY <1>2, HeadTailProperties
    <2>3. /\ importer' = [j \in Importers |-> IF j = i THEN importer'[i] ELSE importer[j]]
          /\ importer'[i] = [at |-> "commits", corpus |-> c, batch |-> b, todo |-> Tail(left)]
      BY <1>1, <2>1, Proceeded
    <2>4. Moves(i) /\ importer'[i].at = "commits" /\ importer'[i].corpus = c /\ importer'[i].batch = b
      BY <2>2, <2>3 DEF Moves, Works
    <2>5. SourceTypes'
      BY <1>2, <2>1, <2>4, MovesTypes DEF SourceTypes
    <2> QED  BY <1>1, <1>2, <2>1, <2>4, <2>5, GoingOnStep
  <1>5. CASE ~IsImported(c, commit)
    <2>1. Proceed(i, "rows", left) /\ gitRows' = [gitRows EXCEPT ![c] = Inserted(@, CommitRow(commit), b)]
      BY <1>1, <1>3, <1>5 DEF InsertCommit
    <2>2. /\ importer' = [j \in Importers |-> IF j = i THEN importer'[i] ELSE importer[j]]
          /\ importer'[i] = [at |-> "rows", corpus |-> c, batch |-> b, todo |-> left]
      BY <1>1, <2>1, Proceeded
    <2>3. Moves(i)
      BY <2>2 DEF Moves, Works
    <2>4. gitRows' = [d \in Sources |-> IF d = c THEN Inserted(gitRows[c], CommitRow(commit), b) ELSE gitRows[d]]
      BY <2>1 DEF SourceTypes
    <2>5. CommitRow(commit) \notin DOMAIN gitRows[c]
      BY <1>5 DEF IsImported
    <2>6. /\ DOMAIN gitRows'[c] = DOMAIN gitRows[c] \cup {CommitRow(commit)}
          /\ gitRows'[c][CommitRow(commit)] = b
          /\ \A row \in DOMAIN gitRows[c] : gitRows'[c][row] = gitRows[c][row]
          /\ \A d \in Sources : d # c => gitRows'[d] = gitRows[d]
      <3>1. /\ gitRows'[c] = Inserted(gitRows[c], CommitRow(commit), b)
            /\ \A d \in Sources : d # c => gitRows'[d] = gitRows[d]
        BY <2>4
      <3> DEFINE rows == gitRows[c]
      <3>2. PICK new : new = Inserted(rows, CommitRow(commit), b)
        OBVIOUS
      <3> HIDE DEF rows
      <3>3. /\ DOMAIN new = DOMAIN rows \cup {CommitRow(commit)}
            /\ \A row \in DOMAIN rows : new[row] = rows[row]
            /\ CommitRow(commit) \notin DOMAIN rows => new[CommitRow(commit)] = b
        BY <3>2 DEF Inserted, Merged
      <3> USE DEF rows
      <3> QED  BY <2>5, <3>1, <3>2, <3>3
    <2>7. \A j \in Importers : \A d, k : Owns(j, d, k)' <=> Owns(j, d, k)
      BY <1>1, <1>2, <2>2, <2>3, OthersOwn DEF Owns
    <2>8. Owns(i, c, b) /\ b \in DOMAIN gitBatches[c]
      BY <1>1, <1>2 DEF Owns, SourcesInv, OwnedOnce
    <2>9. SourceTypes'
      BY <1>2, <2>3, <2>4, MovesTypes DEF SourceTypes
    <2>10. OwnedOnce'
      BY <1>2, <2>7 DEF SourcesInv, OwnedOnce
    <2>11. InsertersHaveCommit'
      <3> SUFFICES ASSUME NEW j \in Importers, importer'[j].at = "rows" PROVE BelowItsCommit(j)'
        BY DEF InsertersHaveCommit
      <3>1. CASE j = i
        BY <1>2, <1>3, <2>2, <2>6, <3>1 DEF BelowItsCommit
      <3>2. CASE j # i
        <4>1. importer'[j] = importer[j] /\ BelowItsCommit(j) /\ importer[j].corpus \in Sources
          BY <2>3, <3>2, OthersOwn DEF SourcesInv, InsertersHaveCommit, SourceTypes, Works
        <4> QED  BY <2>6, <4>1 DEF BelowItsCommit
      <3> QED  BY <3>1, <3>2
    <2>12. RowsFollowCommit'
      BY <1>2, <2>6, <2>8, RowsAreOfCommit DEF SourcesInv, RowsFollowCommit
    <2>13. CommitsAreSettled'
      <3> SUFFICES ASSUME NEW d \in Sources, NEW row \in DOMAIN gitRows'[d]
                   PROVE  IsSettled(d, row.commit, gitRows[d][row])'
        BY DEF CommitsAreSettled
      <3>1. CASE d = c /\ row = CommitRow(commit)
        <4>1. row.commit = commit /\ gitRows'[d][row] = b
          BY <2>6, <3>1, RowsAreOfCommit
        <4>2. Owns(i, c, b)' /\ importer'[i].at = "rows" /\ Head(importer'[i].todo) = commit
          BY <1>3, <2>2, <2>7, <2>8
        <4>3. IsSettled(c, commit, b)'
          BY <4>2 DEF IsSettled
        <4> QED  BY <3>1, <4>1, <4>3
      <3>2. CASE row \in DOMAIN gitRows[d]
        <4>1. PICK k : k = gitRows[d][row] /\ k = gitRows'[d][row]
          BY <2>6, <3>2
        <4>2. IsSettled(d, row.commit, k)
          BY <3>2, <4>1 DEF SourcesInv, CommitsAreSettled
        <4>3. DOMAIN gitRows[d] \subseteq DOMAIN gitRows'[d]
          BY <2>6
        <4>4. \A j \in Importers : importer[j].at = "rows" => importer'[j] = importer[j]
          BY <1>2, <2>3, OthersOwn
        <4>5. IsSettled(d, row.commit, k)'
          BY <1>2, <2>7, <4>2, <4>3, <4>4 DEF IsSettled, IsWhole
        <4> QED  BY <4>1, <4>5
      <3> QED  BY <2>6, <3>1, <3>2
    <2> QED  BY <2>9, <2>10, <2>11, <2>12, <2>13 DEF SourcesInv
  <1> QED  BY <1>4, <1>5

\* A row below the commit of the import that inserts it; after the last one the commit is whole.
LEMMA InsertRowStep ==
  ASSUME SourceTypes, SourcesInv, NEW i \in Importers, InsertRow(i)
  PROVE  SourceTypes' /\ SourcesInv'
  <1>1. PICK c \in Sources, b \in Nat, left \in Seq(DOMAIN Changed) :
          c = importer[i].corpus /\ b = importer[i].batch /\ left = importer[i].todo
    BY DEF SourceTypes, Works
  <1>2. PICK commit : commit = Head(left)
    OBVIOUS
  <1>3. /\ importer[i].at = "rows" /\ gitBatches' = gitBatches /\ gitClock' = gitClock
        /\ left # <<>> /\ CommitRow(commit) \in DOMAIN gitRows[c] /\ gitRows[c][CommitRow(commit)] = b
        /\ Owns(i, c, b) /\ b \in DOMAIN gitBatches[c]
    BY <1>1, <1>2 DEF InsertRow, SourcesInv, InsertersHaveCommit, BelowItsCommit, Owns, OwnedOnce
  <1>4. /\ gitRows' = [d \in Sources |-> gitRows'[d]]
        /\ DOMAIN gitRows[c] \subseteq DOMAIN gitRows'[c]
        /\ \A row \in DOMAIN gitRows[c] : gitRows'[c][row] = gitRows[c][row]
        /\ \A row \in DOMAIN gitRows'[c] \ DOMAIN gitRows[c] : row \in RowsBelow(commit) /\ gitRows'[c][row] = b
        /\ \A d \in Sources : d # c => gitRows'[d] = gitRows[d]
    <2>1. CASE gitRows' = gitRows
      BY <2>1 DEF SourceTypes
    <2>2. CASE gitRows' # gitRows
      <3>1. PICK p \in Missing(c, commit) : gitRows' = [gitRows EXCEPT ![c] = Inserted(@, RowAt(commit, p), b)]
        BY <1>1, <1>2, <2>2 DEF InsertRow
      <3>2. RowAt(commit, p) \in RowsBelow(commit) /\ RowAt(commit, p) \notin DOMAIN gitRows[c]
        BY <3>1 DEF Missing, RowsBelow
      <3>3. gitRows' = [d \in Sources |-> IF d = c THEN Inserted(gitRows[c], RowAt(commit, p), b) ELSE gitRows[d]]
        BY <3>1 DEF SourceTypes
      <3>4. /\ gitRows'[c] = Inserted(gitRows[c], RowAt(commit, p), b)
            /\ \A d \in Sources : d # c => gitRows'[d] = gitRows[d]
            /\ gitRows' = [d \in Sources |-> gitRows'[d]]
        BY <3>3
      <3> DEFINE rows == gitRows[c]
      <3>5. PICK key : key = RowAt(commit, p)
        OBVIOUS
      <3>6. PICK new : new = Inserted(rows, key, b)
        OBVIOUS
      <3> HIDE DEF rows
      <3>7. /\ DOMAIN new = DOMAIN rows \cup {key}
            /\ \A row \in DOMAIN rows : new[row] = rows[row]
            /\ key \notin DOMAIN rows => new[key] = b
        BY <3>6 DEF Inserted, Merged
      <3> USE DEF rows
      <3>8. gitRows'[c] = new
        BY <3>4, <3>5, <3>6
      <3> QED  BY <3>2, <3>4, <3>5, <3>7, <3>8
    <2> QED  BY <2>1, <2>2
  <1>5. \/ importer' = importer
        \/ RowsBelow(commit) \subseteq DOMAIN gitRows'[c] /\ Proceed(i, "commits", Tail(left))
    BY <1>1, <1>2 DEF InsertRow
  <1>6. /\ Moves(i)
        /\ importer'[i] = importer[i] \/
             (RowsBelow(commit) \subseteq DOMAIN gitRows'[c]
              /\ importer'[i].at = "commits" /\ importer'[i].corpus = c /\ importer'[i].batch = b)
    <2>1. CASE importer' = importer
      BY <2>1 DEF Moves, SourceTypes
    <2>2. CASE importer' # importer
      <3>1. RowsBelow(commit) \subseteq DOMAIN gitRows'[c] /\ Proceed(i, "commits", Tail(left))
        BY <1>5, <2>2
      <3>2. Tail(left) \in Seq(DOMAIN Changed)
        BY <1>3, HeadTailProperties
      <3>3. /\ importer' = [j \in Importers |-> IF j = i THEN importer'[i] ELSE importer[j]]
            /\ importer'[i] = [at |-> "commits", corpus |-> c, batch |-> b, todo |-> Tail(left)]
        BY <1>1, <3>1, Proceeded
      <3> QED  BY <3>1, <3>2, <3>3 DEF Moves, Works
    <2> QED  BY <2>1, <2>2
  <1>7. \A j \in Importers : \A d, k : Owns(j, d, k)' <=> Owns(j, d, k)
    BY <1>1, <1>3, <1>6, OthersOwn DEF Owns
  <1>8. SourceTypes'
    BY <1>3, <1>4, <1>6, MovesTypes DEF SourceTypes
  <1>9. OwnedOnce'
    BY <1>3, <1>7 DEF SourcesInv, OwnedOnce
  <1>10. InsertersHaveCommit'
    <2> SUFFICES ASSUME NEW j \in Importers, importer'[j].at = "rows" PROVE BelowItsCommit(j)'
      BY DEF InsertersHaveCommit
    <2>1. importer'[j] = importer[j]
      BY <1>6, OthersOwn
    <2>2. BelowItsCommit(j) /\ importer[j].corpus \in Sources
      BY <2>1 DEF SourcesInv, InsertersHaveCommit, SourceTypes, Works
    <2> QED  BY <1>4, <2>1, <2>2 DEF BelowItsCommit
  <1>11. RowsFollowCommit'
    <2> SUFFICES ASSUME NEW d \in Sources, NEW row \in DOMAIN gitRows'[d]
                 PROVE  /\ row \in RowsOf(row.commit)
                        /\ CommitRow(row.commit) \in DOMAIN gitRows'[d]
                        /\ gitRows'[d][row] = gitRows'[d][CommitRow(row.commit)]
                        /\ gitRows'[d][row] \in DOMAIN gitBatches'[d] /\ gitRows'[d][row] \in Nat
      BY DEF RowsFollowCommit
    <2>1. CASE row \in DOMAIN gitRows[d]
      BY <1>3, <1>4, <2>1 DEF SourcesInv, RowsFollowCommit
    <2>2. CASE row \notin DOMAIN gitRows[d]
      <3>1. d = c /\ row \in RowsBelow(commit) /\ gitRows'[d][row] = b
        BY <1>4, <2>2
      <3>2. row \in RowsOf(commit) /\ row.commit = commit
        BY <3>1, RowsAreOfCommit DEF RowsOf
      <3> QED  BY <1>3, <1>4, <3>1, <3>2
    <2> QED  BY <2>1, <2>2
  <1>12. CommitsAreSettled'
    <2> SUFFICES ASSUME NEW d \in Sources, NEW row \in DOMAIN gitRows'[d]
                 PROVE  IsSettled(d, row.commit, gitRows[d][row])'
      BY DEF CommitsAreSettled
    <2>1. PICK k : k = gitRows'[d][row]
      OBVIOUS
    <2>2. CASE d = c /\ row.commit = commit
      <3>1. k = b
        BY <1>3, <1>4, <1>11, <2>1, <2>2 DEF RowsFollowCommit
      <3>2. CASE importer'[i] = importer[i]
        <4>1. Owns(i, c, b)' /\ importer'[i].at = "rows" /\ Head(importer'[i].todo) = commit
          BY <1>1, <1>2, <1>3, <1>7, <3>2
        <4>2. IsSettled(c, commit, b)'
          BY <4>1 DEF IsSettled
        <4> QED  BY <2>1, <2>2, <3>1, <4>2
      <3>3. CASE RowsBelow(commit) \subseteq DOMAIN gitRows'[c]
        <4>1. IsWhole(gitRows'[c], commit)
          BY <1>3, <1>4, <3>3 DEF IsWhole, RowsOf
        <4> QED  BY <2>2, <4>1 DEF IsSettled
      <3> QED  BY <1>6, <3>2, <3>3
    <2>3. CASE ~(d = c /\ row.commit = commit)
      <3>1. row \in DOMAIN gitRows[d] /\ gitRows[d][row] = k
        BY <1>4, <2>1, <2>3, RowsAreOfCommit DEF RowsOf
      <3>2. IsSettled(d, row.commit, k)
        BY <3>1 DEF SourcesInv, CommitsAreSettled
      <3>3. DOMAIN gitRows[d] \subseteq DOMAIN gitRows'[d]
        BY <1>4
      <3>4. CASE IsWhole(gitRows[d], row.commit)
        BY <3>3, <3>4 DEF IsSettled, IsWhole
      <3>5. CASE \E j \in Importers : Owns(j, d, k) /\ importer[j].at = "rows" /\ Head(importer[j].todo) = row.commit
        <4>1. PICK j \in Importers : Owns(j, d, k) /\ importer[j].at = "rows" /\ Head(importer[j].todo) = row.commit
          BY <3>5
        <4>2. j # i
          BY <1>1, <1>2, <2>3, <4>1 DEF Owns
        <4>3. importer'[j] = importer[j] /\ Owns(j, d, k)'
          BY <1>6, <1>7, <4>1, <4>2, OthersOwn
        <4>4. IsSettled(d, row.commit, k)'
          BY <4>1, <4>3 DEF IsSettled
        <4> QED  BY <2>1, <4>4
      <3>6. CASE gitBatches[d][k] # "completed" /\ \A j \in Importers : ~Owns(j, d, k)
        <4>1. IsSettled(d, row.commit, k)'
          BY <1>3, <1>7, <3>6 DEF IsSettled
        <4> QED  BY <2>1, <4>1
      <3> QED  BY <3>2, <3>4, <3>5, <3>6 DEF IsSettled
    <2> QED  BY <2>2, <2>3
  <1> QED  BY <1>8, <1>9, <1>10, <1>11, <1>12 DEF SourcesInv

\* An import that is at no rows completes: its commits are whole.
LEMMA FinishImportStep ==
  ASSUME SourceTypes, SourcesInv, NEW i \in Importers, FinishImport(i)
  PROVE  SourceTypes' /\ SourcesInv'
  <1>1. PICK c \in Sources, b \in Nat : c = importer[i].corpus /\ b = importer[i].batch
    BY DEF SourceTypes, Works
  <1>2. /\ importer[i].at = "commits" /\ gitRows' = gitRows /\ gitClock' = gitClock
        /\ SetBatch(c, b, "completed") /\ importer' = [importer EXCEPT ![i] = NotImporting]
    BY <1>1 DEF FinishImport
  <1>3. Owns(i, c, b) /\ \A j \in Importers : Owns(j, c, b) => j = i
    BY <1>1, <1>2 DEF Owns, SourcesInv, OwnedOnce
  <1>4. Moves(i) /\ importer'[i].at = "rest"
    BY <1>2, RestIsWork DEF SourceTypes, Moves, NotImporting
  <1>5. /\ gitBatches' = [d \in Sources |-> gitBatches'[d]]
        /\ DOMAIN gitBatches'[c] = DOMAIN gitBatches[c] \cup {b}
        /\ \A k \in DOMAIN gitBatches[c] : k # b => gitBatches'[c][k] = gitBatches[c][k]
        /\ \A d \in Sources : d # c => gitBatches'[d] = gitBatches[d]
    BY <1>2, BatchSet
  <1>6. \A d \in Sources, k \in Nat : \A j \in Importers :
          Owns(j, d, k)' <=> Owns(j, d, k) /\ ~(d = c /\ k = b)
    <2> SUFFICES ASSUME NEW d \in Sources, NEW k \in Nat, NEW j \in Importers
                 PROVE  Owns(j, d, k)' <=> Owns(j, d, k) /\ ~(d = c /\ k = b)
      OBVIOUS
    <2>1. CASE j = i
      BY <1>1, <1>4, <2>1 DEF Owns
    <2>2. CASE j # i
      BY <1>3, <1>4, <2>2, OthersOwn
    <2> QED  BY <2>1, <2>2
  <1>7. \A d \in Sources, k \in Nat : k \in DOMAIN gitBatches[d] /\ ~(d = c /\ k = b) =>
          k \in DOMAIN gitBatches'[d] /\ gitBatches'[d][k] = gitBatches[d][k]
    BY <1>5
  <1>8. SourceTypes'
    BY <1>2, <1>4, <1>5, MovesTypes DEF SourceTypes
  <1>9. OwnedOnce'
    <2> SUFFICES ASSUME NEW j \in Importers, NEW d \in Sources, NEW k \in Nat, Owns(j, d, k)'
                 PROVE  /\ k \in DOMAIN gitBatches'[d] /\ gitBatches'[d][k] # "completed"
                        /\ \A l \in Importers : Owns(l, d, k)' => l = j
      BY DEF OwnedOnce
    <2>1. Owns(j, d, k) /\ ~(d = c /\ k = b)
      BY <1>6
    <2>2. /\ k \in DOMAIN gitBatches[d] /\ gitBatches[d][k] # "completed"
          /\ \A l \in Importers : Owns(l, d, k) => l = j
      BY <2>1 DEF SourcesInv, OwnedOnce
    <2> QED  BY <1>6, <1>7, <2>1, <2>2
  <1>10. InsertersHaveCommit'
    BY <1>2, <1>4 DEF SourcesInv, InsertersHaveCommit, BelowItsCommit, Moves
  <1>11. RowsFollowCommit'
    BY <1>2, <1>5 DEF SourcesInv, RowsFollowCommit
  <1>12. CommitsAreSettled'
    <2> SUFFICES ASSUME NEW d \in Sources, NEW row \in DOMAIN gitRows[d]
                 PROVE  IsSettled(d, row.commit, gitRows[d][row])'
      BY <1>2 DEF CommitsAreSettled
    <2>1. PICK k \in Nat : k = gitRows[d][row]
      BY DEF SourcesInv, RowsFollowCommit
    <2>2. k \in DOMAIN gitBatches[d] /\ IsSettled(d, row.commit, k)
      BY <2>1 DEF SourcesInv, RowsFollowCommit, CommitsAreSettled
    <2>3. CASE IsWhole(gitRows[d], row.commit)
      BY <1>2, <2>3 DEF IsSettled, IsWhole
    <2>4. CASE ~IsWhole(gitRows[d], row.commit) /\ d = c /\ k = b
      BY <1>2, <1>3, <2>2, <2>4 DEF IsSettled
    <2>5. CASE ~(d = c /\ k = b)
      <3>1. \A j \in Importers : Owns(j, d, k)' <=> Owns(j, d, k)
        BY <1>6, <2>5
      <3>2. gitBatches'[d][k] = gitBatches[d][k]
        BY <1>7, <2>2, <2>5
      <3>3. \A j \in Importers : importer[j].at = "rows" => importer'[j] = importer[j]
        BY <1>2, <1>4, OthersOwn
      <3>4. IsSettled(d, row.commit, k)'
        BY <1>2, <2>2, <3>1, <3>2, <3>3 DEF IsSettled, IsWhole
      <3> QED  BY <1>2, <2>1, <3>4
    <2> QED  BY <2>3, <2>4, <2>5
  <1> QED  BY <1>8, <1>9, <1>10, <1>11, <1>12 DEF SourcesInv

-----------------------------------------------------------------------------
\* No row is ever taken away.
LEMMA RowsGrow ==
  ASSUME SourceTypes, NEW i \in Importers, InsertCommit(i) \/ InsertRow(i)
  PROVE  \A c \in Sources : DOMAIN gitRows[c] \subseteq DOMAIN gitRows'[c]
  <1>1. gitRows' = gitRows \/ \E c, key, value : gitRows' = [gitRows EXCEPT ![c] = Inserted(@, key, value)]
    BY DEF InsertCommit, InsertRow
  <1>2. CASE \E c, key, value : gitRows' = [gitRows EXCEPT ![c] = Inserted(@, key, value)]
    <2>1. PICK c, key, value : gitRows' = [gitRows EXCEPT ![c] = Inserted(@, key, value)]
      BY <1>2
    <2>2. gitRows' = [d \in Sources |-> IF d = c THEN Inserted(gitRows[c], key, value) ELSE gitRows[d]]
      BY <2>1 DEF SourceTypes
    <2>3. DOMAIN gitRows[c] \subseteq DOMAIN Inserted(gitRows[c], key, value)
      BY DEF Inserted, Merged
    <2> QED  BY <2>2, <2>3
  <1> QED  BY <1>1, <1>2

LEMMA ImportStepInv == ASSUME GitInv, ImportStep PROVE GitInv'
  <1>1. PICK i \in Importers :
          \/ \E c \in Sources : StartImport(i, c)
          \/ StartBatch(i) \/ InsertCommit(i) \/ InsertRow(i) \/ FinishImport(i) \/ CutImport(i)
    BY DEF ImportStep
  <1>2. SourceTypes' /\ SourcesInv'
    BY <1>1, StartImportStep, StartBatchStep, InsertCommitStep, InsertRowStep, FinishImportStep, CutImportStep
       DEF GitInv
  <1>3. \A c \in Sources : DOMAIN gitRows[c] \subseteq DOMAIN gitRows'[c]
    <2>1. CASE gitRows' = gitRows
      BY <2>1
    <2>2. CASE gitRows' # gitRows
      <3>1. InsertCommit(i) \/ InsertRow(i)
        BY <1>1, <2>2 DEF StartImport, StartBatch, FinishImport, CutImport
      <3> QED  BY <3>1, RowsGrow DEF GitInv
    <2> QED  BY <2>1, <2>2
  <1>4. collect' = collect /\ poolRows' = poolRows
    BY DEF ImportStep
  <1>5. undisturbed' \in BOOLEAN /\ (undisturbed' => undisturbed /\ gitRows' = gitRows)
    BY Zenon DEF ImportStep, GitInv, PoolTypes
  <1>6. PoolTypes'
    BY <1>4, <1>5 DEF GitInv, PoolTypes
  <1>7. PoolIsOfCorpora'
    BY <1>3, <1>4 DEF GitInv, PoolIsOfCorpora
  <1>8. PassedIsInPool'
    BY <1>4, <1>5 DEF GitInv, PassedIsInPool, IsPassed
  <1> QED  BY <1>2, <1>6, <1>7, <1>8 DEF GitInv

LEMMA SourcesUnchanged ==
  ASSUME SourceTypes, SourcesInv, UNCHANGED <<gitBatches, gitRows, importer, gitClock>>
  PROVE  SourceTypes' /\ SourcesInv'
  <1>1. SourceTypes'
    BY DEF SourceTypes
  <1>2. \A i, c, b : Owns(i, c, b)' <=> Owns(i, c, b)
    BY DEF Owns
  <1>3. OwnedOnce'
    BY <1>2 DEF SourcesInv, OwnedOnce
  <1>4. InsertersHaveCommit' /\ RowsFollowCommit'
    BY DEF SourcesInv, InsertersHaveCommit, BelowItsCommit, RowsFollowCommit
  <1>5. CommitsAreSettled'
    BY <1>2 DEF SourcesInv, CommitsAreSettled, IsSettled
  <1> QED  BY <1>1, <1>3, <1>4, <1>5 DEF SourcesInv

LEMMA StartCollectStep == ASSUME GitInv, StartCollect PROVE GitInv'
  <1>1. SourceTypes' /\ SourcesInv'
    BY SourcesUnchanged DEF GitInv, StartCollect, sourceVars
  <1>2. UNCHANGED <<gitRows, poolRows>> /\ collect' = [source |-> 1, table |-> 1] /\ undisturbed' = TRUE
    BY DEF StartCollect, sourceVars
  <1>3. Len(Corpora) \in Nat \ {0} /\ Len(CopyOrder) = 6
    BY GitAssumption, EmptySeq DEF CopyOrder
  <1>4. PoolTypes'
    BY <1>2, <1>3 DEF PoolTypes
  <1>5. PoolIsOfCorpora'
    BY <1>2 DEF GitInv, PoolIsOfCorpora
  <1>6. PassedIsInPool'
    BY <1>2 DEF PassedIsInPool, IsPassed
  <1> QED  BY <1>1, <1>4, <1>5, <1>6 DEF GitInv

\* A collection that throws or dies.
LEMMA EndCollectStep == ASSUME GitInv, ThrowInCollect \/ CutCollect PROVE GitInv'
  <1>1. /\ UNCHANGED <<gitBatches, gitRows, importer, gitClock, poolRows>>
        /\ collect' = [source |-> 0, table |-> 0] /\ undisturbed' = FALSE
    BY DEF ThrowInCollect, CutCollect, sourceVars
  <1>2. SourceTypes' /\ SourcesInv'
    BY <1>1, SourcesUnchanged DEF GitInv
  <1>3. Len(Corpora) \in Nat /\ Len(CopyOrder) = 6
    BY GitAssumption DEF CopyOrder
  <1>4. PoolTypes'
    <2>1. collect' = [source |-> 0, table |-> 0]
      BY <1>1
    <2>2. undisturbed' \in BOOLEAN
      BY <1>1
    <2>3. /\ collect' \in [source : 0 .. Len(Corpora), table : 0 .. Len(CopyOrder)]
          /\ collect'.source # 0 => collect'.table # 0
      BY <1>3, <2>1
    <2> QED  BY <2>2, <2>3 DEF PoolTypes
  <1>5. PoolIsOfCorpora' /\ PassedIsInPool'
    BY <1>1 DEF GitInv, PoolIsOfCorpora, PassedIsInPool
  <1> QED  BY <1>2, <1>4, <1>5 DEF GitInv

\* The rows of one table come to those of the tables passed before.
LEMMA CopyTableStep == ASSUME GitInv, CopyTable PROVE GitInv'
  <1> DEFINE s == collect.source
             t == collect.table
             c == Corpora[s]
             rows == TableRows(c, CopyOrder[t])
  <1>1. UNCHANGED <<gitBatches, gitRows, importer, gitClock, undisturbed>> /\ collect' = NextTable
    BY DEF CopyTable, sourceVars
  <1>2. SourceTypes' /\ SourcesInv'
    BY <1>1, SourcesUnchanged DEF GitInv
  <1>3. Len(Corpora) \in Nat /\ Len(CopyOrder) = 6
    BY GitAssumption DEF CopyOrder
  <1>4. s \in 1 .. Len(Corpora) /\ t \in 1 .. 6
    BY <1>3 DEF GitInv, PoolTypes, CopyTable
  <1>5. c \in Sources
    BY <1>4, GitAssumption DEF Sources, Range
  <1>6. collect' = IF t < 6 THEN [source |-> s, table |-> t + 1]
                   ELSE [source |-> IF s < Len(Corpora) THEN s + 1 ELSE 0, table |-> 1]
    BY <1>1, <1>3, <1>4 DEF NextTable, GitInv, PoolTypes
  <1>7. PoolTypes'
    <2>1. PICK k \in 0 .. Len(Corpora), u \in 1 .. 6 : collect' = [source |-> k, table |-> u]
      <3>1. CASE t < 6
        BY <1>4, <1>6, <3>1
      <3>2. CASE t = 6
        BY <1>3, <1>4, <1>6, <3>2
      <3> QED  BY <1>4, <3>1, <3>2
    <2>2. undisturbed' \in BOOLEAN
      BY <1>1 DEF GitInv, PoolTypes
    <2> QED  BY <1>3, <2>1, <2>2 DEF PoolTypes
  <1>8. /\ DOMAIN poolRows \subseteq DOMAIN poolRows'
        /\ \A row \in DOMAIN poolRows' : row \in DOMAIN poolRows \/ row \in DOMAIN gitRows[c]
        /\ CopyOrder[t] \notin {"repositories", "batches"} =>
             \A row \in DOMAIN gitRows[c] : row.table = CopyOrder[t] => row \in DOMAIN poolRows'
    BY DEF CopyTable, Merged, TableRows, Restrict
  <1>9. PoolIsOfCorpora'
    BY <1>1, <1>5, <1>8 DEF GitInv, PoolIsOfCorpora
  <1>10. PassedIsInPool'
    <2> SUFFICES ASSUME undisturbed, NEW k \in 1 .. Len(Corpora), NEW row \in DOMAIN gitRows[Corpora[k]],
                        IsPassed(k, row)'
                 PROVE  row \in DOMAIN poolRows'
      BY <1>1 DEF PassedIsInPool
    <2>1. IsPassed(k, row) => row \in DOMAIN poolRows'
      BY <1>8 DEF GitInv, PassedIsInPool
    <2>2. row.table \in {"commits", "files", "hunks", "tokens"}
      <3>1. Corpora[k] \in Sources
        BY GitAssumption DEF Sources, Range
      <3> QED  BY <3>1, RowsAreOfCommit DEF GitInv, SourcesInv, RowsFollowCommit
    <2>3. \E u \in 1 .. 6 : CopyOrder[u] = row.table
      BY <2>2 DEF CopyOrder
    <2>4. CASE k = s /\ row.table = CopyOrder[t]
      BY <1>8, <2>2, <2>4
    <2>5. CASE ~(k = s /\ row.table = CopyOrder[t])
      <3>1. IsPassed(k, row)
        <4>1. CASE t < 6
          <5>1. collect'.source = s /\ collect'.table = t + 1
            BY <1>6, <4>1
          <5> QED  BY <1>4, <2>5, <5>1 DEF IsPassed
        <4>2. CASE t = 6
          <5>1. collect'.source = IF s < Len(Corpora) THEN s + 1 ELSE 0
            BY <1>6, <4>2
          <5>2. collect'.table = 1
            BY <1>6, <4>2
          <5>3. k < s \/ k = s
            BY <1>3, <1>4, <5>1, <5>2 DEF IsPassed
          <5>4. k = s => \E u \in 1 .. t - 1 : CopyOrder[u] = row.table
            BY <2>3, <2>5, <4>2
          <5> QED  BY <5>3, <5>4 DEF IsPassed
        <4> QED  BY <1>4, <4>1, <4>2
      <3> QED  BY <2>1, <3>1
    <2> QED  BY <2>4, <2>5
  <1> QED  BY <1>2, <1>7, <1>9, <1>10 DEF GitInv

LEMMA InitGitInv == GitInit => GitInv
  <1> SUFFICES ASSUME GitInit PROVE GitInv
    OBVIOUS
  <1>1. SourceTypes /\ PoolTypes
    <2>1. Len(Corpora) \in Nat /\ Len(CopyOrder) = 6
      BY GitAssumption DEF CopyOrder
    <2>2. SourceTypes
      BY RestIsWork DEF GitInit, SourceTypes
    <2>3. collect = [source |-> 0, table |-> 0] /\ undisturbed = FALSE
      BY DEF GitInit
    <2>4. undisturbed \in BOOLEAN
      BY <2>3
    <2>5. /\ collect \in [source : 0 .. Len(Corpora), table : 0 .. Len(CopyOrder)]
          /\ collect.source # 0 => collect.table # 0
      <3>1. collect = [source |-> 0, table |-> 0]
        BY <2>3
      <3> QED  BY <2>1, <3>1
    <2>6. PoolTypes
      BY <2>4, <2>5 DEF PoolTypes
    <2> QED  BY <2>2, <2>6
  <1>2. \A i \in Importers : importer[i].at = "rest"
    BY DEF GitInit, NotImporting
  <1>3. \A c \in Sources : DOMAIN gitRows[c] = {}
    BY DEF GitInit
  <1>4. SourcesInv
    BY <1>2, <1>3 DEF SourcesInv, OwnedOnce, InsertersHaveCommit, RowsFollowCommit, CommitsAreSettled, Owns
  <1> QED  BY <1>1, <1>4 DEF GitInit, GitInv, PoolIsOfCorpora, PassedIsInPool

LEMMA NextGitInv == GitInv /\ [GitNext]_gitVars => GitInv'
  <1> SUFFICES ASSUME GitInv, [GitNext]_gitVars PROVE GitInv'
    OBVIOUS
  <1>1. CASE GitNext
    BY <1>1, ImportStepInv, StartCollectStep, EndCollectStep, CopyTableStep DEF GitNext
  <1>2. CASE UNCHANGED gitVars
    <2>1. UNCHANGED <<gitBatches, gitRows, importer, gitClock, collect, poolRows, undisturbed>>
      BY <1>2 DEF gitVars, sourceVars, poolVars
    <2>2. SourceTypes' /\ SourcesInv'
      BY <2>1, SourcesUnchanged DEF GitInv
    <2> QED  BY <2>1, <2>2 DEF GitInv, PoolTypes, PoolIsOfCorpora, PassedIsInPool, IsPassed
  <1> QED  BY <1>1, <1>2

\* What the invariant says of rows, batches and the pool.
LEMMA GitInvAccounts == GitInv => CommitsAreAccounted
  <1> SUFFICES ASSUME GitInv PROVE CommitsAreAccounted
    OBVIOUS
  <1>1. ASSUME NEW c \in Sources, NEW row \in DOMAIN gitRows[c]
        PROVE  /\ CommitRow(row.commit) \in DOMAIN gitRows[c]
               /\ gitRows[c][row] = gitRows[c][CommitRow(row.commit)]
               /\ gitBatches[c][gitRows[c][row]] = "completed" => IsWhole(gitRows[c], row.commit)
    <2>1. PICK b \in Nat : b = gitRows[c][row]
      BY DEF GitInv, SourcesInv, RowsFollowCommit
    <2>2. IsSettled(c, row.commit, b)
      BY <2>1 DEF GitInv, SourcesInv, CommitsAreSettled
    <2>3. gitBatches[c][b] = "completed" => IsWhole(gitRows[c], row.commit)
      BY <2>2 DEF IsSettled, GitInv, SourcesInv, OwnedOnce
    <2> QED  BY <2>1, <2>3 DEF GitInv, SourcesInv, RowsFollowCommit
  <1>2. ASSUME undisturbed, collect.source = 0
        PROVE  DOMAIN poolRows = UNION {DOMAIN gitRows[c] : c \in Sources}
    <2>1. \A c \in Sources : \E k \in 1 .. Len(Corpora) : c = Corpora[k]
      BY GitAssumption DEF Sources, Range
    <2>2. \A c \in Sources : DOMAIN gitRows[c] \subseteq DOMAIN poolRows
      BY <1>2, <2>1 DEF GitInv, PassedIsInPool, IsPassed
    <2> QED  BY <2>2 DEF GitInv, PoolIsOfCorpora
  <1> QED  BY <1>1, <1>2 DEF CommitsAreAccounted, GitInv, PoolIsOfCorpora

\* The inductive invariant holds in every reachable state.
THEOREM GitInvariance == Spec => []GitInv
  <1>1. Init => GitInv
    BY InitGitInv DEF Init
  <1>2. GitInv /\ [Next]_vars => GitInv'
    BY NextGitInv
       DEF Next, vars, OutboxStep, CorpusStep, ProtocolsStep, PromptsStep, GitStep, TelemetryStep, BannerStep
  <1> QED  BY <1>1, <1>2, PTL DEF Spec

\* However imports of one corpus overlap, share a millisecond, throw or die, the rows of
\* a commit are of one import, those of a completed import are whole, and a collection
\* that no import disturbed has every row (importGitHistory, collectGitCorpusPool).
THEOREM CommitsAreAccountedFor == Spec => []CommitsAreAccounted
  BY GitInvAccounts, GitInvariance, PTL

-----------------------------------------------------------------------------
(* Listings and rows.                                                      *)

LEMMA NumbersInOrder ==
  ASSUME NEW S \in SUBSET Nat, IsFiniteSet(S)
  PROVE  LET s == InOrder(S) IN
         /\ s \in [1 .. Cardinality(S) -> S] /\ Cardinality(S) \in Nat
         /\ \A x \in S : \E i \in 1 .. Cardinality(S) : s[i] = x
  <1> DEFINE less == {p \in S \X S : p[1] < p[2]}
  <1>1. \A x, y \in S : <<x, y>> \in less <=> x < y
    OBVIOUS
  <1> HIDE DEF less
  <1>2. IsOrder(S, less)
    BY <1>1 DEF IsOrder
  <1>3. PICK s \in [1 .. Cardinality(S) -> S] : IsListed(s, less)
    BY <1>2, ListingExists
  <1>4. \A i, j \in DOMAIN s : i < j => s[i] < s[j]
    BY <1>1, <1>3 DEF IsListed
  <1> DEFINE t == InOrder(S)
  <1>5. t \in [1 .. Cardinality(S) -> S] /\ \A i, j \in DOMAIN t : i < j => t[i] < t[j]
    BY <1>4 DEF InOrder
  <1> HIDE DEF t
  <1>6. IsListed(t, less)
    BY <1>1, <1>5 DEF IsListed
  <1> QED  BY <1>2, <1>5, <1>6, ListingHasAll DEF t

AreRows(s, rows, places) ==
  /\ \E n \in Nat : DOMAIN s = 1 .. n
  /\ \A k \in DOMAIN s : \E i \in places : s[k] = rows[i]

\* The rows at some places are rows.
LEMMA RowsAtPlaces ==
  ASSUME NEW m \in Nat, NEW rows, NEW places \in SUBSET (1 .. m)
  PROVE  AreRows(RowsAt(rows, places), rows, places)
  <1>1. places \in SUBSET Nat /\ IsFiniteSet(places)
    <2>1. IsFiniteSet(1 .. m)
      BY FS_Interval
    <2>2. 1 .. m \subseteq Nat
      OBVIOUS
    <2> QED  BY <2>1, <2>2, FS_Subset
  <1> DEFINE order == InOrder(places)
  <1>2. order \in [1 .. Cardinality(places) -> places] /\ Cardinality(places) \in Nat
    BY <1>1, NumbersInOrder
  <1>3. RowsAt(rows, places) = [k \in DOMAIN order |-> rows[order[k]]]
    BY DEF RowsAt
  <1> HIDE DEF order
  <1> QED  BY <1>2, <1>3 DEF AreRows

-----------------------------------------------------------------------------
(* The compiler: every action is of a row of its run.                      *)

RunHas(rows, run, e) == \E i \in DOMAIN rows : e = rows[i] /\ RunKey(rows[i]) = run

LEMMA RunEventsAreOfRun ==
  ASSUME NEW m \in Nat, NEW rows, DOMAIN rows = 1 .. m, NEW run, run # None
  PROVE  LET s == RunEvents(rows, run) IN
         /\ \E n \in Nat : DOMAIN s = 1 .. n
         /\ \A k \in DOMAIN s : RunHas(rows, run, s[k])
  <1> DEFINE ofTurn == {i \in DOMAIN rows : rows[i].turn = run}
             ofSession == {i \in DOMAIN rows : rows[i].session = run /\ rows[i].turn = None}
             places == IF ofTurn # {} THEN ofTurn ELSE ofSession
  <1>1. PICK ps \in SUBSET (1 .. m) : /\ RunEvents(rows, run) = RowsAt(rows, ps)
                                      /\ \A i \in ps : RunKey(rows[i]) = run
    <2>1. RunEvents(rows, run) = RowsAt(rows, places)
      BY DEF RunEvents
    <2>2. places \in SUBSET (1 .. m) /\ \A i \in places : RunKey(rows[i]) = run
      BY DEF RunKey
    <2> QED  BY <2>1, <2>2
  <1>2. PICK s : s = RowsAt(rows, ps)
    OBVIOUS
  <1>3. (\E n \in Nat : DOMAIN s = 1 .. n) /\ \A k \in DOMAIN s : \E i \in ps : s[k] = rows[i]
    <2>1. AreRows(RowsAt(rows, ps), rows, ps)
      BY RowsAtPlaces
    <2> QED  BY <1>2, <2>1 DEF AreRows
  <1>4. \A k \in DOMAIN s : RunHas(rows, run, s[k])
    BY <1>1, <1>3 DEF RunHas
  <1> QED  BY <1>1, <1>2, <1>3, <1>4

\* Of two rules and a default, one gives the value.
LEMMA FirstOfTwo ==
  ASSUME NEW a, NEW b, NEW c, NEW x, NEW y
  PROVE  FirstOf(<< <<a, x>>, <<b, y>> >>, c) \in {x, y, c}
  <1> DEFINE rules == << <<a, x>>, <<b, y>> >>
             hits == {i \in 1 .. Len(rules) : rules[i][1]}
             hit == SelectInSeq(rules, LAMBDA rule : rule[1])
  <1>1. hit = IF hits # {} THEN Min(hits) ELSE 0
    BY DEF SelectInSeq
  <1>2. hits \in SUBSET {1, 2}
    OBVIOUS
  <1>3. hits # {} => Min(hits) \in hits
    <2>1. hits = {1} \/ hits = {2} \/ hits = {1, 2} \/ hits = {}
      BY <1>2
    <2> HIDE DEF hits
    <2>2. hits # {} => \E n \in hits : \A k \in hits : n <= k
      BY <2>1
    <2> QED  BY <2>2 DEF Min
  <1>4. hit = 0 \/ hit = 1 \/ hit = 2
    BY <1>1, <1>2, <1>3
  <1>5. FirstOf(rules, c) = IF hit = 0 THEN c ELSE rules[hit][2]
    BY DEF FirstOf
  <1> HIDE DEF hit
  <1>6. rules[1][2] = x /\ rules[2][2] = y
    OBVIOUS
  <1> QED  BY <1>4, <1>5, <1>6

LEMMA ActionIsOfRow ==
  ASSUME NEW e
  PROVE  ActionOf(e).event = e.id
  <1>1. ActionOf(e) \in {BoundaryAction(e), PathAction(e), CommandAction(e)}
    BY FirstOfTwo DEF ActionOf
  <1>2. BoundaryAction(e).event = e.id
    BY DEF BoundaryAction, Action
  <1>3. PathAction(e).event = e.id
    BY DEF PathAction, Action
  <1>4. CommandAction(e).event = e.id
    BY DEF CommandAction, Action
  <1> QED  BY <1>1, <1>2, <1>3, <1>4

AreActions(s, rows, run) ==
  /\ s # <<>> => \E e : RunHas(rows, run, e)
  /\ \A k \in DOMAIN s : \E e : RunHas(rows, run, e) /\ s[k].event = e.id

LEMMA CompiledActions ==
  ASSUME NEW m \in Nat, NEW rows, DOMAIN rows = 1 .. m, NEW run, run # None
  PROVE  AreActions(compileTelemetryRunAst(rows, run).actions, rows, run)
  <1> DEFINE events == RunEvents(rows, run)
             kept == RowsAt(events, {i \in DOMAIN events : Compiles(events, i)})
             s == [k \in DOMAIN kept |-> ActionOf(kept[k])]
  <1>1. compileTelemetryRunAst(rows, run).actions = s
    BY DEF compileTelemetryRunAst, RunAst, tokenizeTelemetryActions
  <1>2. PICK n \in Nat : DOMAIN events = 1 .. n
    BY RunEventsAreOfRun
  <1>3. \A k \in DOMAIN events : RunHas(rows, run, events[k])
    BY RunEventsAreOfRun
  <1> HIDE DEF events
  <1> DEFINE places == {i \in DOMAIN events : Compiles(events, i)}
  <1>4. PICK ps \in SUBSET (1 .. n) : ps = places
    BY <1>2
  <1>5. kept = RowsAt(events, ps)
    BY <1>4
  <1> HIDE DEF places, kept
  <1>6. AreRows(kept, events, ps)
    <2>1. PICK rs : rs = events
      OBVIOUS
    <2>2. AreRows(RowsAt(rs, ps), rs, ps)
      BY RowsAtPlaces
    <2> QED  BY <1>5, <2>1, <2>2
  <1>7. (\E l \in Nat : DOMAIN kept = 1 .. l) /\ \A k \in DOMAIN kept : \E i \in ps : kept[k] = events[i]
    BY <1>6 DEF AreRows
  <1>8. \A k \in DOMAIN kept : RunHas(rows, run, kept[k])
    BY <1>2, <1>3, <1>4, <1>7
  <1>9. \A k \in DOMAIN s : RunHas(rows, run, kept[k]) /\ s[k].event = kept[k].id
    BY <1>8, ActionIsOfRow
  <1>10. PICK l \in Nat : DOMAIN kept = 1 .. l
    BY <1>7
  <1>11. (l = 0 => s = <<>>) /\ (l # 0 => 1 \in DOMAIN kept)
    BY <1>10
  <1> HIDE DEF s
  <1>12. DOMAIN s = DOMAIN kept
    BY DEF s
  <1> QED  BY <1>1, <1>8, <1>9, <1>10, <1>11, <1>12 DEF AreActions
-----------------------------------------------------------------------------
(* The corpus.                                                             *)

\* A cursor goes round: with each undisturbed sync it leaves more keys behind, until none is
\* ahead of it and it is forgotten.
Ahead(keys, c) == {k \in keys : k > c}

GoesRound(n, keys, c, q) ==
  IF c = None THEN q <= n ELSE q + Cardinality(Ahead(keys, c)) < Cardinality(keys)

\* All that a run compiles to is in the corpus.
CompiledDone(r) ==
  /\ {a.event : a \in Range(Compiled(r))} \subseteq corpusActions
  /\ Compiled(r) # <<>> => r \in DOMAIN corpusEffects

SyncTypes ==
  /\ phase \in {"idle", "runs", "events", "keys", "compile"}
  /\ todo \in Seq(Runs) /\ Range(todo) \subseteq RunKeys
  /\ corpusRuns \in [Runs -> {None, "started", "completed"}]
  /\ corpusEvents \subseteq recorded /\ corpusActions \subseteq recorded
  /\ DOMAIN corpusEffects \subseteq RunKeys
  /\ eventsCursor \in recorded \cup {None}
  /\ effectsCursor \in RunKeys \cup {None} /\ lastKey \in RunKeys \cup {None}
  /\ syncBatch \in {None, "running", "completed", "failed"}
  /\ quiet \in Int /\ quiet >= -1 /\ quiet <= Enough

RunsAreImported ==
  /\ \A r \in Runs : corpusRuns[r] # None => r \in Taped
  /\ runsCursor # None \/ quiet >= 1 \/ phase \in {"events", "keys", "compile"} =>
       \A r \in Taped : corpusRuns[r] # None

\* The syncs that count for the events: the present one has already read them.
EventSyncs == IF phase \in {"keys", "compile"} THEN quiet + 1 ELSE quiet

EventsGoRound ==
  recorded \subseteq corpusEvents \/ GoesRound(Cardinality(recorded), recorded, eventsCursor, EventSyncs)

KeysDone == \A r \in Runs : CompiledDone(r)

KeysGoRound ==
  IF phase # "compile"
  THEN KeysDone \/ GoesRound(Cardinality(recorded), RunKeys, effectsCursor, quiet)
  ELSE quiet >= 0 =>
         /\ IF \E r \in RunKeys : Past(r, effectsCursor)
            THEN lastKey \in RunKeys /\ Past(lastKey, effectsCursor) ELSE lastKey = None
         /\ \/ KeysDone
            \/ /\ GoesRound(Cardinality(recorded), RunKeys, effectsCursor, quiet)
               /\ effectsCursor = None => \A r \in RunKeys : CompiledDone(r) \/ r \in Range(todo)

\* The inductive invariant.
SyncInv ==
  /\ SyncTypes /\ RunsAreImported /\ EventsGoRound /\ KeysGoRound
  /\ active # "corpus" => phase = "idle" /\ quiet = 0

-----------------------------------------------------------------------------
IsListing(s, S) ==
  /\ Cardinality(S) \in Nat /\ s \in [1 .. Cardinality(S) -> S]
  /\ \A x \in S : \E i \in 1 .. Cardinality(S) : s[i] = x

LEMMA InOrderLists ==
  ASSUME NEW S \in SUBSET Nat, IsFiniteSet(S)
  PROVE  IsListing(InOrder(S), S)
  BY NumbersInOrder DEF IsListing

LEMMA ListingProperties ==
  ASSUME NEW S, NEW s, IsFiniteSet(S), IsListing(s, S)
  PROVE  /\ s \in Seq(S) /\ Range(s) = S /\ Len(s) = Cardinality(S)
         /\ s = <<>> <=> S = {}
         /\ S # {} => Last(s) \in S
  <1>1. s \in Seq(S) /\ Len(s) = Cardinality(S) /\ DOMAIN s = 1 .. Cardinality(S)
    BY DEF IsListing
  <1>2. Range(s) = S
    BY <1>1 DEF IsListing, Range
  <1>3. s = <<>> <=> S = {}
    <2>1. Cardinality(S) = 0 <=> S = {}
      BY FS_EmptySet
    <2>2. Len(s) = 0 <=> s = <<>>
      BY <1>1, EmptySeq
    <2> QED  BY <1>1, <2>1, <2>2
  <1>4. S # {} => Last(s) \in S
    <2> SUFFICES ASSUME S # {} PROVE s[Len(s)] \in S
      BY DEF Last
    <2>1. Len(s) # 0 /\ Len(s) \in Nat
      BY <1>1, FS_EmptySet DEF IsListing
    <2> QED  BY <1>1, <2>1 DEF IsListing
  <1> QED  BY <1>1, <1>2, <1>3, <1>4

\* The cursor after a page: its last key, none if it was empty.
LEMMA NextCursorOf ==
  ASSUME NEW S, NEW s, NEW c, IsFiniteSet(S), IsListing(s, S)
  PROVE  IF S = {} THEN NextCursor(s, c) = None ELSE NextCursor(s, c) \in S
  BY ListingProperties DEF NextCursor

LEMMA LedgerLists ==
  ASSUME createdAt \in [Events -> Nat], NEW S \in SUBSET Events
  PROVE  IsFiniteSet(S) /\ IsListing(InLedgerOrder(S), S)
  <1> DEFINE less == {p \in S \X S : Before(p[1], p[2])}
  <1>1. PICK before : before = less
    OBVIOUS
  <1>2. \A x, y \in S : <<x, y>> \in before <=> Before(x, y)
    BY <1>1
  <1>3. \A x \in S : x \in Nat /\ createdAt[x] \in Nat
    BY OutboxAssumption
  <1>4. IsOrder(S, before)
    BY <1>2, <1>3 DEF IsOrder, Before
  <1>5. IsFiniteSet(S)
    BY OutboxAssumption, FS_Subset
  <1>6. PICK s \in [1 .. Cardinality(S) -> S] : IsListed(s, before)
    BY <1>4, <1>5, ListingExists
  <1>7. \A i, j \in DOMAIN s : i < j => Before(s[i], s[j])
    BY <1>2, <1>6 DEF IsListed
  <1> DEFINE t == InLedgerOrder(S)
  <1>8. t \in [1 .. Cardinality(S) -> S] /\ \A i, j \in DOMAIN t : i < j => Before(t[i], t[j])
    BY <1>7 DEF InLedgerOrder
  <1>9. PICK u : u = t
    OBVIOUS
  <1>10. u \in [1 .. Cardinality(S) -> S] /\ IsListed(u, before)
    BY <1>2, <1>8, <1>9 DEF IsListed
  <1>11. IsListing(u, S)
    BY <1>4, <1>5, <1>10, ListingHasAll DEF IsListing
  <1> QED  BY <1>5, <1>9, <1>11

LEMMA RecordedAreEvents ==
  /\ recorded \in SUBSET Events /\ recorded \in SUBSET Nat /\ IsFiniteSet(recorded)
  /\ Cardinality(recorded) \in Nat /\ None \notin recorded
  <1>1. recorded \in SUBSET Events
    BY DEF recorded
  <1>2. IsFiniteSet(recorded)
    BY <1>1, OutboxAssumption, FS_Subset
  <1> QED  BY <1>1, <1>2, OutboxAssumption, CorpusAssumption, FS_CardinalityType

\* There are at most as many run keys as rows.
LEMMA KeysOfRows ==
  /\ RunKeys \in SUBSET Runs /\ RunKeys \in SUBSET Nat /\ IsFiniteSet(RunKeys) /\ None \notin RunKeys
  /\ Cardinality(RunKeys) \in Nat /\ Cardinality(RunKeys) <= Cardinality(recorded)
  <1> DEFINE all == {RunKey(Row[e]) : e \in recorded}
             f == [e \in recorded |-> RunKey(Row[e])]
  <1>1. f \in Surjection(recorded, all)
    BY DEF Surjection
  <1>2. IsFiniteSet(all) /\ Cardinality(all) <= Cardinality(recorded)
    <2> HIDE DEF f, all
    <2>1. PICK S, T, g : S = recorded /\ T = all /\ g = f
      OBVIOUS
    <2>2. IsFiniteSet(T) /\ Cardinality(T) <= Cardinality(S)
      BY <1>1, <2>1, RecordedAreEvents, FS_Surjection
    <2> QED  BY <2>1, <2>2
  <1>3. RunKeys \subseteq all /\ RunKeys \in SUBSET Runs /\ None \notin RunKeys
    BY CorpusAssumption, RecordedAreEvents DEF RunKeys
  <1>4. IsFiniteSet(RunKeys) /\ Cardinality(RunKeys) <= Cardinality(all)
    <2> HIDE DEF all
    <2> QED  BY <1>2, <1>3, FS_Subset
  <1>5. Cardinality(RunKeys) \in Nat /\ Cardinality(all) \in Nat
    BY <1>2, <1>4, FS_CardinalityType
  <1> QED  BY <1>2, <1>3, <1>4, <1>5, RecordedAreEvents, CorpusAssumption

\* What a run compiles to is of its rows.
LEMMA CompiledOfRows ==
  ASSUME createdAt \in [Events -> Nat], NEW r \in Runs
  PROVE  /\ {a.event : a \in Range(Compiled(r))} \subseteq recorded
         /\ Compiled(r) # <<>> => r \in RunKeys
  <1> DEFINE rows == [i \in DOMAIN LedgerOrder |-> Row[LedgerOrder[i]]]
  <1>1. IsListing(LedgerOrder, recorded)
    BY LedgerLists, RecordedAreEvents DEF LedgerOrder
  <1>2. PICK n \in Nat : DOMAIN rows = 1 .. n
    BY <1>1 DEF IsListing
  <1>3. \A i \in DOMAIN rows : LedgerOrder[i] \in recorded /\ rows[i] = Row[LedgerOrder[i]]
    BY <1>1 DEF IsListing
  <1>4. PICK rs : rs = rows
    OBVIOUS
  <1>5. r # None
    BY CorpusAssumption
  <1> DEFINE s == compileTelemetryRunAst(rs, r).actions
  <1>6. Compiled(r) = s
    BY <1>4 DEF Compiled
  <1>7. /\ s # <<>> => \E e : RunHas(rs, r, e)
        /\ \A k \in DOMAIN s : \E e : RunHas(rs, r, e) /\ s[k].event = e.id
    <2>1. DOMAIN rs = 1 .. n
      BY <1>2, <1>4
    <2>2. AreActions(compileTelemetryRunAst(rs, r).actions, rs, r)
      BY <1>5, <2>1, CompiledActions
    <2> QED  BY <2>2 DEF AreActions
  <1>8. \A e : RunHas(rs, r, e) => e.id \in recorded /\ r \in RunKeys
    <2> SUFFICES ASSUME NEW e, RunHas(rs, r, e) PROVE e.id \in recorded /\ r \in RunKeys
      OBVIOUS
    <2>1. PICK i \in DOMAIN rows : e = rows[i] /\ RunKey(rows[i]) = r
      BY <1>4 DEF RunHas
    <2>2. PICK d \in recorded : rows[i] = Row[d]
      BY <1>3, <2>1
    <2> HIDE DEF rows
    <2> QED  BY <1>5, <2>1, <2>2, CorpusAssumption, RecordedAreEvents DEF RunKeys
  <1> HIDE DEF s
  <1>9. \A k \in DOMAIN s : s[k].event \in recorded
    BY <1>7, <1>8
  <1> QED  BY <1>6, <1>7, <1>8, <1>9 DEF Range

-----------------------------------------------------------------------------
LEMMA RoundStarts ==
  ASSUME NEW n \in Nat, NEW keys \in SUBSET Nat, IsFiniteSet(keys), None \notin keys,
         NEW c \in keys \cup {None}, NEW q \in Int, q <= 0
  PROVE  GoesRound(n, keys, c, q)
  <1>1. ASSUME c \in keys PROVE Cardinality(Ahead(keys, c)) < Cardinality(keys)
    <2>1. IsFiniteSet(keys \ {c}) /\ Cardinality(keys \ {c}) = Cardinality(keys) - 1
      BY <1>1, FS_RemoveElement
    <2>2. Ahead(keys, c) \subseteq keys \ {c}
      BY <1>1 DEF Ahead
    <2>3. Cardinality(Ahead(keys, c)) <= Cardinality(keys \ {c})
      BY <2>1, <2>2, FS_Subset
    <2>4. Cardinality(keys) \in Nat /\ Cardinality(Ahead(keys, c)) \in Nat
      BY <2>1, <2>2, FS_Subset, FS_CardinalityType
    <2> QED  BY <2>1, <2>3, <2>4
  <1>2. c \in keys => Cardinality(Ahead(keys, c)) \in Nat /\ Cardinality(keys) \in Nat
    <2>1. Ahead(keys, c) \subseteq keys
      BY DEF Ahead
    <2> QED  BY <2>1, FS_Subset, FS_CardinalityType
  <1> QED  BY <1>1, <1>2 DEF GoesRound

LEMMA RoundStays ==
  ASSUME NEW n \in Nat, NEW keys \in SUBSET Nat, IsFiniteSet(keys), NEW c,
         NEW q \in Int, NEW r \in Int, r <= q, GoesRound(n, keys, c, q)
  PROVE  GoesRound(n, keys, c, r)
  <1>1. Cardinality(Ahead(keys, c)) \in Nat /\ Cardinality(keys) \in Nat
    <2>1. Ahead(keys, c) \subseteq keys
      BY DEF Ahead
    <2> QED  BY <2>1, FS_Subset, FS_CardinalityType
  <1> QED  BY <1>1 DEF GoesRound

\* A page that is read behind a key leaves the cursor at a key ahead, or finds none.
LEMMA RoundMoves ==
  ASSUME NEW n \in Nat, NEW keys \in SUBSET Nat, IsFiniteSet(keys), None \notin keys, Cardinality(keys) <= n,
         NEW c \in keys, NEW q \in Int, GoesRound(n, keys, c, q),
         NEW l, IF Ahead(keys, c) = {} THEN l = None ELSE l \in Ahead(keys, c)
  PROVE  GoesRound(n, keys, l, q + 1)
  <1> DEFINE ahead == Ahead(keys, c)
  <1>1. ahead \subseteq keys /\ c # None
    BY DEF Ahead
  <1>2. IsFiniteSet(ahead) /\ Cardinality(ahead) \in Nat /\ Cardinality(keys) \in Nat
    BY <1>1, FS_Subset, FS_CardinalityType
  <1>3. q + Cardinality(ahead) < Cardinality(keys)
    BY <1>1 DEF GoesRound
  <1>4. CASE ahead = {}
    <2>1. Cardinality(ahead) = 0
      BY <1>4, FS_EmptySet
    <2> QED  BY <1>2, <1>3, <1>4, <2>1 DEF GoesRound
  <1>5. CASE ahead # {}
    <2>1. l \in ahead /\ l # None
      BY <1>1, <1>5
    <2>2. Ahead(keys, l) \subseteq ahead \ {l}
      <3>1. l \in Nat /\ c \in Nat /\ l > c /\ \A k \in keys : k \in Nat
        BY <1>1, <2>1 DEF Ahead
      <3>2. \A k \in keys : k > l => k > c /\ k # l
        BY <3>1
      <3> QED  BY <3>2 DEF Ahead
    <2>3. IsFiniteSet(ahead \ {l}) /\ Cardinality(ahead \ {l}) = Cardinality(ahead) - 1
      BY <1>2, <2>1, FS_RemoveElement
    <2>4. Cardinality(Ahead(keys, l)) <= Cardinality(ahead \ {l}) /\ Cardinality(Ahead(keys, l)) \in Nat
      BY <2>2, <2>3, FS_Subset, FS_CardinalityType
    <2> QED  BY <1>2, <1>3, <2>1, <2>3, <2>4 DEF GoesRound
  <1> QED  BY <1>4, <1>5

\* What is done stays done while the ledger stays as it is.
LEMMA DoneStays ==
  ASSUME createdAt' = createdAt, corpusActions \subseteq corpusActions',
         DOMAIN corpusEffects \subseteq DOMAIN corpusEffects'
  PROVE  /\ recorded' = recorded /\ RunKeys' = RunKeys /\ Enough' = Enough
         /\ \A r \in Runs : Compiled(r)' = Compiled(r) /\ (CompiledDone(r) => CompiledDone(r)')
         /\ KeysDone => KeysDone'
  <1>1. recorded' = recorded
    BY DEF recorded
  <1>2. RunKeys' = RunKeys /\ Enough' = Enough
    BY <1>1 DEF RunKeys, Enough
  <1>3. \A r \in Runs : Compiled(r)' = Compiled(r)
    BY <1>1 DEF Compiled, LedgerOrder, InLedgerOrder, Before
  <1>4. \A r \in Runs : CompiledDone(r) => CompiledDone(r)'
    BY <1>3 DEF CompiledDone
  <1> QED  BY <1>1, <1>2, <1>3, <1>4 DEF KeysDone

-----------------------------------------------------------------------------
\* A step of the sync, between the ledger as it is and the invariant.
LEMMA StartSyncStep == ASSUME SyncInv, StartSync, active = "corpus", active' = active PROVE SyncInv'
  <1> USE DEF StartSync, cursors
  <1>1. createdAt' = createdAt
    BY DEF outboxVars, ledgerVars
  <1>2. /\ recorded' = recorded /\ RunKeys' = RunKeys /\ Enough' = Enough
        /\ KeysDone => KeysDone'
    BY <1>1, DoneStays
  <1>3. SyncTypes'
    BY <1>2 DEF SyncInv, SyncTypes
  <1>4. RunsAreImported'
    BY DEF SyncInv, RunsAreImported
  <1>5. EventsGoRound'
    BY <1>2 DEF SyncInv, EventsGoRound, EventSyncs
  <1>6. KeysGoRound'
    BY <1>2 DEF SyncInv, KeysGoRound
  <1> QED  BY <1>3, <1>4, <1>5, <1>6 DEF SyncInv

LEMMA ImportRunsStep == ASSUME SyncInv, ImportRuns, active = "corpus", active' = active PROVE SyncInv'
  <1> USE DEF ImportRuns
  <1>1. createdAt' = createdAt
    BY DEF outboxVars, ledgerVars
  <1>2. /\ recorded' = recorded /\ RunKeys' = RunKeys /\ Enough' = Enough
        /\ KeysDone => KeysDone'
    BY <1>1, DoneStays
  <1>3. SyncTypes'
    BY <1>2 DEF SyncInv, SyncTypes
  <1>4. RunsAreImported'
    <2> DEFINE found == {r \in Taped : Past(r, runsCursor)}
    <2>1. Range(NewRunRows) = found
      <3>1. found \in SUBSET Nat /\ IsFiniteSet(found)
        BY CorpusAssumption, FS_Subset
      <3>2. IsListing(NewRunRows, found)
        BY <3>1, InOrderLists DEF NewRunRows
      <3> HIDE DEF found
      <3> QED  BY <3>1, <3>2, ListingProperties
    <2>2. \A r \in Runs : corpusRuns'[r] # None => r \in Taped
      BY <2>1 DEF SyncInv, RunsAreImported
    <2>3. \A r \in Taped : corpusRuns'[r] # None
      <3> SUFFICES ASSUME NEW r \in Taped PROVE corpusRuns'[r] # None
        OBVIOUS
      <3>1. r \in Runs /\ "completed" # None /\ "started" # None
        BY CorpusAssumption
      <3>2. CASE runsCursor = None
        BY <2>1, <3>1, <3>2 DEF Past
      <3>3. CASE runsCursor # None
        BY <3>1, <3>3 DEF SyncInv, RunsAreImported
      <3> QED  BY <3>2, <3>3
    <2> QED  BY <2>2, <2>3 DEF RunsAreImported
  <1>5. EventsGoRound'
    BY <1>2 DEF SyncInv, EventsGoRound, EventSyncs
  <1>6. KeysGoRound'
    BY <1>2 DEF SyncInv, KeysGoRound
  <1> QED  BY <1>3, <1>4, <1>5, <1>6 DEF SyncInv

LEMMA ImportHookEventsStep ==
  ASSUME OutboxInv, SyncInv, ImportHookEvents, active = "corpus", active' = active
  PROVE  SyncInv'
  <1> USE DEF ImportHookEvents
  <1> DEFINE found == {e \in recorded : Past(e, eventsCursor)}
  <1>1. createdAt' = createdAt
    BY DEF outboxVars, ledgerVars
  <1>2. /\ recorded' = recorded /\ RunKeys' = RunKeys /\ Enough' = Enough
        /\ KeysDone => KeysDone'
    BY <1>1, DoneStays
  <1>3. /\ Range(NewEventRows) = found
        /\ IF found = {} THEN eventsCursor' = None ELSE eventsCursor' \in found
    <2>1. found \in SUBSET Events
      BY RecordedAreEvents
    <2>2. IsFiniteSet(found) /\ IsListing(NewEventRows, found)
      BY <2>1, LedgerLists DEF NewEventRows, OutboxInv, OutboxTypes
    <2>3. PICK S, s : S = found /\ s = NewEventRows
      OBVIOUS
    <2>4. Range(s) = S
      BY <2>2, <2>3, ListingProperties
    <2>5. PICK c : c = eventsCursor
      OBVIOUS
    <2>6. IF S = {} THEN NextCursor(s, c) = None ELSE NextCursor(s, c) \in S
      BY <2>2, <2>3, NextCursorOf
    <2> QED  BY <2>3, <2>4, <2>5, <2>6
  <1>4. SyncTypes'
    BY <1>2, <1>3 DEF SyncInv, SyncTypes
  <1>5. RunsAreImported'
    BY DEF SyncInv, RunsAreImported
  <1>6. EventsGoRound'
    <2>1. CASE recorded \subseteq corpusEvents
      BY <1>2, <2>1 DEF EventsGoRound
    <2>2. CASE eventsCursor = None
      BY <1>2, <1>3, <2>2 DEF EventsGoRound, Past
    <2>3. CASE eventsCursor # None /\ ~(recorded \subseteq corpusEvents)
      <3>1. eventsCursor \in recorded /\ quiet \in Int
        BY <2>3 DEF SyncInv, SyncTypes
      <3>2. GoesRound(Cardinality(recorded), recorded, eventsCursor, quiet)
        BY <2>3 DEF SyncInv, EventsGoRound, EventSyncs
      <3>3. PICK n, keys, c, q, l : /\ n = Cardinality(recorded) /\ keys = recorded
                                    /\ c = eventsCursor /\ q = quiet /\ l = eventsCursor'
        OBVIOUS
      <3>4. found = Ahead(keys, c)
        BY <2>3, <3>3 DEF Ahead, Past
      <3>5. IF Ahead(keys, c) = {} THEN l = None ELSE l \in Ahead(keys, c)
        BY <1>3, <3>3, <3>4
      <3>6. /\ n \in Nat /\ keys \in SUBSET Nat /\ IsFiniteSet(keys) /\ None \notin keys
            /\ Cardinality(keys) <= n /\ c \in keys /\ q \in Int /\ GoesRound(n, keys, c, q)
        BY <3>1, <3>2, <3>3, RecordedAreEvents
      <3>7. GoesRound(n, keys, l, q + 1)
        BY <3>5, <3>6, RoundMoves
      <3> QED  BY <1>2, <3>3, <3>7 DEF EventsGoRound, EventSyncs
    <2> QED  BY <2>1, <2>2, <2>3
  <1>7. KeysGoRound'
    BY <1>2 DEF SyncInv, KeysGoRound
  <1> QED  BY <1>4, <1>5, <1>6, <1>7 DEF SyncInv

LEMMA ListRunKeysStep ==
  ASSUME SyncInv, ListRunKeys, active = "corpus", active' = active PROVE SyncInv'
  <1> USE DEF ListRunKeys, cursors
  <1> DEFINE found == {r \in RunKeys : Past(r, effectsCursor)}
  <1>1. createdAt' = createdAt
    BY DEF outboxVars, ledgerVars
  <1>2. /\ recorded' = recorded /\ RunKeys' = RunKeys /\ Enough' = Enough
        /\ KeysDone => KeysDone'
    BY <1>1, DoneStays
  <1>3. /\ todo' \in Seq(Runs) /\ Range(todo') = found
        /\ IF found = {} THEN lastKey' = None ELSE lastKey' \in found
    <2>1. PICK S, s, c : S = found /\ s = NewRunKeys /\ c = effectsCursor
      OBVIOUS
    <2>2. S \in SUBSET Nat /\ S \in SUBSET Runs /\ IsFiniteSet(S)
      BY <2>1, KeysOfRows, FS_Subset
    <2>3. IsListing(s, S)
      BY <2>1, <2>2, InOrderLists DEF NewRunKeys
    <2>4. s \in Seq(S) /\ Range(s) = S
      BY <2>2, <2>3, ListingProperties
    <2>5. s \in Seq(Runs)
      BY <2>2, <2>4, SeqMonotonic
    <2>6. IF S = {} THEN NextCursor(s, c) = None ELSE NextCursor(s, c) \in S
      BY <2>2, <2>3, NextCursorOf
    <2> QED  BY <2>1, <2>4, <2>5, <2>6
  <1>4. SyncTypes'
    BY <1>2, <1>3 DEF SyncInv, SyncTypes
  <1>5. RunsAreImported'
    BY DEF SyncInv, RunsAreImported
  <1>6. EventsGoRound'
    BY <1>2 DEF SyncInv, EventsGoRound, EventSyncs
  <1>7. KeysGoRound'
    <2>1. KeysDone \/ GoesRound(Cardinality(recorded), RunKeys, effectsCursor, quiet)
      BY DEF SyncInv, KeysGoRound
    <2>2. effectsCursor = None => \A r \in RunKeys : r \in Range(todo')
      BY <1>3 DEF Past
    <2>3. IF \E r \in RunKeys : Past(r, effectsCursor)
          THEN lastKey' \in RunKeys /\ Past(lastKey', effectsCursor) ELSE lastKey' = None
      BY <1>3
    <2>4. Past(lastKey, effectsCursor)' <=> Past(lastKey', effectsCursor)
      BY DEF Past
    <2>5. \A r \in RunKeys : Past(r, effectsCursor)' <=> Past(r, effectsCursor)
      BY DEF Past
    <2> QED  BY <1>2, <2>1, <2>2, <2>3, <2>4, <2>5 DEF KeysGoRound
  <1> QED  BY <1>4, <1>5, <1>6, <1>7 DEF SyncInv

LEMMA HeadAndTail ==
  ASSUME NEW S, NEW s \in Seq(S), s # <<>>
  PROVE  /\ Head(s) \in S /\ Tail(s) \in Seq(S)
         /\ Range(s) = {Head(s)} \cup Range(Tail(s))
  <1>1. Len(s) \in Nat \ {0} /\ DOMAIN s = 1 .. Len(s)
    BY EmptySeq, LenProperties
  <1>2. /\ Head(s) \in S /\ Tail(s) \in Seq(S) /\ Head(s) = s[1] /\ Len(Tail(s)) = Len(s) - 1
        /\ DOMAIN Tail(s) = 1 .. Len(s) - 1
        /\ \A i \in 1 .. Len(s) - 1 : Tail(s)[i] = s[i + 1]
    BY <1>1
  <1>3. \A i \in 1 .. Len(s) : i = 1 \/ (i - 1 \in 1 .. Len(s) - 1 /\ s[i] = Tail(s)[i - 1])
    BY <1>1, <1>2
  <1>4. \A i \in 1 .. Len(s) - 1 : i + 1 \in 1 .. Len(s)
    BY <1>1
  <1>5. Range(s) \subseteq {Head(s)} \cup Range(Tail(s))
    <2> SUFFICES ASSUME NEW i \in 1 .. Len(s), s[i] # Head(s) PROVE s[i] \in Range(Tail(s))
      BY <1>1 DEF Range
    <2>1. i - 1 \in DOMAIN Tail(s) /\ s[i] = Tail(s)[i - 1]
      BY <1>2, <1>3
    <2> QED  BY <2>1 DEF Range
  <1>6. {Head(s)} \cup Range(Tail(s)) \subseteq Range(s)
    BY <1>1, <1>2, <1>4 DEF Range
  <1> QED  BY <1>2, <1>5, <1>6

LEMMA CompileRunStep ==
  ASSUME OutboxInv, SyncInv, CompileRun, active = "corpus", active' = active PROVE SyncInv'
  <1> USE DEF CompileRun, cursors
  <1> DEFINE run == Head(todo)
             trace == Compiled(run)
             found == {a.event : a \in Range(trace)}
  <1>1. createdAt' = createdAt
    BY DEF outboxVars, ledgerVars
  <1>2. PICK r \in Runs : r = run
    BY HeadAndTail DEF SyncInv, SyncTypes
  <1>3. Tail(todo) \in Seq(Runs) /\ Range(todo) = {r} \cup Range(Tail(todo))
    BY <1>2, HeadAndTail DEF SyncInv, SyncTypes
  <1>4. {a.event : a \in Range(Compiled(r))} \subseteq recorded
    BY CompiledOfRows DEF OutboxInv, OutboxTypes
  <1>5. /\ corpusActions' = corpusActions \cup {a.event : a \in Range(Compiled(r))}
        /\ corpusEffects' = IF Compiled(r) = <<>> \/ r \in DOMAIN corpusEffects THEN corpusEffects
                            ELSE [k \in DOMAIN corpusEffects \cup {r} |->
                                    IF k = r THEN Effect(Compiled(r)) ELSE corpusEffects[k]]
    BY <1>2
  <1>6. /\ DOMAIN corpusEffects \subseteq DOMAIN corpusEffects'
        /\ DOMAIN corpusEffects' \subseteq DOMAIN corpusEffects \cup {r}
        /\ Compiled(r) # <<>> => r \in DOMAIN corpusEffects'
    BY <1>5
  <1>7. /\ recorded' = recorded /\ RunKeys' = RunKeys /\ Enough' = Enough
        /\ \A k \in Runs : Compiled(k)' = Compiled(k) /\ (CompiledDone(k) => CompiledDone(k)')
        /\ KeysDone => KeysDone'
    BY <1>1, <1>5, <1>6, DoneStays
  <1>8. CompiledDone(r)'
    BY <1>5, <1>6, <1>7 DEF CompiledDone
  <1>9. SyncTypes'
    BY <1>3, <1>4, <1>5, <1>6, <1>7 DEF SyncInv, SyncTypes
  <1>10. RunsAreImported'
    BY DEF SyncInv, RunsAreImported
  <1>11. EventsGoRound'
    BY <1>7 DEF SyncInv, EventsGoRound, EventSyncs
  <1>12. KeysGoRound'
    <2>0. /\ phase = "compile" /\ phase' = phase /\ lastKey' = lastKey /\ effectsCursor' = effectsCursor
          /\ quiet' = quiet /\ todo' = Tail(todo)
      OBVIOUS
    <2> DEFINE listed == IF \E k \in RunKeys : Past(k, effectsCursor)
                         THEN lastKey \in RunKeys /\ Past(lastKey, effectsCursor) ELSE lastKey = None
               goes == GoesRound(Cardinality(recorded), RunKeys, effectsCursor, quiet)
               all == effectsCursor = None => \A k \in RunKeys : CompiledDone(k) \/ k \in Range(todo)
    <2> SUFFICES ASSUME quiet >= 0 PROVE listed' /\ (KeysDone' \/ (goes' /\ all'))
      BY <2>0 DEF KeysGoRound
    <2>1. listed /\ (KeysDone \/ (goes /\ all))
      BY <2>0 DEF SyncInv, KeysGoRound
    <2>2. listed'
      <3>1. \A k : Past(k, effectsCursor)' <=> Past(k, effectsCursor)
        BY <2>0 DEF Past
      <3>2. Past(lastKey, effectsCursor)' <=> Past(lastKey, effectsCursor)
        BY <2>0 DEF Past
      <3> QED  BY <1>7, <2>0, <2>1, <3>1, <3>2
    <2>3. goes => goes'
      BY <1>7, <2>0 DEF GoesRound, Ahead
    <2>4. all => all'
      <3>1. Range(todo)' = Range(Tail(todo))
        BY <2>0
      <3> QED  BY <1>3, <1>7, <1>8, <2>0, <3>1, KeysOfRows
    <2> QED  BY <1>7, <2>1, <2>2, <2>3, <2>4
  <1> QED  BY <1>9, <1>10, <1>11, <1>12 DEF SyncInv

LEMMA LeastAndGreatest ==
  ASSUME NEW a \in Int, NEW b \in Int
  PROVE  /\ Min({a, b}) = IF a <= b THEN a ELSE b
         /\ Max({a, b}) = IF a <= b THEN b ELSE a
  <1>1. Min({a, b}) \in {a, b} /\ \A y \in {a, b} : Min({a, b}) <= y
    <2>1. \E x \in {a, b} : \A y \in {a, b} : x <= y
      <3>1. a <= b \/ b <= a
        OBVIOUS
      <3> QED  BY <3>1
    <2> QED  BY <2>1 DEF Min
  <1>2. Max({a, b}) \in {a, b} /\ \A y \in {a, b} : y <= Max({a, b})
    <2>1. \E x \in {a, b} : \A y \in {a, b} : y <= x
      <3>1. a <= b \/ b <= a
        OBVIOUS
      <3> QED  BY <3>1
    <2> QED  BY <2>1 DEF Max
  <1> QED  BY <1>1, <1>2

\* A cursor that has gone round so far has done so for any smaller number of syncs.
LEMMA EventsStay ==
  ASSUME SyncInv, NEW q \in Int, q <= EventSyncs \/ q <= 0
  PROVE  recorded \subseteq corpusEvents \/ GoesRound(Cardinality(recorded), recorded, eventsCursor, q)
  <1> SUFFICES ASSUME ~(recorded \subseteq corpusEvents)
               PROVE  GoesRound(Cardinality(recorded), recorded, eventsCursor, q)
    OBVIOUS
  <1>1. PICK n, keys, c, r : n = Cardinality(recorded) /\ keys = recorded /\ c = eventsCursor /\ r = EventSyncs
    OBVIOUS
  <1>2. /\ n \in Nat /\ keys \in SUBSET Nat /\ IsFiniteSet(keys) /\ None \notin keys
        /\ c \in keys \cup {None} /\ r \in Int /\ GoesRound(n, keys, c, r)
    BY <1>1, RecordedAreEvents DEF SyncInv, SyncTypes, EventsGoRound, EventSyncs
  <1>3. GoesRound(n, keys, c, q)
    <2>1. CASE q <= r
      BY <1>2, <2>1, RoundStays
    <2>2. CASE q <= 0
      BY <1>2, <2>2, RoundStarts
    <2> QED  BY <1>1, <2>1, <2>2
  <1> QED  BY <1>1, <1>3

\* When all run keys have been compiled, no run is left.
LEMMA AllKeysDone ==
  ASSUME OutboxInv, \A r \in RunKeys : CompiledDone(r)
  PROVE  KeysDone
  <1> SUFFICES ASSUME NEW r \in Runs, r \notin RunKeys PROVE CompiledDone(r)
    BY DEF KeysDone
  <1>1. Compiled(r) = <<>>
    BY CompiledOfRows DEF OutboxInv, OutboxTypes
  <1>2. Range(<<>>) = {}
    BY DEF Range
  <1> QED  BY <1>1, <1>2 DEF CompiledDone

LEMMA FinishSyncStep ==
  ASSUME OutboxInv, SyncInv, FinishSync, active = "corpus", active' = active PROVE SyncInv'
  <1> USE DEF FinishSync
  <1>1. createdAt' = createdAt
    BY DEF outboxVars, ledgerVars
  <1>2. /\ recorded' = recorded /\ RunKeys' = RunKeys /\ Enough' = Enough
        /\ KeysDone => KeysDone'
    BY <1>1, DoneStays
  <1>3. Enough \in Nat /\ quiet \in Int /\ quiet >= -1
    BY RecordedAreEvents DEF Enough, SyncInv, SyncTypes
  <1>4. quiet' \in Int /\ quiet' >= 0 /\ quiet' <= Enough /\ quiet' <= quiet + 1
    BY <1>3, LeastAndGreatest
  <1>5. SyncTypes'
    BY <1>2, <1>4 DEF SyncInv, SyncTypes
  <1>6. RunsAreImported'
    BY DEF SyncInv, RunsAreImported
  <1>7. EventsGoRound'
    <2>1. EventSyncs = quiet + 1
      BY DEF EventSyncs
    <2>2. PICK q \in Int : q = quiet'
      BY <1>4
    <2>3. recorded \subseteq corpusEvents \/ GoesRound(Cardinality(recorded), recorded, eventsCursor, q)
      BY <1>4, <2>1, <2>2, EventsStay
    <2> QED  BY <1>2, <2>2, <2>3 DEF EventsGoRound, EventSyncs
  <1>8. KeysGoRound'
    <2> SUFFICES ASSUME ~KeysDone
                 PROVE  GoesRound(Cardinality(recorded), RunKeys, lastKey, quiet')
      BY <1>2 DEF KeysGoRound
    <2>1. PICK n, keys, c, l, q, r : /\ n = Cardinality(recorded) /\ keys = RunKeys /\ c = effectsCursor
                                     /\ l = lastKey /\ q = quiet /\ r = quiet'
      OBVIOUS
    <2>2. /\ n \in Nat /\ keys \in SUBSET Nat /\ IsFiniteSet(keys) /\ None \notin keys /\ Cardinality(keys) <= n
          /\ c \in keys \cup {None} /\ l \in keys \cup {None} /\ q \in Int /\ r \in Int /\ r <= q + 1 /\ q + 1 \in Int
      BY <1>3, <1>4, <2>1, RecordedAreEvents, KeysOfRows DEF SyncInv, SyncTypes
    <2>3. CASE quiet < 0
      <3>1. r <= 0
        BY <1>3, <1>4, <2>1, <2>3
      <3> QED  BY <2>1, <2>2, <3>1, RoundStarts
    <2>4. CASE quiet >= 0
      <3>1. /\ IF \E k \in RunKeys : Past(k, effectsCursor)
               THEN lastKey \in RunKeys /\ Past(lastKey, effectsCursor) ELSE lastKey = None
            /\ GoesRound(Cardinality(recorded), RunKeys, effectsCursor, quiet)
            /\ effectsCursor = None => \A k \in RunKeys : CompiledDone(k) \/ k \in Range(todo)
        BY <2>4 DEF SyncInv, KeysGoRound
      <3>2. effectsCursor # None
        <4>1. Range(todo) = {}
          BY DEF Range
        <4> QED  BY <3>1, <4>1, AllKeysDone
      <3>3. IF Ahead(keys, c) = {} THEN l = None ELSE l \in Ahead(keys, c)
        BY <2>1, <3>1, <3>2 DEF Ahead, Past
      <3>4. c \in keys /\ GoesRound(n, keys, c, q)
        BY <2>1, <2>2, <3>1, <3>2
      <3>5. GoesRound(n, keys, l, q + 1)
        BY <2>2, <3>3, <3>4, RoundMoves
      <3>6. GoesRound(n, keys, l, r)
        BY <2>2, <3>5, RoundStays
      <3> QED  BY <2>1, <3>6
    <2> QED  BY <1>3, <2>3, <2>4
  <1> QED  BY <1>5, <1>6, <1>7, <1>8 DEF SyncInv

\* The same for the run keys.
LEMMA KeysStay ==
  ASSUME SyncInv, NEW q \in Int, q <= quiet \/ q <= 0
  PROVE  KeysDone \/ GoesRound(Cardinality(recorded), RunKeys, effectsCursor, q)
  <1> SUFFICES ASSUME ~KeysDone PROVE GoesRound(Cardinality(recorded), RunKeys, effectsCursor, q)
    OBVIOUS
  <1>1. PICK n, keys, c, r : n = Cardinality(recorded) /\ keys = RunKeys /\ c = effectsCursor /\ r = quiet
    OBVIOUS
  <1>2. /\ n \in Nat /\ keys \in SUBSET Nat /\ IsFiniteSet(keys) /\ None \notin keys
        /\ c \in keys \cup {None} /\ r \in Int
    BY <1>1, RecordedAreEvents, KeysOfRows DEF SyncInv, SyncTypes
  <1>3. CASE q <= 0
    <2>1. GoesRound(n, keys, c, q)
      BY <1>2, <1>3, RoundStarts
    <2> QED  BY <1>1, <2>1
  <1>4. CASE q > 0
    <2>1. q <= r /\ quiet >= 0
      BY <1>1, <1>2, <1>4
    <2>2. GoesRound(n, keys, c, r)
      BY <1>1, <2>1 DEF SyncInv, KeysGoRound
    <2>3. GoesRound(n, keys, c, q)
      BY <1>2, <2>1, <2>2, RoundStays
    <2> QED  BY <1>1, <2>3
  <1> QED  BY <1>3, <1>4

\* A sync that stops half way keeps the rows it has imported and moves no cursor.
LEMMA FailImportStep ==
  ASSUME OutboxInv, SyncInv, FailImport, active = "corpus", active' = active PROVE SyncInv'
  <1> USE DEF FailImport, cursors
  <1>1. createdAt' = createdAt
    BY DEF ledgerVars
  <1>2. /\ recorded' = recorded /\ RunKeys' = RunKeys /\ Enough' = Enough
        /\ KeysDone => KeysDone'
    BY <1>1, DoneStays
  <1>3. Enough \in Nat /\ quiet \in Int /\ quiet >= -1 /\ quiet <= Enough
    BY RecordedAreEvents DEF Enough, SyncInv, SyncTypes
  <1>4. quiet' = IF quiet <= 0 THEN 0 ELSE quiet
    <2>1. PICK q \in Int : q = quiet
      BY <1>3
    <2>2. quiet' = Max({q, 0})
      BY <2>1
    <2> HIDE DEF FailImport
    <2> QED  BY <2>1, <2>2, LeastAndGreatest
  <1>5. corpusEvents \subseteq corpusEvents' /\ corpusEvents' \subseteq recorded
    <2>1. corpusEvents \subseteq recorded
      BY DEF SyncInv, SyncTypes
    <2>2. CASE phase # "events"
      BY <2>1, <2>2
    <2>3. CASE phase = "events"
      <3>1. PICK n \in 0 .. Len(NewEventRows) :
              corpusEvents' = corpusEvents \cup Range(SubSeq(NewEventRows, 1, n))
        BY <2>3
      <3>2. PICK S : S = {e \in recorded : Past(e, eventsCursor)}
        OBVIOUS
      <3>3. S \in SUBSET Events
        BY <3>2, RecordedAreEvents
      <3>4. IsFiniteSet(S) /\ IsListing(NewEventRows, S)
        BY <3>2, <3>3, LedgerLists DEF NewEventRows, OutboxInv, OutboxTypes
      <3>5. PICK s : s = NewEventRows
        OBVIOUS
      <3>6. s \in Seq(S)
        BY <3>4, <3>5, ListingProperties
      <3>7. SubSeq(s, 1, n) \in Seq(S)
        BY <3>1, <3>5, <3>6, SubSeqProperties
      <3>8. Range(SubSeq(s, 1, n)) \subseteq S
        BY <3>7 DEF Range
      <3> QED  BY <2>1, <3>1, <3>2, <3>5, <3>8
    <2> QED  BY <2>2, <2>3
  <1>6. SyncTypes'
    <2>1. <<>> \in Seq(Runs) /\ Range(<<>>) = {}
      BY DEF Range
    <2> QED  BY <1>2, <1>3, <1>4, <1>5, <2>1 DEF SyncInv, SyncTypes
  <1>7. RunsAreImported'
    BY <1>3, <1>4 DEF SyncInv, RunsAreImported
  <1>8. PICK q \in Int : q = quiet' /\ (q <= quiet \/ q <= 0)
    BY <1>3, <1>4
  <1>9. EventsGoRound'
    <2>1. q <= EventSyncs \/ q <= 0
      BY <1>3, <1>8 DEF EventSyncs
    <2>2. recorded \subseteq corpusEvents \/ GoesRound(Cardinality(recorded), recorded, eventsCursor, q)
      BY <2>1, EventsStay
    <2> QED  BY <1>2, <1>5, <1>8, <2>2 DEF EventsGoRound, EventSyncs
  <1>10. KeysGoRound'
    BY <1>2, <1>8, KeysStay DEF KeysGoRound
  <1> QED  BY <1>6, <1>7, <1>9, <1>10 DEF SyncInv

-----------------------------------------------------------------------------
\* Where neither the ledger nor the sync moves, nothing changes.
LEMMA SyncStays ==
  ASSUME SyncInv, UNCHANGED <<createdAt, syncVars, quiet, active>> PROVE SyncInv'
  <1>1. /\ createdAt' = createdAt /\ phase' = phase /\ todo' = todo /\ corpusRuns' = corpusRuns
        /\ corpusEvents' = corpusEvents /\ corpusActions' = corpusActions /\ corpusEffects' = corpusEffects
        /\ runsCursor' = runsCursor /\ eventsCursor' = eventsCursor /\ effectsCursor' = effectsCursor
        /\ lastKey' = lastKey /\ syncBatch' = syncBatch /\ quiet' = quiet /\ active' = active
    BY DEF syncVars, cursors
  <1>2. /\ recorded' = recorded /\ RunKeys' = RunKeys /\ Enough' = Enough
        /\ \A r \in Runs : CompiledDone(r) => CompiledDone(r)'
        /\ KeysDone => KeysDone'
    BY <1>1, DoneStays
  <1>3. SyncTypes' /\ RunsAreImported' /\ EventsGoRound'
    BY <1>1, <1>2 DEF SyncInv, SyncTypes, RunsAreImported, EventsGoRound, EventSyncs
  <1>4. KeysGoRound'
    <2> DEFINE listed == IF \E k \in RunKeys : Past(k, effectsCursor)
                         THEN lastKey \in RunKeys /\ Past(lastKey, effectsCursor) ELSE lastKey = None
               goes == GoesRound(Cardinality(recorded), RunKeys, effectsCursor, quiet)
               all == effectsCursor = None => \A k \in RunKeys : CompiledDone(k) \/ k \in Range(todo)
    <2>1. listed => listed'
      <3>1. \A k : Past(k, effectsCursor)' <=> Past(k, effectsCursor)
        BY <1>1 DEF Past
      <3>2. Past(lastKey, effectsCursor)' <=> Past(lastKey, effectsCursor)
        BY <1>1 DEF Past
      <3> QED  BY <1>1, <1>2, <3>1, <3>2
    <2>2. goes => goes'
      BY <1>1, <1>2 DEF GoesRound, Ahead
    <2>3. all => all'
      <3>1. Range(todo)' = Range(todo)
        BY <1>1
      <3> QED  BY <1>1, <1>2, <3>1, KeysOfRows
    <2>4. IF phase # "compile" THEN KeysDone \/ goes ELSE quiet >= 0 => listed /\ (KeysDone \/ (goes /\ all))
      BY DEF SyncInv, KeysGoRound
    <2>5. IF phase # "compile" THEN KeysDone' \/ goes'
          ELSE quiet >= 0 => listed' /\ (KeysDone' \/ (goes' /\ all'))
      BY <1>2, <2>1, <2>2, <2>3, <2>4
    <2> QED  BY <1>1, <2>5 DEF KeysGoRound
  <1> QED  BY <1>1, <1>3, <1>4 DEF SyncInv

\* New rows: every cursor has its round before it, and a sync that is under way does not count.
LEMMA LedgerGrowsStep ==
  ASSUME SyncInv, LedgerGrows, UNCHANGED <<syncVars, active>>, quiet' = IF phase = "idle" THEN 0 ELSE -1
  PROVE  SyncInv'
  <1>1. /\ phase' = phase /\ todo' = todo /\ corpusRuns' = corpusRuns
        /\ corpusEvents' = corpusEvents /\ corpusActions' = corpusActions /\ corpusEffects' = corpusEffects
        /\ runsCursor' = runsCursor /\ eventsCursor' = eventsCursor /\ effectsCursor' = effectsCursor
        /\ lastKey' = lastKey /\ syncBatch' = syncBatch /\ active' = active
    BY DEF syncVars, cursors
  <1>2. PICK n, rows, keys : n = Cardinality(recorded') /\ rows = recorded' /\ keys = RunKeys'
    OBVIOUS
  <1>3. /\ rows \in SUBSET Nat /\ IsFiniteSet(rows) /\ None \notin rows /\ n \in Nat
        /\ recorded \subseteq rows
    <2>1. rows \in SUBSET Events
      BY <1>2 DEF recorded
    <2> QED  BY <1>2, <2>1, OutboxAssumption, CorpusAssumption, FS_Subset, FS_CardinalityType DEF LedgerGrows
  <1>4. /\ keys \in SUBSET Nat /\ IsFiniteSet(keys) /\ None \notin keys /\ RunKeys \subseteq keys
    <2>1. keys = {RunKey(Row[e]) : e \in rows} \ {None} /\ rows \subseteq Events
      BY <1>2 DEF RunKeys, recorded
    <2>2. keys \in SUBSET Runs
      BY <2>1, CorpusAssumption
    <2> QED  BY <1>3, <2>1, <2>2, CorpusAssumption, FS_Subset DEF RunKeys
  <1>5. PICK c, d, q : c = eventsCursor /\ d = effectsCursor /\ q = quiet'
    OBVIOUS
  <1>6. c \in rows \cup {None} /\ d \in keys \cup {None} /\ q \in Int /\ q <= 0 /\ q >= -1
    BY <1>3, <1>4, <1>5 DEF SyncInv, SyncTypes
  <1>7. SyncTypes'
    <2>1. Enough' \in Nat
      BY <1>2, <1>3 DEF Enough
    <2>2. quiet' \in Int /\ quiet' >= -1 /\ quiet' <= Enough'
      BY <1>5, <1>6, <2>1
    <2>3. todo' \in Seq(Runs) /\ Range(todo') \subseteq RunKeys'
      BY <1>1, <1>2, <1>4 DEF SyncInv, SyncTypes
    <2>4. corpusEvents' \subseteq recorded' /\ corpusActions' \subseteq recorded' /\ DOMAIN corpusEffects' \subseteq RunKeys'
      BY <1>1, <1>2, <1>3, <1>4 DEF SyncInv, SyncTypes
    <2>5. eventsCursor' \in recorded' \cup {None} /\ effectsCursor' \in RunKeys' \cup {None}
          /\ lastKey' \in RunKeys' \cup {None}
      BY <1>1, <1>2, <1>3, <1>4 DEF SyncInv, SyncTypes
    <2>6. /\ phase' \in {"idle", "runs", "events", "keys", "compile"}
          /\ corpusRuns' \in [Runs -> {None, "started", "completed"}]
          /\ syncBatch' \in {None, "running", "completed", "failed"}
      BY <1>1 DEF SyncInv, SyncTypes
    <2> QED  BY <2>2, <2>3, <2>4, <2>5, <2>6 DEF SyncTypes
  <1>8. RunsAreImported'
    BY <1>1, <1>5, <1>6 DEF SyncInv, RunsAreImported
  <1>9. EventsGoRound'
    <2>1. PICK p \in Int : p = EventSyncs' /\ p <= 0
      BY <1>1, <1>5, <1>6 DEF EventSyncs
    <2>2. GoesRound(n, rows, c, p)
      BY <1>3, <1>6, <2>1, RoundStarts
    <2> QED  BY <1>1, <1>2, <1>5, <2>1, <2>2 DEF EventsGoRound
  <1>10. KeysGoRound'
    <2>1. CASE phase # "compile"
      <3>1. GoesRound(n, keys, d, q)
        BY <1>3, <1>4, <1>6, RoundStarts
      <3> QED  BY <1>1, <1>2, <1>5, <2>1, <3>1 DEF KeysGoRound
    <2>2. CASE phase = "compile"
      BY <1>1, <2>2 DEF KeysGoRound
    <2> QED  BY <2>1, <2>2
  <1>11. active # "corpus" => phase = "idle" /\ quiet = 0
    BY DEF SyncInv
  <1> QED  BY <1>1, <1>7, <1>8, <1>9, <1>10, <1>11 DEF SyncInv

\* No step of the outbox takes a row from the ledger.
LEMMA OutboxNextGrows == ASSUME OutboxInv, OutboxNext PROVE LedgerGrows
  <1>1. OutboxTypes
    BY DEF OutboxInv
  <1>2. CASE createdAt' = createdAt
    BY <1>2 DEF LedgerGrows, recorded
  <1>3. ASSUME NEW events \in SUBSET Events, RecordAll(events) PROVE LedgerGrows
    BY <1>1, <1>3, RecordAllRecords DEF LedgerGrows
  <1>4. ASSUME NEW c \in Consumers, CommitBatch(c) PROVE LedgerGrows
    <2>1. batch[c].events \in SUBSET Events
      BY <1>1 DEF OutboxTypes
    <2> QED  BY <1>3, <1>4, <2>1 DEF CommitBatch
  <1> QED
    BY <1>2, <1>3, <1>4 DEF OutboxNext, WriteLine, Truncate, PostEvents, Consume, ReadOutbox, RollBack, ledgerVars

-----------------------------------------------------------------------------
LEMMA InitSyncInv == OutboxInit /\ SyncInit => SyncInv
  <1> SUFFICES ASSUME OutboxInit, SyncInit PROVE SyncInv
    OBVIOUS
  <1> USE DEF SyncInit
  <1>1. recorded = {}
    BY DEF OutboxInit, recorded
  <1>2. /\ RunKeys = {} /\ Enough \in Nat /\ Cardinality(recorded) \in Nat
        /\ <<>> \in Seq(Runs) /\ Range(<<>>) = {} /\ DOMAIN corpusEffects = {}
    BY <1>1, RecordedAreEvents DEF RunKeys, Enough, Range
  <1>3. SyncTypes
    <2>1. corpusRuns \in [Runs -> {None, "started", "completed"}]
      OBVIOUS
    <2>2. quiet \in Int /\ quiet >= -1 /\ quiet <= Enough
      BY <1>2
    <2>3. DOMAIN corpusEffects \subseteq RunKeys /\ todo \in Seq(Runs) /\ Range(todo) \subseteq RunKeys
      BY <1>2
    <2>4. corpusEvents \subseteq recorded /\ corpusActions \subseteq recorded
      OBVIOUS
    <2> QED  BY <2>1, <2>2, <2>3, <2>4 DEF SyncTypes
  <1>4. RunsAreImported
    BY DEF RunsAreImported
  <1>5. EventsGoRound
    BY <1>1 DEF EventsGoRound
  <1>6. KeysGoRound
    BY <1>2 DEF KeysGoRound, GoesRound
  <1> QED  BY <1>3, <1>4, <1>5, <1>6 DEF SyncInv

LEMMA NextSyncInv == ASSUME OutboxInv, SyncInv, [Next]_vars PROVE SyncInv'
  <1>1. CASE OutboxStep /\ active' = active
    <2>1. LedgerGrows
      BY <1>1, OutboxNextGrows DEF OutboxStep
    <2>2. active # "corpus" /\ UNCHANGED <<syncVars, active>> /\ quiet' = quiet
      BY <1>1 DEF OutboxStep
    <2>3. quiet' = IF phase = "idle" THEN 0 ELSE -1
      BY <2>2 DEF SyncInv
    <2> QED  BY <2>1, <2>2, <2>3, LedgerGrowsStep
  <1>2. CASE CorpusStep /\ active' = active
    <2>0. active = "corpus" /\ FlowNext
      BY <1>2 DEF CorpusStep
    <2>1. CASE SourceStep
      <3>1. UNCHANGED <<syncVars, active>> /\ OutboxNext
        BY <1>2, <2>1 DEF SourceStep
      <3>2. CASE createdAt' = createdAt
        <4>1. quiet' = quiet
          BY <2>1, <3>2 DEF SourceStep
        <4> QED  BY <3>1, <3>2, <4>1, SyncStays
      <3>3. CASE createdAt' # createdAt
        <4>1. quiet' = IF phase = "idle" THEN 0 ELSE -1
          BY <2>1, <3>3 DEF SourceStep
        <4> QED  BY <3>1, <4>1, OutboxNextGrows, LedgerGrowsStep
      <3> QED  BY <3>2, <3>3
    <2>2. CASE \E r \in Taped : FinishRun(r)
      <3>1. UNCHANGED <<createdAt, syncVars, quiet, active>>
        BY <1>2, <2>2 DEF FinishRun, outboxVars, ledgerVars
      <3> QED  BY <3>1, SyncStays
    <2>3. CASE SyncStep
      BY <1>2, <2>0, <2>3, StartSyncStep, ImportRunsStep, ImportHookEventsStep, ListRunKeysStep, CompileRunStep,
         FinishSyncStep DEF SyncStep
    <2>4. CASE FailImport
      BY <1>2, <2>0, <2>4, FailImportStep
    <2> QED  BY <2>0, <2>1, <2>2, <2>3, <2>4 DEF FlowNext
  <1>3. CASE UNCHANGED <<flowVars, active>>
    <2>1. UNCHANGED <<createdAt, syncVars, quiet, active>>
      BY <1>3 DEF flowVars, outboxVars, ledgerVars
    <2> QED  BY <2>1, SyncStays
  <1> QED
    BY <1>1, <1>2, <1>3 DEF Next, vars, ProtocolsStep, PromptsStep, GitStep, TelemetryStep, BannerStep

\* The inductive invariant holds in every reachable state: the corpus has no row the ledger
\* has not, and after q syncs with nothing new each cursor has passed q of the keys or has
\* been forgotten with all of them imported (src/src/corpus/sync.ts, updateCursor).
THEOREM SyncInvariance == Spec => []SyncInv
  <1>1. Init => SyncInv
    BY InitSyncInv DEF Init, FlowInit
  <1>2. OutboxInv /\ SyncInv /\ [Next]_vars => SyncInv'
    BY NextSyncInv
  <1> QED  BY <1>1, <1>2, OutboxInvariance, PTL DEF Spec

\* A cursor cannot have gone round longer than there are rows.
LEMMA RoundEnds ==
  ASSUME NEW n \in Nat, NEW keys \in SUBSET Nat, IsFiniteSet(keys), Cardinality(keys) <= n,
         NEW c, NEW q \in Int, q > n
  PROVE  ~GoesRound(n, keys, c, q)
  <1>1. Ahead(keys, c) \subseteq keys
    BY DEF Ahead
  <1>2. Cardinality(Ahead(keys, c)) \in Nat /\ Cardinality(keys) \in Nat
    BY <1>1, FS_Subset, FS_CardinalityType
  <1> QED  BY <1>2 DEF GoesRound

LEMMA SyncInvCatchesUp == OutboxInv /\ SyncInv => CorpusCatchesUp
  <1> SUFFICES ASSUME OutboxInv, SyncInv, quiet = Enough
               PROVE  /\ recorded \subseteq corpusEvents
                      /\ corpusReport.hookEvents = Cardinality(recorded)
                      /\ corpusReport.runs = Cardinality(Taped)
                      /\ corpusReport.effects >= Cardinality({r \in Runs : Compiled(r) # <<>>})
                      /\ DOMAIN corpusEffects \subseteq RunKeys
                      /\ \A r \in Taped : corpusRuns[r] # None
                      /\ \A r \in Runs : CompiledDone(r)
    BY DEF CorpusCatchesUp, CompiledDone
  <1>1. PICK n, rows, keys : n = Cardinality(recorded) /\ rows = recorded /\ keys = RunKeys
    OBVIOUS
  <1>2. /\ n \in Nat /\ rows \in SUBSET Nat /\ IsFiniteSet(rows) /\ Cardinality(rows) <= n
        /\ keys \in SUBSET Nat /\ IsFiniteSet(keys) /\ Cardinality(keys) <= n
        /\ quiet = n + 1 /\ quiet >= 1 /\ quiet >= 0
    BY <1>1, RecordedAreEvents, KeysOfRows DEF Enough
  <1>3. recorded = corpusEvents
    <2>1. PICK c, q : c = eventsCursor /\ q = EventSyncs
      OBVIOUS
    <2>2. q \in Int /\ q > n
      BY <1>2, <2>1 DEF EventSyncs
    <2>3. ~GoesRound(n, rows, c, q)
      BY <1>2, <2>2, RoundEnds
    <2> QED  BY <1>1, <2>1, <2>3 DEF SyncInv, SyncTypes, EventsGoRound
  <1>4. KeysDone
    <2>1. PICK c, q : c = effectsCursor /\ q = quiet
      OBVIOUS
    <2>2. ~GoesRound(n, keys, c, q)
      BY <1>2, <2>1, RoundEnds
    <2> QED  BY <1>1, <1>2, <2>1, <2>2 DEF SyncInv, KeysGoRound
  <1>5. (\A r \in Taped : corpusRuns[r] # None) /\ {r \in Runs : corpusRuns[r] # None} = Taped
    BY <1>2, CorpusAssumption DEF SyncInv, RunsAreImported
  <1>6. DOMAIN corpusEffects \subseteq RunKeys
    BY DEF SyncInv, SyncTypes
  <1>7. Cardinality(DOMAIN corpusEffects) >= Cardinality({r \in Runs : Compiled(r) # <<>>})
    <2>1. PICK S, T : S = {r \in Runs : Compiled(r) # <<>>} /\ T = DOMAIN corpusEffects
      OBVIOUS
    <2>2. S \subseteq T
      BY <1>4, <2>1 DEF KeysDone, CompiledDone
    <2>3. IsFiniteSet(T)
      BY <1>1, <1>2, <1>6, <2>1, FS_Subset
    <2>4. Cardinality(S) <= Cardinality(T) /\ Cardinality(S) \in Nat /\ Cardinality(T) \in Nat
      BY <2>2, <2>3, FS_Subset, FS_CardinalityType
    <2> QED  BY <2>1, <2>4
  <1> QED  BY <1>3, <1>4, <1>5, <1>6, <1>7 DEF corpusReport, KeysDone

\* Whatever the ledger, the order in which the keys came and the syncs that failed before:
\* once nothing has been recorded for one sync more than the ledger has rows, the corpus
\* has every row, every run and all they compile to (src/src/corpus/sync.ts).
THEOREM CorpusCatchesUpHolds == Spec => []CorpusCatchesUp
  <1> QED  BY SyncInvCatchesUp, OutboxInvariance, SyncInvariance, PTL

-----------------------------------------------------------------------------
(* Types: the counts stay within their bounds, and nothing is dated after the clock. *)

CountTypes ==
  /\ createdAt \in [Events -> 0 .. clock]
  /\ truncations \in 0 .. MaxTruncations /\ faults \in 0 .. MaxFaults

LEMMA RecordAllCounts ==
  ASSUME OutboxTypes, createdAt \in [Events -> 0 .. clock], NEW events, RecordAll(events)
  PROVE  createdAt' \in [Events -> 0 .. clock']
  <1>1. PICK now \in {clock, clock + 1} \ {0} :
          /\ createdAt' = [e \in Events |-> IF e \in events \ recorded THEN now ELSE createdAt[e]]
          /\ clock' = IF events \subseteq recorded THEN clock ELSE now
    BY DEF RecordAll
  <1>2. clock \in Nat /\ now \in Nat /\ clock <= now
    BY DEF OutboxTypes
  <1>3. clock' \in Nat /\ clock <= clock'
    BY <1>1, <1>2
  <1>4. ASSUME NEW e \in Events PROVE createdAt'[e] \in 0 .. clock'
    <2>1. CASE e \in events \ recorded
      BY <1>1, <1>2, <2>1
    <2>2. CASE e \notin events \ recorded
      BY <1>1, <1>2, <1>3, <2>2
    <2> QED  BY <2>1, <2>2
  <1>5. createdAt' = [e \in Events |-> createdAt'[e]]
    BY <1>1
  <1> QED  BY <1>4, <1>5

LEMMA OutboxCounts == ASSUME OutboxInv, CountTypes, OutboxNext PROVE CountTypes'
  <1> USE DEF CountTypes, ledgerVars, counts
  <1>1. ASSUME NEW events, RecordAll(events) PROVE createdAt' \in [Events -> 0 .. clock']
    BY <1>1, RecordAllCounts DEF OutboxInv
  <1>2. CASE WriteLine
    BY <1>2 DEF WriteLine
  <1>3. CASE Truncate
    BY <1>3, OutboxAssumption DEF Truncate
  <1>4. ASSUME NEW events \in SUBSET Events, PostEvents(events) PROVE CountTypes'
    BY <1>1, <1>4 DEF PostEvents
  <1>5. ASSUME NEW c \in Consumers, ReadOutbox(c) PROVE CountTypes'
    BY <1>5 DEF ReadOutbox
  <1>6. ASSUME NEW c \in Consumers, CommitBatch(c) PROVE CountTypes'
    BY <1>1, <1>6 DEF CommitBatch
  <1>7. ASSUME NEW c \in Consumers, RollBack(c) PROVE CountTypes'
    BY <1>7, OutboxAssumption DEF RollBack
  <1> HIDE DEF CountTypes
  <1> QED  BY <1>2, <1>3, <1>4, <1>5, <1>6, <1>7 DEF OutboxNext, Consume

LEMMA CorpusCounts == ASSUME OutboxInv, CountTypes, FlowNext PROVE CountTypes'
  <1>1. CASE SourceStep
    BY <1>1, OutboxCounts DEF SourceStep
  <1>2. CASE FailImport
    BY <1>2, OutboxAssumption DEF FailImport, CountTypes, ledgerVars
  <1>3. CASE UNCHANGED outboxVars
    BY <1>3 DEF CountTypes, outboxVars, ledgerVars, counts
  <1> QED
    BY <1>1, <1>2, <1>3 DEF FlowNext, FinishRun, SyncStep, StartSync, ImportRuns, ImportHookEvents, ListRunKeys,
       CompileRun, FinishSync

-----------------------------------------------------------------------------
(* The rows of the run that is compiled, and the hooks of the banner.      *)

TelemetryRows == {[kind EXCEPT !.id = n] : kind \in RowKinds, n \in Nat}

TelemetryTypes == telemetry \in Seq(TelemetryRows) /\ Len(telemetry) <= MaxRows

LEMMA AppendRowTypes == ASSUME TelemetryTypes, NEW kind \in RowKinds, AppendRow(kind) PROVE TelemetryTypes'
  <1>1. Len(telemetry) \in Nat /\ Len(telemetry) + 1 \in Nat
    BY DEF TelemetryTypes
  <1>2. PICK row \in TelemetryRows : row = [kind EXCEPT !.id = Len(telemetry) + 1]
    <2>1. PICK n \in Nat : n = Len(telemetry) + 1
      BY <1>1
    <2>2. [kind EXCEPT !.id = n] \in TelemetryRows
      BY DEF TelemetryRows
    <2> QED  BY <2>1, <2>2
  <1>3. telemetry' = Append(telemetry, row) /\ Len(telemetry) < MaxRows
    BY <1>2 DEF AppendRow
  <1> QED  BY <1>1, <1>3, LocalAssumption DEF TelemetryTypes

BannerPlaces ==
  /\ store \in Seq(StoreStates)
  /\ markers \subseteq {MarkerName[s] : s \in Sessions}
  /\ \A h \in Hooks : hook[h].at \notin {"idle", "resolve"} => hook[h].place \in DOMAIN store

LEMMA PlacesStay ==
  ASSUME BannerTypes, BannerPlaces, NEW h \in Hooks, NEW x, hook' = [hook EXCEPT ![h] = x],
         x.at \notin {"idle", "resolve"} => x.place \in DOMAIN store,
         store' = store, markers' \subseteq {MarkerName[s] : s \in Sessions}
  PROVE  BannerPlaces'
  BY DEF BannerTypes, BannerPlaces

LEMMA FirstStoreIsThere == ASSUME BannerPlaces, FirstStore # 0 PROVE FirstStore \in DOMAIN store
  <1> DEFINE there == {p \in DOMAIN store : store[p] # "absent"}
  <1>1. there \in SUBSET Nat
    BY DEF BannerPlaces
  <1>2. there # {} /\ FirstStore = CHOOSE p \in there : \A q \in there : p <= q
    BY DEF FirstStore
  <1>3. \E p \in there : \A q \in there : p <= q
    BY <1>1, <1>2, LeastOfSome
  <1> QED  BY <1>2, <1>3

LEMMA NextBannerPlaces == ASSUME BannerInv, BannerPlaces, BannerNext PROVE BannerPlaces'
  <1>1. /\ BannerTypes /\ "idle" = IdleHook.at
        /\ \A h \in Hooks : hook[h] = [at |-> hook[h].at, session |-> hook[h].session, place |-> hook[h].place]
    BY DEF BannerInv, BannerTypes, IdleHook
  <1>2. ASSUME NEW h \in Hooks, NEW s \in Sessions \cup {NoSession}, StartHook(h, s) PROVE BannerPlaces'
    <2>1. PICK x : x = [at |-> "resolve", session |-> s, place |-> 0]
      OBVIOUS
    <2> QED  BY <1>1, <1>2, <2>1, PlacesStay DEF StartHook, BannerPlaces
  <1>3. ASSUME NEW h \in Hooks, ResolveStore(h) PROVE BannerPlaces'
    <2>1. PICK x : x = IF FirstStore = 0 THEN IdleHook
                       ELSE [at |-> "render", session |-> hook[h].session, place |-> FirstStore]
      OBVIOUS
    <2>2. hook' = [hook EXCEPT ![h] = x]
      <3>1. CASE FirstStore = 0
        BY <1>3, <2>1, <3>1 DEF ResolveStore
      <3>2. CASE FirstStore # 0
        <4>1. PICK y : y = [hook[h] EXCEPT !.at = "render"]
          OBVIOUS
        <4>2. y = [at |-> "render", session |-> hook[h].session, place |-> hook[h].place]
          <5>1. PICK at, session, place : at = hook[h].at /\ session = hook[h].session /\ place = hook[h].place
            OBVIOUS
          <5>2. hook[h] = [at |-> at, session |-> session, place |-> place]
            BY <1>1, <5>1
          <5> QED  BY <4>1, <5>1, <5>2
        <4>3. [y EXCEPT !.place = FirstStore] = x
          BY <2>1, <3>2, <4>2
        <4>4. hook' = [hook EXCEPT ![h] = [y EXCEPT !.place = FirstStore]]
          BY <1>1, <1>3, <3>2, <4>1 DEF ResolveStore, BannerTypes
        <4> QED  BY <4>3, <4>4
      <3> QED  BY <3>1, <3>2
    <2>3. x.at \notin {"idle", "resolve"} => x.place \in DOMAIN store
      BY <1>1, <2>1, FirstStoreIsThere
    <2>4. store' = store /\ markers' = markers
      BY <1>3 DEF ResolveStore
    <2> QED  BY <1>1, <2>2, <2>3, <2>4, PlacesStay DEF BannerPlaces
  <1>4. ASSUME NEW h \in Hooks, NEW x, hook' = [hook EXCEPT ![h] = x], store' = store,
               x = IdleHook \/ x.place = hook[h].place, hook[h].at \notin {"idle", "resolve"},
               \/ markers' = markers
               \/ hook[h].at = "claim" /\ markers' = markers \cup {MarkerName[hook[h].session]}
        PROVE  BannerPlaces'
    <2>1. x.at \notin {"idle", "resolve"} => x.place \in DOMAIN store
      BY <1>1, <1>4 DEF BannerPlaces
    <2>2. markers' \subseteq {MarkerName[s] : s \in Sessions}
      BY <1>1, <1>4 DEF BannerPlaces, BannerTypes
    <2> QED  BY <1>1, <1>4, <2>1, <2>2, PlacesStay
  <1>5. ASSUME NEW h \in Hooks, NEW at PROVE [hook[h] EXCEPT !.at = at].place = hook[h].place
    BY <1>1
  <1>6. ASSUME NEW h \in Hooks, Render(h) PROVE BannerPlaces'
    <2>1. PICK x : /\ hook' = [hook EXCEPT ![h] = x]
                   /\ x = IdleHook \/ x.place = hook[h].place
      <3>1. PICK at : at = IF hook[h].session = NoSession THEN "print" ELSE "look"
        OBVIOUS
      <3>2. hook' = [hook EXCEPT ![h] = IF store[hook[h].place] # "stocked" THEN IdleHook
                                        ELSE [hook[h] EXCEPT !.at = at]]
        BY <1>1, <1>6, <3>1 DEF Render, BannerTypes
      <3> QED  BY <1>5, <3>2
    <2> QED  BY <1>4, <1>6, <2>1 DEF Render
  <1>7. ASSUME NEW h \in Hooks, LookForMarker(h) PROVE BannerPlaces'
    <2>1. PICK x : /\ hook' = [hook EXCEPT ![h] = x]
                   /\ x = IdleHook \/ x.place = hook[h].place
      <3>1. PICK at : at = IF usable THEN "claim" ELSE "print"
        OBVIOUS
      <3>2. hook' = [hook EXCEPT ![h] = IF usable /\ MarkerName[hook[h].session] \in markers THEN IdleHook
                                        ELSE [hook[h] EXCEPT !.at = at]]
        BY <1>1, <1>7, <3>1 DEF LookForMarker, BannerTypes
      <3> QED  BY <1>5, <3>2
    <2> QED  BY <1>4, <1>7, <2>1 DEF LookForMarker
  <1>8. ASSUME NEW h \in Hooks, WriteMarker(h) PROVE BannerPlaces'
    <2>1. hook' = [hook EXCEPT ![h] = [hook[h] EXCEPT !.at = "print"]]
      BY <1>1, <1>8 DEF WriteMarker, BannerTypes
    <2> QED  BY <1>4, <1>5, <1>8, <2>1 DEF WriteMarker
  <1>9. ASSUME NEW h \in Hooks, PrintLessons(h) \/ EndHookEarly(h) PROVE BannerPlaces'
    <2>1. hook' = [hook EXCEPT ![h] = IdleHook] /\ store' = store /\ markers' = markers
      BY <1>9 DEF PrintLessons, EndHookEarly
    <2> QED  BY <1>1, <2>1, PlacesStay DEF BannerPlaces
  <1>10. CASE LoseMarkerDirectory
    BY <1>10 DEF LoseMarkerDirectory, BannerPlaces
  <1>11. ASSUME NEW place \in DOMAIN store, NEW content \in StoreStates, ChangeStore(place, content)
         PROVE  BannerPlaces'
    <2>1. store' \in Seq(StoreStates) /\ DOMAIN store' = DOMAIN store
      BY <1>11 DEF ChangeStore, BannerPlaces
    <2> QED  BY <1>11, <2>1 DEF ChangeStore, BannerPlaces
  <1> QED
    BY <1>2, <1>3, <1>6, <1>7, <1>8, <1>9, <1>10, <1>11 DEF BannerNext

-----------------------------------------------------------------------------
(* Times of imports: every batch was begun at or before the clock.         *)

BatchStatuses == {"running", "completed", "failed"}

BatchTimes ==
  /\ \A c \in Sources : \A b \in DOMAIN gitBatches[c] : b \in 1 .. gitClock /\ gitBatches[c][b] \in BatchStatuses
  /\ \A i \in Importers : importer[i].at # "rest" => importer[i].batch \in 1 .. gitClock

PoolHasBatches == \A row \in DOMAIN poolRows : poolRows[row] \in DOMAIN poolBatches

LEMMA TimesStay ==
  ASSUME SourceTypes, BatchTimes, NEW i \in Importers, gitClock' \in Nat, gitClock <= gitClock',
         importer' = [j \in Importers |-> IF j = i THEN importer'[i] ELSE importer[j]],
         importer'[i].at # "rest" => importer'[i].batch \in 1 .. gitClock',
         \/ gitBatches' = gitBatches
         \/ /\ importer[i].at # "rest"
            /\ \E status \in BatchStatuses : SetBatch(importer[i].corpus, importer[i].batch, status)
  PROVE  BatchTimes'
  <1>1. gitClock \in Nat /\ importer[i].corpus \in Sources
    BY DEF SourceTypes, Works
  <1>2. \A n : n \in 1 .. gitClock => n \in 1 .. gitClock'
    BY <1>1
  <1>3. \A j \in Importers : importer'[j].at # "rest" => importer'[j].batch \in 1 .. gitClock'
    BY <1>2 DEF BatchTimes
  <1>4. ASSUME NEW c \in Sources, NEW b \in DOMAIN gitBatches'[c]
        PROVE  b \in 1 .. gitClock' /\ gitBatches'[c][b] \in BatchStatuses
    <2>1. CASE gitBatches' = gitBatches
      BY <1>2, <2>1 DEF BatchTimes
    <2>2. ASSUME NEW status \in BatchStatuses, importer[i].at # "rest",
                 SetBatch(importer[i].corpus, importer[i].batch, status)
          PROVE  b \in 1 .. gitClock' /\ gitBatches'[c][b] \in BatchStatuses
      <3>1. PICK d, n : d \in Sources /\ d = importer[i].corpus /\ n = importer[i].batch
        BY <1>1
      <3>2. /\ DOMAIN gitBatches'[d] = DOMAIN gitBatches[d] \cup {n}
            /\ gitBatches'[d][n] = status
            /\ \A k \in DOMAIN gitBatches[d] : k # n => gitBatches'[d][k] = gitBatches[d][k]
            /\ \A e \in Sources : e # d => gitBatches'[e] = gitBatches[e]
        BY <2>2, <3>1, BatchSet
      <3>3. n \in 1 .. gitClock'
        BY <1>2, <2>2, <3>1 DEF BatchTimes
      <3> QED  BY <1>2, <3>2, <3>3 DEF BatchTimes
    <2> QED  BY <2>1, <2>2
  <1> QED  BY <1>3, <1>4 DEF BatchTimes

LEMMA ImportTimes ==
  ASSUME SourceTypes, BatchTimes, NEW i \in Importers,
         \/ \E c \in Sources : StartImport(i, c)
         \/ StartBatch(i) \/ InsertCommit(i) \/ InsertRow(i) \/ FinishImport(i) \/ CutImport(i)
  PROVE  BatchTimes'
  <1>1. /\ importer = [j \in Importers |-> importer[j]] /\ gitClock \in Nat
        /\ NotImporting.at = "rest"
        /\ \A s \in {"running", "completed", "failed"} : s \in BatchStatuses
    BY DEF SourceTypes, NotImporting, BatchStatuses
  <1>2. ASSUME NEW c \in Sources, StartImport(i, c) PROVE BatchTimes'
    <2>1. PICK now \in {gitClock, gitClock + 1} \ {0} :
            /\ importer' = [importer EXCEPT ![i] = [at |-> "batch", corpus |-> c, batch |-> now, todo |-> <<>>]]
            /\ gitClock' = now
      BY <1>2 DEF StartImport
    <2>2. importer' = [j \in Importers |-> IF j = i THEN importer'[i] ELSE importer[j]]
      BY <1>1, <2>1
    <2>3. importer'[i].batch = now /\ now \in 1 .. now /\ gitClock <= now /\ now \in Nat
      BY <1>1, <2>1
    <2>4. gitBatches' = gitBatches
      BY <1>2 DEF StartImport
    <2> QED  BY <2>1, <2>2, <2>3, <2>4, TimesStay
  <1>3. ASSUME NEW at, NEW left, Proceed(i, at, left), importer[i].at # "rest", gitClock' = gitClock,
               \/ gitBatches' = gitBatches
               \/ \E status \in BatchStatuses : SetBatch(importer[i].corpus, importer[i].batch, status)
        PROVE  BatchTimes'
    <2>1. /\ importer' = [j \in Importers |-> IF j = i THEN importer'[i] ELSE importer[j]]
          /\ importer'[i].batch = importer[i].batch
      <3>1. PICK at2, left2 : at2 = at /\ left2 = left
        OBVIOUS
      <3>2. /\ importer' = [j \in Importers |-> IF j = i THEN importer'[i] ELSE importer[j]]
            /\ importer'[i] = [at |-> at2, corpus |-> importer[i].corpus, batch |-> importer[i].batch, todo |-> left2]
        BY <1>3, <3>1, Proceeded
      <3> QED  BY <3>2
    <2>2. importer'[i].batch \in 1 .. gitClock' /\ gitClock' \in Nat /\ gitClock <= gitClock'
      BY <1>1, <1>3, <2>1 DEF BatchTimes
    <2> QED  BY <1>3, <2>1, <2>2, TimesStay
  <1>4. ASSUME importer' = [importer EXCEPT ![i] = NotImporting], importer[i].at # "rest", gitClock' = gitClock,
               \/ gitBatches' = gitBatches
               \/ \E status \in BatchStatuses : SetBatch(importer[i].corpus, importer[i].batch, status)
        PROVE  BatchTimes'
    <2>1. /\ importer' = [j \in Importers |-> IF j = i THEN importer'[i] ELSE importer[j]]
          /\ importer'[i].at = "rest"
      BY <1>1, <1>4
    <2>2. gitClock' \in Nat /\ gitClock <= gitClock'
      BY <1>1, <1>4
    <2> QED  BY <1>4, <2>1, <2>2, TimesStay
  <1>5. CASE StartBatch(i)
    <2>1. importer[i].at # "rest" /\ gitClock' = gitClock
      BY <1>5 DEF StartBatch
    <2>2. CASE SetBatch(importer[i].corpus, importer[i].batch, "failed")
               /\ importer' = [importer EXCEPT ![i] = NotImporting]
      BY <1>1, <1>4, <2>1, <2>2
    <2>3. CASE SetBatch(importer[i].corpus, importer[i].batch, "running") /\ \E left : Proceed(i, "commits", left)
      BY <1>1, <1>3, <2>1, <2>3
    <2> QED  BY <1>5, <2>2, <2>3 DEF StartBatch
  <1>6. CASE InsertCommit(i)
    <2>1. importer[i].at # "rest" /\ gitClock' = gitClock /\ gitBatches' = gitBatches
      BY <1>6 DEF InsertCommit
    <2>2. \E at, left : Proceed(i, at, left)
      BY <1>6 DEF InsertCommit
    <2> QED  BY <1>3, <2>1, <2>2
  <1>7. CASE InsertRow(i)
    <2>1. importer[i].at # "rest" /\ gitClock' = gitClock /\ gitBatches' = gitBatches
      BY <1>7 DEF InsertRow
    <2>2. importer' = importer \/ \E left : Proceed(i, "commits", left)
      BY <1>7 DEF InsertRow
    <2>3. CASE importer' = importer
      BY <2>1, <2>3 DEF BatchTimes
    <2> QED  BY <1>3, <2>1, <2>2, <2>3
  <1>8. CASE FinishImport(i)
    BY <1>1, <1>4, <1>8 DEF FinishImport
  <1>9. CASE CutImport(i)
    BY <1>1, <1>4, <1>9 DEF CutImport
  <1> QED  BY <1>2, <1>5, <1>6, <1>7, <1>8, <1>9

LEMMA NextGitTimes == ASSUME GitInv, BatchTimes, PoolHasBatches, GitNext PROVE BatchTimes' /\ PoolHasBatches'
  <1>1. CASE ImportStep
    BY <1>1, ImportTimes DEF ImportStep, GitInv, PoolHasBatches
  <1>2. CASE StartCollect \/ ThrowInCollect \/ CutCollect
    <2>1. UNCHANGED <<gitBatches, importer, gitClock, poolRows, poolBatches>>
      BY <1>2 DEF StartCollect, ThrowInCollect, CutCollect, sourceVars
    <2> QED  BY <2>1 DEF BatchTimes, PoolHasBatches
  <1>3. CASE CopyTable
    <2>1. BatchTimes'
      BY <1>3 DEF CopyTable, sourceVars, BatchTimes
    <2>2. PICK rows : rows = TableRows(Corpora[collect.source], CopyOrder[collect.table])
      OBVIOUS
    <2>3. \/ poolRows' = poolRows /\ DOMAIN poolBatches \subseteq DOMAIN poolBatches'
          \/ /\ poolBatches' = poolBatches /\ Range(rows) \subseteq DOMAIN poolBatches
             /\ poolRows' = Merged(poolRows, rows)
      <3>1. \A others : DOMAIN poolBatches \subseteq DOMAIN Merged(poolBatches, others)
        BY DEF Merged
      <3> QED  BY <1>3, <2>2, <3>1 DEF CopyTable
    <2>4. \A row \in DOMAIN Merged(poolRows, rows) :
            \/ row \in DOMAIN poolRows /\ Merged(poolRows, rows)[row] = poolRows[row]
            \/ Merged(poolRows, rows)[row] \in Range(rows)
      BY DEF Merged, Range
    <2> QED  BY <2>1, <2>3, <2>4 DEF PoolHasBatches
  <1> QED  BY <1>1, <1>2, <1>3 DEF GitNext

-----------------------------------------------------------------------------
(* Prompts: what a process has to do is about prompts that have a row.     *)

Kinds == Range(KindOrder)
Votes == [method : Methods, kind : Kinds]

Work(P) ==
  [op : {"vote"}, prompt : P, vote : Votes]
    \cup [op : {"scan"}, prompt : P, listed : PromptKindNames, contextual : Kinds \cup {NoKind}]
    \cup [op : {"recompute"}, prompt : P]

Recording(P) ==
  [todo : Seq(Work(P)), number : Nat, current : PromptKindNames \cup {NoKind}, best : Kinds \cup {NoKind}]

PromptsInv ==
  /\ sessionRows \in Seq([prompt : Recorded] \cup Responses)
  /\ promptKind \in [Prompts -> PromptKindNames \cup {NoKind}]
  /\ votes \in [Prompts -> Seq(Votes)]
  /\ \A p \in Prompts : promptKind[p] = NoKind => votes[p] = <<>>
  /\ recorder \in [Recorders -> Recording(Recorded)]
  /\ cuts \in 0 .. MaxCutPrompts

LEMMA WorkGrows ==
  ASSUME NEW P, NEW Q, P \subseteq Q
  PROVE  /\ Work(P) \subseteq Work(Q) /\ Seq(Work(P)) \subseteq Seq(Work(Q))
         /\ Recording(P) \subseteq Recording(Q)
  <1>1. Work(P) \subseteq Work(Q)
    BY DEF Work
  <1>2. Seq(Work(P)) \subseteq Seq(Work(Q))
    BY <1>1, SeqMonotonic
  <1> QED  BY <1>1, <1>2 DEF Recording

LEMMA KindsAreNames ==
  /\ Kinds \subseteq PromptKindNames /\ NoKind \notin PromptKindNames /\ "user_prompt" \in PromptKindNames
  /\ \A p \in Prompts : TextKind[p] \in Kinds
  /\ {"positional", "heuristic", "contextual"} = Methods
  /\ "direction_setting" \in Kinds
  <1>1. KindOrder[3] = "direction_setting" /\ 3 \in DOMAIN KindOrder
    BY DEF KindOrder
  <1>2. "direction_setting" \in Kinds
    BY <1>1 DEF Kinds, Range
  <1> QED  BY <1>2, PromptAssumption DEF Kinds, PromptKindNames, Methods

LEMMA FirstVotesAreWork ==
  ASSUME NEW P, NEW p \in P, NEW index, NEW k \in Kinds
  PROVE  FirstVotes(p, index, k) \o <<DoRecompute(p)>> \in Seq(Work(P))
  <1>1. /\ DoVote(p, "positional", "direction_setting") \in Work(P)
        /\ DoVote(p, "heuristic", k) \in Work(P) /\ DoRecompute(p) \in Work(P)
    BY KindsAreNames DEF DoVote, Vote, DoRecompute, Work, Votes
  <1>2. FirstVotes(p, index, k) \in Seq(Work(P))
    <2>1. CASE index = 0
      BY <1>1, <2>1 DEF FirstVotes
    <2>2. CASE index # 0
      BY <1>1, <2>2 DEF FirstVotes
    <2> QED  BY <2>1, <2>2
  <1> QED  BY <1>1, <1>2

LEMMA TodoIsRecording ==
  ASSUME NEW P, NEW left \in Seq(Work(P))
  PROVE  [Resting EXCEPT !.todo = left] \in Recording(P)
  BY DEF Resting, Recording

LEMMA RestingIsRecording == ASSUME NEW P PROVE Resting \in Recording(P)
  <1>1. <<>> \in Seq(Work(P))
    OBVIOUS
  <1> QED  BY <1>1 DEF Resting, Recording

\* The prompts of the session, and those of a turn, have rows.
LEMMA PromptsAreRecorded ==
  ASSUME PromptsInv
  PROVE  PromptsInOrder \in Seq(Recorded) /\ \A turn : TurnUserPrompts(turn) \in Seq(Recorded)
  <1>1. \A i \in DOMAIN sessionRows : IsPrompt(sessionRows[i]) => sessionRows[i].prompt \in Recorded
    <2> SUFFICES ASSUME NEW i \in DOMAIN sessionRows, IsPrompt(sessionRows[i]) PROVE sessionRows[i].prompt \in Recorded
      OBVIOUS
    <2>1. PICK row \in [prompt : Recorded] \cup Responses : row = sessionRows[i]
      BY DEF PromptsInv
    <2>2. CASE row \in Responses
      <3>1. DOMAIN row = {"turn", "kind"}
        BY <2>2, PromptAssumption
      <3> QED  BY <2>1, <3>1 DEF IsPrompt
    <2> QED  BY <2>1, <2>2
  <1>2. PromptsInOrder \in Seq(Recorded)
    <2>1. PICK m \in Nat : DOMAIN sessionRows = 1 .. m
      BY DEF PromptsInv
    <2>2. PICK rows, places : /\ places = {i \in DOMAIN sessionRows : IsPrompt(sessionRows[i])}
                              /\ rows = RowsAt(sessionRows, places)
      OBVIOUS
    <2>3. PICK all : all = sessionRows
      OBVIOUS
    <2>4. AreRows(rows, all, places)
      <3>1. places \in SUBSET (1 .. m)
        BY <2>1, <2>2
      <3>2. AreRows(RowsAt(all, places), all, places)
        BY <3>1, RowsAtPlaces
      <3> QED  BY <2>2, <2>3, <3>2
    <2>5. PromptsInOrder = [i \in DOMAIN rows |-> rows[i].prompt]
      BY <2>2 DEF PromptsInOrder
    <2>6. PICK n \in Nat : DOMAIN rows = 1 .. n
      BY <2>4 DEF AreRows
    <2>7. \A k \in DOMAIN rows : rows[k].prompt \in Recorded
      BY <1>1, <2>2, <2>3, <2>4 DEF AreRows
    <2> QED  BY <2>5, <2>6, <2>7
  <1>3. ASSUME NEW turn PROVE TurnUserPrompts(turn) \in Seq(Recorded)
    <2>1. PICK all : all = PromptsInOrder
      OBVIOUS
    <2>2. PICK m \in Nat : DOMAIN all = 1 .. m
      BY <1>2, <2>1
    <2>3. PICK rows, places : /\ places = {i \in DOMAIN all : Turn[all[i]] = turn}
                              /\ rows = RowsAt(all, places)
      OBVIOUS
    <2>4. AreRows(rows, all, places)
      <3>1. places \in SUBSET (1 .. m)
        BY <2>2, <2>3
      <3> QED  BY <2>3, <3>1, RowsAtPlaces
    <2>5. PICK n \in Nat : DOMAIN rows = 1 .. n
      BY <2>4 DEF AreRows
    <2>6. \A k \in DOMAIN rows : rows[k] \in Recorded
      BY <1>2, <2>1, <2>3, <2>4 DEF AreRows
    <2>7. rows = [k \in 1 .. n |-> rows[k]]
      BY <2>3, <2>5 DEF RowsAt
    <2>8. TurnUserPrompts(turn) = rows
      BY <2>1, <2>3 DEF TurnUserPrompts
    <2> QED  BY <2>5, <2>6, <2>7, <2>8
  <1> QED  BY <1>2, <1>3

\* The contextual kind of a turn is that of a response, or none.
LEMMA ContextualIsKind == ASSUME PromptsInv, NEW turn PROVE ContextualOf(turn) \in Kinds \cup {NoKind}
  <1> DEFINE said == {i \in DOMAIN sessionRows : /\ ~IsPrompt(sessionRows[i])
                                                /\ sessionRows[i].turn = turn /\ sessionRows[i].kind # NoKind}
  <1>1. said \in SUBSET Nat
    BY DEF PromptsInv
  <1>2. CASE said = {}
    BY <1>2 DEF ContextualOf
  <1>3. CASE said # {}
    <2>1. Min(said) \in said
      BY <1>1, <1>3, LeastOfSome DEF Min
    <2>2. sessionRows[Min(said)] \in [prompt : Recorded] \cup Responses /\ ~IsPrompt(sessionRows[Min(said)])
      BY <2>1 DEF PromptsInv
    <2>3. sessionRows[Min(said)] \in Responses
      BY <2>2 DEF IsPrompt
    <2>4. ContextualOf(turn) = sessionRows[Min(said)].kind
      BY <1>3 DEF ContextualOf
    <2> QED  BY <2>3, <2>4, PromptAssumption DEF Kinds
  <1> QED  BY <1>2, <1>3

\* What the votes amount to is one of the kinds, or none.
LEMMA BestIsKind == ASSUME NEW cast PROVE BestKind(cast) \in Kinds \cup {NoKind}
  <1>1. PICK odds : odds = OddsOf(cast)
    OBVIOUS
  <1> DEFINE places == {i \in 1 .. Len(KindOrder) : /\ KindOrder[i] \in DOMAIN odds
                                                   /\ \A l \in DOMAIN odds : odds[KindOrder[i]] >= odds[l]}
             top == IF places # {} THEN Min(places) ELSE 0
  <1>2. FirstBelief(odds) = IF top = 0 THEN NoKind ELSE KindOrder[top]
    BY DEF FirstBelief, SelectInSeq
  <1>3. Len(KindOrder) = 6 /\ DOMAIN KindOrder = 1 .. 6
    BY DEF KindOrder
  <1>4. places \in SUBSET Nat
    BY <1>3
  <1>5. top # 0 => top \in places
    BY <1>4, LeastOfSome DEF Min
  <1>6. top # 0 => KindOrder[top] \in Kinds
    BY <1>3, <1>5 DEF Kinds, Range
  <1> HIDE DEF top
  <1> QED  BY <1>1, <1>2, <1>6 DEF BestKind

\* A process takes up work on prompts that have a row by then.
LEMMA TakeTypes ==
  ASSUME NEW P, NEW Q, P \subseteq Q, recorder \in [Recorders -> Recording(P)],
         NEW w \in Recorders, NEW left \in Seq(Work(Q)), Take(w, left)
  PROVE  recorder' \in [Recorders -> Recording(Q)]
  <1>1. PICK x \in Recording(Q) : x = [Resting EXCEPT !.todo = left]
    BY TodoIsRecording
  <1>2. recorder' = [recorder EXCEPT ![w] = x]
    BY <1>1 DEF Take
  <1>3. Recording(P) \subseteq Recording(Q)
    BY WorkGrows
  <1> QED  BY <1>2, <1>3

LEMMA GoOnTypes ==
  ASSUME NEW P, recorder \in [Recorders -> Recording(P)], NEW w \in Recorders, recorder[w].todo # <<>>,
         NEW more \in Seq(Work(P)), GoOn(w, more)
  PROVE  recorder' \in [Recorders -> Recording(P)]
  <1>1. recorder[w].todo \in Seq(Work(P))
    BY DEF Recording
  <1>2. PICK left \in Seq(Work(P)) : left = more \o Tail(recorder[w].todo)
    <2>1. PICK t, W : t = recorder[w].todo /\ W = Work(P)
      OBVIOUS
    <2>2. t \in Seq(W) /\ t # <<>> /\ more \in Seq(W)
      BY <1>1, <2>1
    <2>3. Tail(t) \in Seq(W)
      BY <2>2
    <2>4. more \o Tail(t) \in Seq(W)
      BY <2>2, <2>3
    <2> QED  BY <2>1, <2>4
  <1>3. PICK x \in Recording(P) : x = [Resting EXCEPT !.todo = left]
    BY TodoIsRecording
  <1>4. recorder' = [recorder EXCEPT ![w] = x]
    BY <1>2, <1>3 DEF GoOn
  <1> QED  BY <1>4

\* What a process is to do now.
LEMMA DoIsWork ==
  ASSUME PromptsInv, NEW w \in Recorders, recorder[w].todo # <<>>
  PROVE  Do(w) \in Work(Recorded) /\ Do(w).prompt \in Recorded /\ recorder[w] \in Recording(Recorded)
  <1>1. recorder[w].todo \in Seq(Work(Recorded)) /\ recorder[w] \in Recording(Recorded)
    BY DEF PromptsInv, Recording
  <1>2. Do(w) \in Work(Recorded)
    BY <1>1 DEF Do
  <1> QED  BY <1>1, <1>2 DEF Work

\* A step that records no prompt and casts no vote.
LEMMA RecorderStep ==
  ASSUME PromptsInv, UNCHANGED <<sessionRows, promptKind, votes>>, recorder' \in [Recorders -> Recording(Recorded)],
         cuts' \in 0 .. MaxCutPrompts
  PROVE  PromptsInv'
  <1>1. Recorded' = Recorded
    BY DEF Recorded
  <1> QED  BY <1>1 DEF PromptsInv

LEMMA RecordPromptTypes ==
  ASSUME PromptsInv, NEW w \in Recorders, NEW p \in Prompts, RecordPrompt(w, p) PROVE PromptsInv'
  <1> DEFINE left == FirstVotes(p, Len(sessionRows), TextKind[p]) \o <<DoRecompute(p)>>
  <1>1. TextKind[p] \in Kinds /\ TextKind[p] \in PromptKindNames /\ TextKind[p] # NoKind
    BY KindsAreNames
  <1>2. promptKind' = [promptKind EXCEPT ![p] = TextKind[p]]
    BY DEF RecordPrompt
  <1>3. promptKind' \in [Prompts -> PromptKindNames \cup {NoKind}]
    BY <1>1, <1>2 DEF PromptsInv
  <1>4. Recorded \subseteq Recorded' /\ p \in Recorded'
    BY <1>1, <1>2 DEF PromptsInv, Recorded
  <1>5. left \in Seq(Work(Recorded'))
    BY <1>1, <1>4, FirstVotesAreWork
  <1>6. recorder' \in [Recorders -> Recording(Recorded')]
    <2>1. Take(w, left)
      BY DEF RecordPrompt
    <2> HIDE DEF left
    <2>2. PICK P, Q, t : P = Recorded /\ Q = Recorded' /\ t = left
      OBVIOUS
    <2>3. Take(w, t)
      BY <2>1, <2>2
    <2>4. recorder' \in [Recorders -> Recording(Q)]
      BY <1>4, <1>5, <2>2, <2>3, TakeTypes DEF PromptsInv
    <2> QED  BY <2>2, <2>4
  <1>7. sessionRows' \in Seq([prompt : Recorded'] \cup Responses)
    <2>1. sessionRows \in Seq([prompt : Recorded'] \cup Responses)
      <3>1. [prompt : Recorded] \cup Responses \subseteq [prompt : Recorded'] \cup Responses
        BY <1>4
      <3> QED  BY <3>1, SeqMonotonic DEF PromptsInv
    <2>2. [prompt |-> p] \in [prompt : Recorded'] \cup Responses
      BY <1>4
    <2>3. sessionRows' = Append(sessionRows, [prompt |-> p])
      BY DEF RecordPrompt
    <2> QED  BY <2>1, <2>2, <2>3
  <1>8. votes' = votes /\ cuts' = cuts
    BY DEF RecordPrompt
  <1>9. \A q \in Prompts : promptKind'[q] = NoKind => votes'[q] = <<>>
    BY <1>1, <1>2, <1>8 DEF PromptsInv
  <1> QED  BY <1>3, <1>6, <1>7, <1>8, <1>9 DEF PromptsInv

LEMMA RecordResponseTypes ==
  ASSUME PromptsInv, NEW w \in Recorders, NEW r \in Responses, RecordResponse(w, r) PROVE PromptsInv'
  <1>1. PICK prompts2 : prompts2 = IF r.kind = NoKind THEN <<>> ELSE TurnUserPrompts(r.turn)
    OBVIOUS
  <1>2. prompts2 \in Seq(Recorded)
    BY <1>1, PromptsAreRecorded
  <1>3. PICK P : P = Recorded
    OBVIOUS
  <1>4. PICK n \in Nat : n = Len(prompts2) /\ DOMAIN prompts2 = 1 .. n
    BY <1>2
  <1>5. PICK left : left = [i \in 1 .. 2 * n |->
                              IF i % 2 = 1 THEN DoVote(prompts2[(i + 1) \div 2], "contextual", r.kind)
                              ELSE DoRecompute(prompts2[i \div 2])]
    OBVIOUS
  <1>6. left \in Seq(Work(P))
    <2>1. \A k \in 1 .. n : prompts2[k] \in P
      BY <1>2, <1>3, <1>4
    <2>2. ASSUME NEW i \in 1 .. 2 * n PROVE left[i] \in Work(P)
      <3>1. r.kind \in Kinds
        <4>1. n # 0
          BY <2>2
        <4>2. r.kind # NoKind
          BY <1>1, <1>4, <4>1
        <4> QED  BY <4>2, PromptAssumption DEF Kinds
      <3>2. CASE i % 2 = 1
        <4>1. (i + 1) \div 2 \in 1 .. n
          BY <3>2
        <4>2. prompts2[(i + 1) \div 2] \in P
          BY <2>1, <4>1
        <4> QED  BY <1>5, <3>1, <3>2, <4>2, KindsAreNames DEF DoVote, Vote, Work, Votes
      <3>3. CASE i % 2 # 1
        <4>1. i \div 2 \in 1 .. n
          BY <3>3
        <4>2. prompts2[i \div 2] \in P
          BY <2>1, <4>1
        <4> QED  BY <1>5, <3>3, <4>2 DEF DoRecompute, Work
      <3> QED  BY <3>2, <3>3
    <2>3. 2 * n \in Nat /\ DOMAIN left = 1 .. 2 * n /\ left = [i \in 1 .. 2 * n |-> left[i]]
      BY <1>5
    <2> QED  BY <2>2, <2>3
  <1>7. Take(w, left)
    BY <1>1, <1>4, <1>5 DEF RecordResponse
  <1>8. UNCHANGED <<promptKind, votes, cuts>> /\ sessionRows' = Append(sessionRows, r)
    BY DEF RecordResponse
  <1>9. Recorded' = Recorded
    BY <1>8 DEF Recorded
  <1>10. recorder' \in [Recorders -> Recording(P)]
    BY <1>3, <1>6, <1>7, TakeTypes DEF PromptsInv
  <1>11. sessionRows' \in Seq([prompt : Recorded] \cup Responses)
    <2>1. r \in [prompt : Recorded] \cup Responses
      OBVIOUS
    <2> QED  BY <1>8, <2>1 DEF PromptsInv
  <1> QED  BY <1>3, <1>8, <1>9, <1>10, <1>11 DEF PromptsInv

LEMMA StartBackfillTypes == ASSUME PromptsInv, NEW w \in Recorders, StartBackfill(w) PROVE PromptsInv'
  <1>1. PICK P, order : P = Recorded /\ order = PromptsInOrder
    OBVIOUS
  <1>2. order \in Seq(P)
    BY <1>1, PromptsAreRecorded
  <1>3. PICK left : left = [i \in DOMAIN order |-> DoScan(order[i], promptKind[order[i]], ContextualOf(Turn[order[i]]))]
    OBVIOUS
  <1>4. left \in Seq(Work(P))
    <2>1. PICK n \in Nat : DOMAIN order = 1 .. n
      BY <1>2
    <2>2. ASSUME NEW i \in DOMAIN order PROVE left[i] \in Work(P)
      <3>1. order[i] \in P /\ promptKind[order[i]] \in PromptKindNames
        BY <1>1, <1>2 DEF PromptsInv, Recorded
      <3>2. ContextualOf(Turn[order[i]]) \in Kinds \cup {NoKind}
        BY ContextualIsKind
      <3> QED  BY <1>3, <3>1, <3>2 DEF DoScan, Work
    <2>3. DOMAIN left = 1 .. n /\ left = [i \in 1 .. n |-> left[i]]
      BY <1>3, <2>1
    <2> QED  BY <2>1, <2>2, <2>3
  <1>5. Take(w, left)
    BY <1>1, <1>3 DEF StartBackfill
  <1>6. recorder' \in [Recorders -> Recording(P)]
    BY <1>1, <1>4, <1>5, TakeTypes DEF PromptsInv
  <1>7. UNCHANGED <<sessionRows, promptKind, votes, cuts>>
    BY DEF StartBackfill
  <1> QED  BY <1>1, <1>6, <1>7, RecorderStep DEF PromptsInv

LEMMA ScanPromptTypes == ASSUME PromptsInv, NEW w \in Recorders, ScanPrompt(w) PROVE PromptsInv'
  <1>1. PICK P, op : P = Recorded /\ op = Do(w)
    OBVIOUS
  <1>2. recorder[w].todo # <<>> /\ op.op = "scan"
    BY <1>1 DEF ScanPrompt, At, Do
  <1>3. op \in [op : {"scan"}, prompt : P, listed : PromptKindNames, contextual : Kinds \cup {NoKind}]
    BY <1>1, <1>2, DoIsWork DEF Work
  <1>4. BackfillVotes(op) \in Seq(Work(P))
    <2>1. CASE votes[op.prompt] # <<>>
      BY <2>1 DEF BackfillVotes
    <2>2. CASE votes[op.prompt] = <<>>
      <3>1. op.prompt \in Prompts
        BY <1>1, <1>3 DEF Recorded
      <3>2. HeuristicKind(op.prompt, op.listed) \in Kinds
        BY <1>3, <3>1, KindsAreNames DEF HeuristicKind, Kinds, PromptKindNames
      <3>3. PICK p, k, c, index :
              /\ p \in P /\ k \in Kinds /\ c \in Kinds \cup {NoKind}
              /\ p = op.prompt /\ k = HeuristicKind(op.prompt, op.listed) /\ c = op.contextual
              /\ index = IndexOf(op.prompt)
        BY <1>3, <3>2
      <3>4. FirstVotes(p, index, k) \in Seq(Work(P)) /\ <<DoRecompute(p)>> \in Seq(Work(P))
        <4>1. DoRecompute(p) \in Work(P)
          BY <3>3 DEF DoRecompute, Work
        <4>2. /\ DoVote(p, "positional", "direction_setting") \in Work(P)
              /\ DoVote(p, "heuristic", k) \in Work(P)
          BY <3>3, KindsAreNames DEF DoVote, Vote, Work, Votes
        <4> QED  BY <4>1, <4>2 DEF FirstVotes
      <3>5. ContextualVote(p, c) \in Seq(Work(P))
        <4>1. c # NoKind => DoVote(p, "contextual", c) \in Work(P)
          BY <3>3, KindsAreNames DEF DoVote, Vote, Work, Votes
        <4> QED  BY <4>1 DEF ContextualVote
      <3>6. BackfillVotes(op) = FirstVotes(p, index, k) \o ContextualVote(p, c) \o <<DoRecompute(p)>>
        BY <2>2, <3>3 DEF BackfillVotes
      <3> QED  BY <3>4, <3>5, <3>6
    <2> QED  BY <2>1, <2>2
  <1>5. PICK more \in Seq(Work(P)) : more = BackfillVotes(op) /\ GoOn(w, more)
    BY <1>1, <1>4 DEF ScanPrompt
  <1>6. recorder' \in [Recorders -> Recording(P)]
    BY <1>1, <1>2, <1>5, GoOnTypes DEF PromptsInv
  <1>7. UNCHANGED <<sessionRows, promptKind, votes, cuts>>
    BY DEF ScanPrompt
  <1> QED  BY <1>1, <1>6, <1>7, RecorderStep DEF PromptsInv

\* What the process has read changes, not what it has to do.
LEMMA ReadingTypes ==
  ASSUME PromptsInv, NEW w \in Recorders, NEW x \in Recording(Recorded), recorder' = [recorder EXCEPT ![w] = x],
         UNCHANGED <<sessionRows, promptKind, votes, cuts>>
  PROVE  PromptsInv'
  <1>1. recorder' \in [Recorders -> Recording(Recorded)]
    BY DEF PromptsInv
  <1> QED  BY <1>1, RecorderStep DEF PromptsInv

LEMMA NumberVoteTypes == ASSUME PromptsInv, NEW w \in Recorders, NumberVote(w) PROVE PromptsInv'
  <1>1. recorder[w].todo # <<>>
    BY DEF NumberVote, At
  <1>2. votes[Do(w).prompt] \in Seq(Votes)
    BY <1>1, DoIsWork DEF PromptsInv, Recorded
  <1>3. PICK n \in Nat : n = Len(votes[Do(w).prompt]) + 1
    BY <1>2
  <1>4. PICK x : x = [recorder[w] EXCEPT !.number = n]
    OBVIOUS
  <1>5. x \in Recording(Recorded)
    BY <1>1, <1>4, DoIsWork DEF Recording
  <1>6. recorder' = [recorder EXCEPT ![w] = x] /\ UNCHANGED <<sessionRows, promptKind, votes, cuts>>
    BY <1>3, <1>4 DEF NumberVote
  <1> QED  BY <1>5, <1>6, ReadingTypes

LEMMA ReadCurrentTypes == ASSUME PromptsInv, NEW w \in Recorders, ReadCurrentKind(w) PROVE PromptsInv'
  <1>1. recorder[w].todo # <<>>
    BY DEF ReadCurrentKind, At
  <1>2. PICK k \in PromptKindNames \cup {NoKind} : k = promptKind[Do(w).prompt]
    BY <1>1, DoIsWork DEF PromptsInv, Recorded
  <1>3. PICK x : x = [recorder[w] EXCEPT !.current = k]
    OBVIOUS
  <1>4. x \in Recording(Recorded)
    BY <1>1, <1>3, DoIsWork DEF Recording
  <1>5. recorder' = [recorder EXCEPT ![w] = x] /\ UNCHANGED <<sessionRows, promptKind, votes, cuts>>
    BY <1>2, <1>3 DEF ReadCurrentKind
  <1> QED  BY <1>4, <1>5, ReadingTypes

\* Nothing more of the first thing to do.
LEMMA DoneTypes ==
  ASSUME PromptsInv, NEW w \in Recorders, recorder[w].todo # <<>>, GoOn(w, <<>>)
  PROVE  recorder' \in [Recorders -> Recording(Recorded)]
  <1>1. PICK P, more : P = Recorded /\ more = <<>>
    OBVIOUS
  <1>2. recorder \in [Recorders -> Recording(P)]
    BY <1>1 DEF PromptsInv
  <1>3. more \in Seq(Work(P)) /\ GoOn(w, more)
    <2>1. more \in Seq(Work(P))
      BY <1>1
    <2> QED  BY <1>1, <2>1
  <1>4. recorder' \in [Recorders -> Recording(P)]
    BY <1>2, <1>3, GoOnTypes
  <1> QED  BY <1>1, <1>4

LEMMA ReadBeliefsTypes == ASSUME PromptsInv, NEW w \in Recorders, ReadBeliefs(w) PROVE PromptsInv'
  <1>1. recorder[w].todo # <<>> /\ UNCHANGED <<sessionRows, promptKind, votes, cuts>>
    BY DEF ReadBeliefs, At
  <1>2. PICK best \in Kinds \cup {NoKind} : best = BestKind(votes[Do(w).prompt])
    BY BestIsKind
  <1>3. CASE GoOn(w, <<>>)
    BY <1>1, <1>3, DoneTypes, RecorderStep DEF PromptsInv
  <1>4. CASE recorder' = [recorder EXCEPT ![w].best = best]
    <2>1. PICK x : x = [recorder[w] EXCEPT !.best = best]
      OBVIOUS
    <2>2. x \in Recording(Recorded)
      BY <1>1, <2>1, DoIsWork DEF Recording
    <2>3. recorder' = [recorder EXCEPT ![w] = x]
      BY <1>4, <2>1
    <2> QED  BY <1>1, <2>2, <2>3, ReadingTypes
  <1> QED  BY <1>2, <1>3, <1>4 DEF ReadBeliefs

LEMMA InsertVoteTypes == ASSUME PromptsInv, NEW w \in Recorders, InsertVote(w) PROVE PromptsInv'
  <1>1. PICK p, v : p = Do(w).prompt /\ v = Do(w).vote
    OBVIOUS
  <1>2. recorder[w].todo # <<>> /\ Do(w).op = "vote"
    BY DEF InsertVote, At, Do
  <1>3. p \in Recorded /\ v \in Votes
    BY <1>1, <1>2, DoIsWork DEF Work
  <1>4. p \in Prompts /\ promptKind[p] # NoKind
    BY <1>3 DEF Recorded
  <1>5. votes' = [votes EXCEPT ![p] = Append(votes[p], v)] /\ UNCHANGED <<sessionRows, promptKind, cuts>>
    BY <1>1 DEF InsertVote
  <1>6. votes' \in [Prompts -> Seq(Votes)] /\ \A q \in Prompts : promptKind[q] = NoKind => votes'[q] = <<>>
    BY <1>3, <1>4, <1>5 DEF PromptsInv
  <1>7. recorder' \in [Recorders -> Recording(Recorded)]
    BY <1>2, DoneTypes DEF InsertVote
  <1>8. Recorded' = Recorded
    BY <1>5 DEF Recorded
  <1> QED  BY <1>5, <1>6, <1>7, <1>8 DEF PromptsInv

LEMMA UpdateKindTypes == ASSUME PromptsInv, NEW w \in Recorders, UpdateKind(w) PROVE PromptsInv'
  <1>1. PICK p, k : p = Do(w).prompt /\ k = recorder[w].best
    OBVIOUS
  <1>2. recorder[w].todo # <<>> /\ k # NoKind
    BY <1>1 DEF UpdateKind, At
  <1>3. p \in Recorded /\ k \in PromptKindNames /\ k # NoKind
    BY <1>1, <1>2, DoIsWork, KindsAreNames DEF Recording
  <1>4. p \in Prompts /\ promptKind[p] # NoKind
    BY <1>3 DEF Recorded
  <1>5. promptKind' = [promptKind EXCEPT ![p] = k] /\ UNCHANGED <<sessionRows, votes, cuts>>
    BY <1>1 DEF UpdateKind
  <1>6. /\ promptKind' \in [Prompts -> PromptKindNames \cup {NoKind}]
        /\ \A q \in Prompts : promptKind'[q] = NoKind <=> promptKind[q] = NoKind
    BY <1>3, <1>4, <1>5 DEF PromptsInv
  <1>7. recorder' \in [Recorders -> Recording(Recorded)]
    BY <1>2, DoneTypes DEF UpdateKind
  <1>8. Recorded' = Recorded
    BY <1>6 DEF Recorded
  <1> QED  BY <1>5, <1>6, <1>7, <1>8 DEF PromptsInv

LEMMA LeaveOffTypes ==
  ASSUME PromptsInv, NEW w \in Recorders, LeaveOff(w), cuts' \in 0 .. MaxCutPrompts PROVE PromptsInv'
  <1>1. PICK P : P = Recorded
    OBVIOUS
  <1>2. Resting \in Recording(P)
    BY RestingIsRecording
  <1>3. recorder' \in [Recorders -> Recording(Recorded)] /\ UNCHANGED <<sessionRows, promptKind, votes>>
    BY <1>1, <1>2 DEF LeaveOff, PromptsInv
  <1> QED  BY <1>3, RecorderStep

LEMMA NextPromptsInv == ASSUME PromptsInv, PromptsNext PROVE PromptsInv'
  <1>1. PICK w \in Recorders :
          \/ \E p \in Prompts : RecordPrompt(w, p)
          \/ \E r \in Responses : RecordResponse(w, r)
          \/ StartBackfill(w) \/ ScanPrompt(w)
          \/ NumberVote(w) \/ InsertVote(w) \/ NumberTaken(w)
          \/ ReadCurrentKind(w) \/ ReadBeliefs(w) \/ UpdateKind(w)
          \/ StopRecording(w)
    BY DEF PromptsNext
  <1>2. CASE NumberTaken(w)
    BY <1>2, LeaveOffTypes DEF NumberTaken, PromptsInv
  <1>3. CASE StopRecording(w)
    <2>1. cuts' \in 0 .. MaxCutPrompts
      BY <1>3, PromptAssumption DEF StopRecording, PromptsInv
    <2> QED  BY <1>3, <2>1, LeaveOffTypes DEF StopRecording
  <1> QED
    BY <1>1, <1>2, <1>3, RecordPromptTypes, RecordResponseTypes, StartBackfillTypes, ScanPromptTypes,
       NumberVoteTypes, InsertVoteTypes, ReadCurrentTypes, ReadBeliefsTypes, UpdateKindTypes

LEMMA InitPromptsInv == PromptsInit => PromptsInv
  <1> SUFFICES ASSUME PromptsInit PROVE PromptsInv
    OBVIOUS
  <1>1. promptKind = [p \in Prompts |-> IF p \in Range(Legacy) THEN "user_prompt" ELSE NoKind]
    BY DEF PromptsInit
  <1>2. promptKind \in [Prompts -> PromptKindNames \cup {NoKind}]
    BY <1>1, KindsAreNames
  <1>3. sessionRows \in Seq([prompt : Recorded] \cup Responses)
    <2>1. PICK n \in Nat : DOMAIN Legacy = 1 .. n
      BY PromptAssumption
    <2>2. \A i \in DOMAIN Legacy : Legacy[i] \in Prompts /\ Legacy[i] \in Range(Legacy)
      BY PromptAssumption DEF Range
    <2>3. \A i \in DOMAIN Legacy : Legacy[i] \in Recorded
      BY <1>1, <2>2, KindsAreNames DEF Recorded
    <2>4. sessionRows = [i \in 1 .. n |-> [prompt |-> Legacy[i]]]
      BY <2>1 DEF PromptsInit
    <2>5. \A i \in 1 .. n : [prompt |-> Legacy[i]] \in [prompt : Recorded] \cup Responses
      BY <2>1, <2>3
    <2> QED  BY <2>4, <2>5
  <1>4. recorder \in [Recorders -> Recording(Recorded)]
    <2>1. PICK P : P = Recorded
      OBVIOUS
    <2>2. Resting \in Recording(P)
      BY RestingIsRecording
    <2> QED  BY <2>1, <2>2 DEF PromptsInit
  <1>5. votes \in [Prompts -> Seq(Votes)] /\ \A p \in Prompts : votes[p] = <<>>
    BY DEF PromptsInit
  <1> QED  BY <1>2, <1>3, <1>4, <1>5, PromptAssumption DEF PromptsInit, PromptsInv

-----------------------------------------------------------------------------
(* All of them.                                                            *)

LocalTypes == CountTypes /\ TelemetryTypes /\ BannerPlaces /\ BatchTimes /\ PoolHasBatches /\ PromptsInv

LEMMA InitLocalTypes == Init => LocalTypes
  <1> SUFFICES ASSUME Init PROVE LocalTypes
    OBVIOUS
  <1>1. CountTypes
    BY OutboxAssumption DEF Init, FlowInit, OutboxInit, CountTypes
  <1>2. TelemetryTypes
    <2>1. <<>> \in Seq(TelemetryRows) /\ Len(<<>>) = 0
      OBVIOUS
    <2> QED  BY <2>1, LocalAssumption DEF Init, TelemetryTypes
  <1>3. BannerPlaces
    BY BannerAssumption DEF Init, BannerInit, BannerPlaces, IdleHook
  <1>4. BatchTimes /\ PoolHasBatches
    BY DEF Init, GitInit, BatchTimes, PoolHasBatches, NotImporting
  <1>5. PromptsInv
    BY InitPromptsInv DEF Init
  <1> QED  BY <1>1, <1>2, <1>3, <1>4, <1>5 DEF LocalTypes

LEMMA NextLocalTypes == ASSUME OutboxInv, BannerInv, GitInv, LocalTypes, [Next]_vars PROVE LocalTypes'
  <1>1. UNCHANGED <<createdAt, clock, truncations, faults>> => CountTypes'
    BY DEF LocalTypes, CountTypes
  <1>2. UNCHANGED telemetry => TelemetryTypes'
    BY DEF LocalTypes, TelemetryTypes
  <1>3. UNCHANGED <<store, markers, hook>> => BannerPlaces'
    BY DEF LocalTypes, BannerPlaces
  <1>4. UNCHANGED <<gitBatches, importer, gitClock, poolRows, poolBatches>> => BatchTimes' /\ PoolHasBatches'
    BY DEF LocalTypes, BatchTimes, PoolHasBatches
  <1>5. UNCHANGED promptVars => PromptsInv'
    <2> SUFFICES ASSUME UNCHANGED promptVars PROVE PromptsInv'
      OBVIOUS
    <2>1. /\ UNCHANGED <<sessionRows, promptKind, votes, cuts>> /\ recorder' = recorder
          /\ PromptsInv
      BY DEF promptVars, LocalTypes
    <2> QED  BY <2>1, RecorderStep DEF PromptsInv
  <1>6. UNCHANGED flowVars => UNCHANGED <<createdAt, clock, truncations, faults>>
    BY DEF flowVars, outboxVars, ledgerVars, counts
  <1>7. UNCHANGED bannerVars => UNCHANGED <<store, markers, hook>>
    BY DEF bannerVars
  <1>8. UNCHANGED gitVars => UNCHANGED <<gitBatches, importer, gitClock, poolRows, poolBatches>>
    BY DEF gitVars, sourceVars, poolVars
  <1>9. CASE OutboxStep
    BY <1>2, <1>3, <1>4, <1>5, <1>7, <1>8, <1>9, OutboxCounts DEF OutboxStep, LocalTypes
  <1>10. CASE CorpusStep
    BY <1>2, <1>3, <1>4, <1>5, <1>7, <1>8, <1>10, CorpusCounts DEF CorpusStep, LocalTypes
  <1>11. CASE PromptsStep
    BY <1>1, <1>2, <1>3, <1>4, <1>6, <1>7, <1>8, <1>11, NextPromptsInv DEF PromptsStep, LocalTypes
  <1>12. CASE GitStep
    BY <1>1, <1>2, <1>3, <1>5, <1>6, <1>7, <1>12, NextGitTimes DEF GitStep, LocalTypes
  <1>13. CASE TelemetryStep
    BY <1>1, <1>3, <1>4, <1>5, <1>6, <1>7, <1>8, <1>13, AppendRowTypes DEF TelemetryStep, LocalTypes
  <1>14. CASE BannerStep
    BY <1>1, <1>2, <1>4, <1>5, <1>6, <1>8, <1>14, NextBannerPlaces DEF BannerStep, LocalTypes
  <1>15. CASE ProtocolsStep \/ UNCHANGED vars
    BY <1>1, <1>2, <1>3, <1>4, <1>5, <1>6, <1>7, <1>8, <1>15 DEF ProtocolsStep, vars, LocalTypes
  <1> QED  BY <1>9, <1>10, <1>11, <1>12, <1>13, <1>14, <1>15 DEF Next

LEMMA InvariantsGiveTypes ==
  ASSUME OutboxInv, SyncInv, ProtocolsInv, GitInv, LocalTypes PROVE TypeOK
  <1>1. OutboxTypeOK
    BY DEF OutboxInv, OutboxTypes, LocalTypes, CountTypes, OutboxTypeOK
  <1>2. SyncTypeOK
    BY KeysOfRows DEF SyncInv, SyncTypes, SyncTypeOK
  <1>3. ProtocolsTypeOK
    BY DEF ProtocolsInv, ProtocolTypes, ProtocolsTypeOK
  <1>4. PromptsTypeOK
    <2>1. \A p \in Prompts : \A i \in DOMAIN votes[p] : votes[p][i] \in Votes
      BY DEF LocalTypes, PromptsInv
    <2> QED  BY <2>1 DEF LocalTypes, PromptsInv, PromptsTypeOK, Votes, Kinds
  <1>5. GitTypeOK
    BY DEF GitInv, SourcesInv, RowsFollowCommit, LocalTypes, BatchTimes, PoolHasBatches, GitTypeOK, BatchStatuses
  <1>6. BannerTypeOK
    BY DEF LocalTypes, BannerPlaces, BannerTypeOK
  <1>7. Len(telemetry) <= MaxRows
    BY DEF LocalTypes, TelemetryTypes
  <1> QED  BY <1>1, <1>2, <1>3, <1>4, <1>5, <1>6, <1>7 DEF TypeOK

\* Every store has rows of its own kind, in every reachable state: references lead to rows
\* that are there, statuses are those of the code, nothing is dated after the clock.
THEOREM LocalStoresTypeOK == Spec => []TypeOK
  <1>1. Init => LocalTypes
    BY InitLocalTypes
  <1>2. OutboxInv /\ BannerInv /\ GitInv /\ LocalTypes /\ [Next]_vars => LocalTypes'
    BY NextLocalTypes
  <1>3. OutboxInv /\ SyncInv /\ ProtocolsInv /\ GitInv /\ LocalTypes => TypeOK
    BY InvariantsGiveTypes
  <1> QED
    BY <1>1, <1>2, <1>3, OutboxInvariance, SyncInvariance, ProtocolsInvariance, BannerInvariance, GitInvariance,
       PTL DEF Spec
=============================================================================
