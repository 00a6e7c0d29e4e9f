----------------------- MODULE ZoneAssociationsProofs -----------------------
(***************************************************************************)
(* Proofs about ZoneAssociations for any events, jobs, zones, commands and *)
(* any number of processes and of runs that are cut off.  Each part of the *)
(* inductive invariant is proved from the ones before it:                  *)
(*   RunInv      where a process is, and what it has left to do            *)
(*   CountedInv  what becomes of an observation until it is counted        *)
(*   CommandInv  the statuses of commands, while they are recorded         *)
(*   PendingInv  the pairs of zones that a process is still to derive      *)
(*   RowInv      how the tables of the derivation follow from one another  *)
(*   SoloInv     what one process alone has counted, whenever it may stop  *)
(*   EnsuredInv  that counters are made for an observation only            *)
(* From them follow the reports, and what is recommended when every run of *)
(* one process has returned: a recommendation adds up the rows of pairs,   *)
(* and those are the jobs that share the pairs (LinksAddUp).               *)
(***************************************************************************)
EXTENDS ActivationReports, SumTheorems, SequenceTheorems, FiniteSetTheorems, TLAPS

Applying == {"job", "command", "deploy", "paths", "mark"}
OfJob == {"zones", "pairs", "outcome", "list"}
OfPair == {"ensure", "old", "observe", "count"}

Types ==
  /\ recorded \subseteq Events /\ normalized \subseteq recorded /\ running \subseteq Procs
  /\ aborts \in 0 .. MaxAborts
  /\ batch \in [Procs -> Seq(recorded)]
  /\ jobStatus \in [Jobs -> {"none", "started", "completed"}]
  /\ commands \in [Jobs -> [Commands -> CommandStatuses \cup {None}]]
  /\ deployments \in [Jobs -> [Deploying -> CommandStatuses \cup {None}]]
  /\ touched \in [Jobs -> SUBSET Zones] /\ active \in [Jobs -> SUBSET Zones]
  /\ coactive \in [Jobs -> SUBSET Pairs]
  /\ observation \in [Pairs -> [Jobs -> Outcomes \cup {None}]]
  /\ association \in [Pairs -> Counters \cup {None}]
  /\ at \in [Procs -> Applying \cup OfJob \cup OfPair]
  /\ derive \in [Procs -> Seq(Jobs)]
  /\ outcome \in [Procs -> Outcomes]
  /\ pairs \in [Procs -> Seq(Pairs)]
  /\ old \in [Procs -> Outcomes \cup {None}]

\* A process works through its events, then through its jobs, and pair by pair through each.
Control(p) ==
  /\ at[p] \in Applying \ {"job"} => Working(p) /\ Fact(p).job \in Range(derive[p])
  /\ at[p] \in OfJob \cup OfPair => p \in running /\ batch[p] = <<>> /\ derive[p] # <<>>
  /\ at[p] \in OfPair <=> pairs[p] # <<>>
  /\ at[p] = "job" /\ batch[p] = <<>> => derive[p] = <<>>
  /\ p \notin running => batch[p] = <<>>

\* The pair a process counts has counters.
Ensured(p) ==
  at[p] \in {"old", "observe", "count"} => \E pair \in Pairs : pair = Pair(p) /\ association[pair] # None

RunInv == Types /\ \A p \in Procs : Control(p) /\ Ensured(p)

-----------------------------------------------------------------------------
LEMMA HeadTailRange ==
  ASSUME NEW S, NEW s \in Seq(S), s # <<>>
  PROVE  /\ Head(s) \in S /\ Tail(s) \in Seq(S)
         /\ Range(s) = {Head(s)} \cup Range(Tail(s)) /\ Range(s) \subseteq S
         /\ Len(s) = 1 <=> Tail(s) = <<>>
  <1>1. /\ Head(s) \in S /\ Tail(s) \in Seq(S) /\ Len(Tail(s)) = Len(s) - 1
        /\ \A i \in 1 .. Len(Tail(s)) : Tail(s)[i] = s[i + 1]
    BY HeadTailProperties
  <1>2. Len(s) \in Nat /\ Len(s) # 0 /\ s[1] = Head(s)
    BY EmptySeq
  <1>3. Range(s) = {s[i] : i \in 1 .. Len(s)} /\ Range(Tail(s)) = {Tail(s)[i] : i \in 1 .. Len(Tail(s))}
    BY <1>1, RangeEquality
  <1>4. \A i \in 1 .. Len(s) : i = 1 \/ (i - 1 \in 1 .. Len(Tail(s)) /\ s[i] = Tail(s)[i - 1])
    BY <1>1, <1>2
  <1>5. Range(s) = {Head(s)} \cup Range(Tail(s))
    <2>1. \A i \in 1 .. Len(s) : s[i] \in {Head(s)} \cup Range(Tail(s))
      BY <1>2, <1>3, <1>4
    <2>2. \A i \in 1 .. Len(Tail(s)) : i + 1 \in 1 .. Len(s)
      BY <1>1, <1>2
    <2>3. \A i \in 1 .. Len(Tail(s)) : Tail(s)[i] \in Range(s)
      BY <1>1, <1>3, <2>2
    <2>4. Head(s) \in Range(s)
      BY <1>2, <1>3
    <2> QED  BY <1>3, <2>1, <2>3, <2>4
  <1>6. Range(s) \subseteq S
    BY <1>3, ElementOfSeq
  <1>7. Len(s) = 1 <=> Tail(s) = <<>>
    <2>1. Len(s) = 1 <=> Len(Tail(s)) = 0
      BY <1>1, <1>2
    <2> QED  BY <1>1, <2>1, EmptySeq
  <1> QED  BY <1>1, <1>5, <1>6, <1>7

LEMMA EmptyRange == Range(<<>>) = {}
  BY DEF Range

LEMMA AppendedRange ==
  ASSUME NEW S, NEW s \in Seq(S), NEW x \in S
  PROVE  /\ s \o <<x>> \in Seq(S) /\ s \o <<x>> # <<>>
         /\ Range(s \o <<x>>) = Range(s) \cup {x}
  <1>1. <<x>> \in Seq(S) /\ Range(<<x>>) = {x}
    <2>1. <<x>> \in Seq(S) /\ Len(<<x>>) = 1 /\ <<x>>[1] = x
      OBVIOUS
    <2>2. Range(<<x>>) = {<<x>>[i] : i \in 1 .. 1}
      BY <2>1, RangeEquality
    <2> QED  BY <2>1, <2>2
  <1>2. s \o <<x>> \in Seq(S) /\ Len(s \o <<x>>) = Len(s) + 1
    BY <1>1, ConcatProperties
  <1>3. Range(s \o <<x>>) = Range(s) \cup {x}
    <2> DEFINE last == <<x>>
    <2>1. last \in Seq(S) /\ Range(last) = {x}
      BY <1>1
    <2> HIDE DEF last
    <2>2. Range(s \o last) = Range(s) \cup Range(last)
      BY <2>1, RangeConcatenation
    <2> QED  BY <2>1, <2>2 DEF last
  <1> QED  BY <1>2, <1>3, LenProperties

\* The elements of a finite set in some order, each of them once.
LEMMA ListedInOrder ==
  ASSUME NEW S, IsFiniteSet(S)
  PROVE  SetToSeq(S) \in Seq(S) /\ Range(SetToSeq(S)) = S
  <1> DEFINE n == Cardinality(S)
  <1>1. n \in Nat /\ ExistsBijection(1 .. n, S)
    BY FS_CardinalityType
  <1>2. \E f \in [1 .. n -> S] : IsInjective(f)
    BY <1>1 DEF ExistsBijection, Bijection, Injection
  <1>3. SetToSeq(S) \in [1 .. n -> S] /\ IsInjective(SetToSeq(S))
    BY <1>2 DEF SetToSeq
  <1>4. SetToSeq(S) \in Injection(1 .. n, S)
    BY <1>3 DEF Injection
  <1>5. Cardinality(1 .. n) = n
    BY <1>1, FS_Interval
  <1>6. SetToSeq(S) \in Surjection(1 .. n, S)
    BY <1>4, <1>5, FS_Injection
  <1>7. SetToSeq(S) \in Seq(S)
    BY <1>1, <1>3, SeqDef
  <1>8. Range(SetToSeq(S)) = S
    BY <1>3, <1>6 DEF Range, Surjection
  <1> QED  BY <1>7, <1>8

LEMMA NoneIsNew ==
  None \notin Commands /\ None \notin CommandStatuses /\ None \notin Outcomes /\ None \notin Counters
  BY AssociationAssumption

LEMMA PairsFinite == IsFiniteSet(Pairs)
  <1>1. IsFiniteSet(SUBSET Zones)
    BY AssociationAssumption, FS_SUBSET
  <1> QED  BY <1>1, FS_Subset DEF Pairs

\* What a process that applies an event has in its hands.
LEMMA ApplyFacts ==
  ASSUME RunInv, NEW p \in Procs, Working(p)
  PROVE  /\ Current(p) \in recorded /\ Current(p) \in Events
         /\ Tail(batch[p]) \in Seq(recorded) /\ (Len(batch[p]) = 1 <=> Tail(batch[p]) = <<>>)
         /\ Fact(p).job \in Jobs /\ Fact(p).zones \in SUBSET Zones
         /\ Fact(p).command \in Commands \cup {None}
         /\ Fact(p).command # None => Fact(p).status \in CommandStatuses
  <1>1. batch[p] \in Seq(recorded) /\ batch[p] # <<>>
    BY DEF RunInv, Types, Working
  <1>2. /\ Current(p) \in recorded /\ Current(p) \in Events
        /\ Tail(batch[p]) \in Seq(recorded) /\ (Len(batch[p]) = 1 <=> Tail(batch[p]) = <<>>)
    BY <1>1, HeadTailRange DEF Current, RunInv, Types
  <1>3. /\ Facts[Current(p)] \in [job: Jobs, zones: SUBSET Zones, stop: BOOLEAN,
                                  command: Commands \cup {None}, status: CommandStatuses \cup {None}]
        /\ Facts[Current(p)].command # None => Facts[Current(p)].status # None
    BY <1>2, AssociationAssumption
  <1> QED  BY <1>2, <1>3 DEF Fact

\* What a process that derives a job has in its hands.
LEMMA DeriveFacts ==
  ASSUME RunInv, NEW p \in Procs, NEW stage, Deriving(p, stage)
  PROVE  /\ p \in running /\ batch[p] = <<>> /\ at[p] = stage /\ derive[p] \in Seq(Jobs)
         /\ Job(p) \in Jobs /\ Tail(derive[p]) \in Seq(Jobs)
         /\ Range(derive[p]) = {Job(p)} \cup Range(Tail(derive[p]))
         /\ Len(derive[p]) = 1 <=> Tail(derive[p]) = <<>>
  <1>1. derive[p] \in Seq(Jobs) /\ derive[p] # <<>>
    BY DEF RunInv, Types, Deriving
  <1> QED  BY <1>1, HeadTailRange DEF Job, Deriving

LEMMA PairFacts ==
  ASSUME RunInv, NEW p \in Procs, NEW stage \in OfPair, Deriving(p, stage)
  PROVE  /\ Pair(p) \in Pairs /\ Tail(pairs[p]) \in Seq(Pairs) /\ pairs[p] # <<>>
         /\ Range(pairs[p]) = {Pair(p)} \cup Range(Tail(pairs[p]))
  <1>1. pairs[p] \in Seq(Pairs) /\ pairs[p] # <<>>
    BY DEF RunInv, Types, Deriving, Control
  <1> QED  BY <1>1, HeadTailRange DEF Pair

-----------------------------------------------------------------------------
(* Where a process is.                                                     *)

KeepsCounters == \A pair \in Pairs : association[pair] # None => association'[pair] # None

\* A step of one process leaves the others where they are.
LEMMA RunStep ==
  ASSUME RunInv, Types', NEW p \in Procs, Control(p)', Ensured(p)', KeepsCounters,
         \A q \in Procs \ {p} : /\ at'[q] = at[q] /\ batch'[q] = batch[q] /\ derive'[q] = derive[q]
                                /\ pairs'[q] = pairs[q] /\ (q \in running' <=> q \in running)
  PROVE  RunInv'
  <1>1. ASSUME NEW q \in Procs \ {p} PROVE Control(q)' /\ Ensured(q)'
    <2>1. Control(q)'
      BY DEF RunInv, Control, Working, Fact, Current
    <2>2. Ensured(q)'
      <3>1. CASE at[q] \in {"old", "observe", "count"}
        <4>1. PICK pair \in Pairs : pair = Pair(q) /\ association[pair] # None
          BY <3>1 DEF RunInv, Ensured
        <4>2. pair = Pair(q)' /\ association'[pair] # None
          BY <4>1 DEF Pair, KeepsCounters
        <4> QED  BY <4>2 DEF Ensured
      <3> QED  BY <3>1 DEF Ensured
    <2> QED  BY <2>1, <2>2
  <1> QED  BY <1>1 DEF RunInv

LEMMA RecordRun == ASSUME RunInv, NEW e \in Events, Record(e) PROVE RunInv'
  <1>1. \A p \in Procs : batch[p] \in Seq(recorded')
    BY SeqMonotonic DEF RunInv, Types, Record, RecordEvent
  <1>2. Types'
    BY <1>1 DEF RunInv, Types, Record, RecordEvent, facts, derived, local
  <1> QED
    BY <1>2 DEF RunInv, Control, Ensured, Pair, Working, Fact, Current, Record, RecordEvent, derived, local

LEMMA StartRun == ASSUME RunInv, NEW p \in Procs, Start(p) PROVE RunInv'
  <1> DEFINE listed == recorded \ normalized
  <1>1. /\ p \notin running /\ listed # {} /\ running' = running \cup {p}
        /\ UNCHANGED <<recorded, normalized, aborts, facts, derived, local>>
    BY DEF Start, ListEvents
  <1>2. PICK events \in [1 .. Cardinality(listed) -> listed] : batch' = [batch EXCEPT ![p] = events]
    BY DEF Start, ListEvents
  <1>3. IsFiniteSet(listed) /\ Cardinality(listed) \in Nat /\ Cardinality(listed) # 0
    <2>1. listed \subseteq Events
      BY DEF RunInv, Types
    <2>2. IsFiniteSet(listed)
      BY <2>1, RunnerAssumption, FS_Subset
    <2> QED  BY <1>1, <2>2, FS_CardinalityType, FS_EmptySet
  <1>4. events \in Seq(recorded) /\ events # <<>>
    <2>1. events \in [1 .. Cardinality(listed) -> recorded]
      BY <1>2
    <2> HIDE DEF listed
    <2>2. events \in Seq(recorded)
      BY <1>3, <2>1, SeqDef
    <2>3. Len(events) = Cardinality(listed)
      BY <1>3, <2>1, <2>2, LenProperties
    <2> QED  BY <1>3, <2>2, <2>3, EmptySeq
  <1>5. Types'
    BY <1>1, <1>2, <1>4 DEF RunInv, Types, facts, derived, local
  <1>6. Control(p)'
    <2>1. batch'[p] = events /\ p \in running'
      BY <1>1, <1>2 DEF RunInv, Types
    <2>2. at[p] = "job" /\ pairs[p] = <<>>
      BY <1>1 DEF RunInv, Types, Control, Working, Applying, OfJob, OfPair
    <2> QED  BY <1>1, <1>4, <2>1, <2>2 DEF Control, Applying, OfJob, OfPair, local
  <1>7. \A q \in Procs \ {p} : /\ at'[q] = at[q] /\ batch'[q] = batch[q] /\ derive'[q] = derive[q]
                               /\ pairs'[q] = pairs[q] /\ (q \in running' <=> q \in running)
    BY <1>1, <1>2 DEF RunInv, Types, local
  <1>8. Ensured(p)' /\ KeepsCounters
    BY <1>1, <1>6 DEF Ensured, KeepsCounters, RunInv, Types, Control, Working, Applying, OfPair, derived, local
  <1> QED  BY <1>8, <1>5, <1>6, <1>7, RunStep

LEMMA RecordJobRun == ASSUME RunInv, NEW p \in Procs, RecordJob(p) PROVE RunInv'
  <1> DEFINE met == derive[p] \o Met(p)
             next == IF Fact(p).command = None THEN "paths" ELSE "command"
  <1>1. Working(p) /\ at[p] = "job" /\ Fact(p).job \in Jobs
    BY ApplyFacts DEF RecordJob, Recording
  <1>2. /\ jobStatus' = [jobStatus EXCEPT ![Fact(p).job] = IF Fact(p).stop THEN "completed" ELSE "started"]
        /\ derive' = [derive EXCEPT ![p] = met]
        /\ at' = [at EXCEPT ![p] = next]
        /\ UNCHANGED <<runnerVars, commands, deployments, touched, derived, outcome, pairs, old>>
    BY DEF RecordJob, Goto
  <1>3. met \in Seq(Jobs) /\ Fact(p).job \in Range(met) /\ Range(derive[p]) \subseteq Range(met)
    <2>1. derive[p] \in Seq(Jobs)
      BY DEF RunInv, Types
    <2>2. CASE Met(p) = <<>>
      BY <1>1, <2>1, <2>2, ConcatEmptySeq DEF Met
    <2>3. CASE Met(p) = <<Fact(p).job>>
      BY <1>1, <2>1, <2>3, AppendedRange
    <2> QED  BY <2>2, <2>3 DEF Met
  <1>4. next \in {"paths", "command"}
    OBVIOUS
  <1> HIDE DEF met, next
  <1>5. Types'
    BY <1>1, <1>2, <1>3, <1>4 DEF RunInv, Types, Applying, runnerVars, derived
  <1>6. \A q \in Procs \ {p} : /\ at'[q] = at[q] /\ batch'[q] = batch[q] /\ derive'[q] = derive[q]
                               /\ pairs'[q] = pairs[q] /\ (q \in running' <=> q \in running)
    BY <1>2 DEF RunInv, Types, runnerVars
  <1>7. at'[p] = next /\ batch'[p] = batch[p] /\ pairs'[p] = pairs[p] /\ running' = running
    BY <1>2 DEF RunInv, Types, runnerVars
  <1>8. pairs[p] = <<>>
    BY <1>1 DEF RunInv, Control, OfPair
  <1>9. derive'[p] = met /\ Fact(p)' = Fact(p)
    BY <1>2, <1>7 DEF RunInv, Types, Fact, Current
  <1>10. Control(p)'
    BY <1>1, <1>3, <1>4, <1>7, <1>8, <1>9 DEF Control, Working, Applying, OfJob, OfPair
  <1>11. Ensured(p)' /\ KeepsCounters
    BY <1>2, <1>4, <1>7 DEF Ensured, KeepsCounters, derived
  <1> QED  BY <1>11, <1>5, <1>6, <1>10, RunStep

\* A step that takes a process to the next statement for its event.
LEMMA ApplyStep ==
  ASSUME RunInv, Types', NEW p \in Procs, Working(p), at[p] \in Applying \ {"job"},
         NEW next \in Applying \ {"job"}, Goto(p, next), UNCHANGED <<runnerVars, derive, pairs, association>>
  PROVE  RunInv'
  <1>1. \A q \in Procs \ {p} : /\ at'[q] = at[q] /\ batch'[q] = batch[q] /\ derive'[q] = derive[q]
                               /\ pairs'[q] = pairs[q] /\ (q \in running' <=> q \in running)
    BY DEF RunInv, Types, runnerVars, Goto
  <1>2. at'[p] = next /\ batch'[p] = batch[p] /\ pairs'[p] = pairs[p] /\ running' = running
    BY DEF RunInv, Types, runnerVars, Goto
  <1>3. pairs[p] = <<>>
    BY DEF RunInv, Control, OfPair, Applying
  <1>4. Fact(p).job \in Range(derive[p]) /\ derive' = derive
    BY DEF RunInv, Control
  <1>5. Control(p)'
    BY <1>2, <1>3, <1>4 DEF Control, Working, Fact, Current, Applying, OfJob, OfPair
  <1>6. Ensured(p)' /\ KeepsCounters
    BY <1>2 DEF Ensured, KeepsCounters, Applying
  <1> QED  BY <1>6, <1>1, <1>5, RunStep

LEMMA RecordCommandRun == ASSUME RunInv, NEW p \in Procs, RecordCommand(p) PROVE RunInv'
  <1>1. PICK next \in {"deploy", "paths"} : Goto(p, next)
    BY DEF RecordCommand
  <1>2. PICK j, c : j \in Jobs /\ j = Fact(p).job /\ c = Fact(p).command
    BY ApplyFacts DEF RecordCommand, Recording
  <1>3. \A before \in CommandStatuses \cup {None} :
          Merge(before, Fact(p).status) \in CommandStatuses \cup {None} \/ c = None
    BY <1>2, ApplyFacts DEF RecordCommand, Recording, Merge
  <1>4. commands' \in [Jobs -> [Commands -> CommandStatuses \cup {None}]]
    <2>1. commands' = [commands EXCEPT ![j][c] = Merge(@, Fact(p).status)]
      BY <1>2 DEF RecordCommand
    <2>2. CASE c \in Commands
      <3>1. commands[j] \in [Commands -> CommandStatuses \cup {None}]
        BY <1>2 DEF RunInv, Types
      <3>2. Merge(commands[j][c], Fact(p).status) \in CommandStatuses \cup {None}
        BY <1>3, <2>2, <3>1, NoneIsNew
      <3>3. [commands[j] EXCEPT ![c] = Merge(@, Fact(p).status)] \in [Commands -> CommandStatuses \cup {None}]
        BY <3>1, <3>2
      <3> QED  BY <2>1, <3>3 DEF RunInv, Types
    <2>3. CASE c \notin Commands
      BY <2>1, <2>3 DEF RunInv, Types
    <2> QED  BY <2>2, <2>3
  <1>5. Types'
    BY <1>1, <1>4 DEF RunInv, Types, RecordCommand, Goto, Applying, runnerVars, derived
  <1> QED  BY <1>1, <1>5, ApplyStep DEF derived, RecordCommand, Recording, Applying

LEMMA RecordDeploymentRun == ASSUME RunInv, NEW p \in Procs, RecordDeployment(p) PROVE RunInv'
  <1>1. PICK j, c : j \in Jobs /\ j = Fact(p).job /\ c = Fact(p).command
    BY ApplyFacts DEF RecordDeployment, Recording
  <1>2. deployments' \in [Jobs -> [Deploying -> CommandStatuses \cup {None}]]
    <2>1. deployments' = [deployments EXCEPT ![j][c] = Fact(p).status]
      BY <1>1 DEF RecordDeployment
    <2>2. CASE c \in Deploying
      <3>1. Fact(p).status \in CommandStatuses
        BY <1>1, <2>2, ApplyFacts, AssociationAssumption DEF RecordDeployment, Recording
      <3> QED  BY <2>1, <2>2, <3>1 DEF RunInv, Types
    <2>3. CASE c \notin Deploying
      BY <2>1, <2>3 DEF RunInv, Types
    <2> QED  BY <2>2, <2>3
  <1>3. Types'
    BY <1>2 DEF RunInv, Types, RecordDeployment, Goto, Applying, runnerVars, derived
  <1> QED  BY <1>3, ApplyStep DEF derived, RecordDeployment, Recording, Applying

LEMMA RecordPathsRun == ASSUME RunInv, NEW p \in Procs, RecordPaths(p) PROVE RunInv'
  <1>1. PICK j \in Jobs, zones \in SUBSET Zones : j = Fact(p).job /\ zones = Fact(p).zones
    BY ApplyFacts DEF RecordPaths, Recording
  <1>2. touched' \in [Jobs -> SUBSET Zones]
    BY <1>1 DEF RecordPaths, RunInv, Types
  <1>3. Types'
    BY <1>2 DEF RunInv, Types, RecordPaths, Goto, Applying, runnerVars, derived
  <1> QED  BY <1>3, ApplyStep DEF derived, RecordPaths, Recording, Applying

LEMMA MarkRun == ASSUME RunInv, NEW p \in Procs, Mark(p) PROVE RunInv'
  <1> DEFINE rest == Tail(batch[p])
             next == IF Len(batch[p]) = 1 THEN "zones" ELSE "job"
  <1>1. /\ Working(p) /\ at[p] = "mark" /\ Current(p) \in recorded
        /\ rest \in Seq(recorded) /\ (next = "zones" <=> rest = <<>>) /\ next \in {"zones", "job"}
    BY ApplyFacts DEF Mark, Recording
  <1>2. /\ normalized' = normalized \cup {Current(p)} /\ batch' = [batch EXCEPT ![p] = rest]
        /\ at' = [at EXCEPT ![p] = next]
        /\ UNCHANGED <<recorded, running, aborts, facts, derived, derive, outcome, pairs, old>>
    BY DEF Mark, MarkNormalized, Goto
  <1> HIDE DEF rest, next
  <1>3. Types'
    BY <1>1, <1>2 DEF RunInv, Types, facts, derived, Applying, OfJob
  <1>4. \A q \in Procs \ {p} : /\ at'[q] = at[q] /\ batch'[q] = batch[q] /\ derive'[q] = derive[q]
                               /\ pairs'[q] = pairs[q] /\ (q \in running' <=> q \in running)
    BY <1>2 DEF RunInv, Types
  <1>5. at'[p] = next /\ batch'[p] = rest /\ pairs'[p] = pairs[p] /\ running' = running /\ derive' = derive
    BY <1>2 DEF RunInv, Types
  <1>6. derive[p] # <<>> /\ pairs[p] = <<>>
    <2>1. Range(derive[p]) # {}
      BY <1>1 DEF RunInv, Control, Applying
    <2> QED  BY <1>1, <2>1, EmptyRange DEF RunInv, Control, Applying, OfPair
  <1>7. Control(p)'
    BY <1>1, <1>5, <1>6 DEF Control, Working, Applying, OfJob, OfPair
  <1>8. Ensured(p)' /\ KeepsCounters
    BY <1>1, <1>2, <1>5 DEF Ensured, KeepsCounters, derived
  <1> QED  BY <1>8, <1>3, <1>4, <1>7, RunStep

\* A step that takes a process to the next statement for its job.
LEMMA DeriveStep ==
  ASSUME RunInv, Types', NEW p \in Procs, NEW stage, Deriving(p, stage), NEW next, Goto(p, next),
         (stage \in OfJob /\ next \in OfJob) \/ (stage \in OfPair /\ next \in OfPair),
         UNCHANGED <<runnerVars, derive, pairs>>, Ensured(p)', KeepsCounters
  PROVE  RunInv'
  <1>1. \A q \in Procs \ {p} : /\ at'[q] = at[q] /\ batch'[q] = batch[q] /\ derive'[q] = derive[q]
                               /\ pairs'[q] = pairs[q] /\ (q \in running' <=> q \in running)
    BY DEF RunInv, Types, runnerVars, Goto
  <1>2. at'[p] = next /\ batch' = batch /\ pairs' = pairs /\ running' = running /\ derive' = derive
    BY DEF RunInv, Types, runnerVars, Goto
  <1>3. p \in running /\ batch[p] = <<>> /\ derive[p] # <<>> /\ (stage \in OfPair <=> pairs[p] # <<>>)
    BY DEF RunInv, Control, Deriving
  <1>4. Control(p)'
    BY <1>2, <1>3 DEF Control, Working, Applying, OfJob, OfPair
  <1> QED  BY <1>1, <1>4, RunStep

LEMMA DeriveZonesRun == ASSUME RunInv, NEW p \in Procs, DeriveZones(p) PROVE RunInv'
  <1>1. PICK j \in Jobs : j = Job(p)
    BY DeriveFacts DEF DeriveZones
  <1>2. active' \in [Jobs -> SUBSET Zones]
    BY <1>1 DEF DeriveZones, RunInv, Types
  <1>3. Types'
    BY <1>2 DEF RunInv, Types, DeriveZones, Goto, OfJob, runnerVars, facts
  <1>4. Ensured(p)' /\ KeepsCounters
    BY DEF Ensured, KeepsCounters, DeriveZones, Goto, RunInv, Types, derived
  <1> QED  BY <1>4, <1>3, DeriveStep DEF DeriveZones, OfJob

LEMMA DerivePairsRun == ASSUME RunInv, NEW p \in Procs, DerivePairs(p) PROVE RunInv'
  <1>1. PICK j \in Jobs : j = Job(p)
    BY DeriveFacts DEF DerivePairs
  <1>2. coactive' \in [Jobs -> SUBSET Pairs]
    BY <1>1 DEF DerivePairs, RunInv, Types
  <1>3. Types'
    BY <1>2 DEF RunInv, Types, DerivePairs, Goto, OfJob, runnerVars, facts
  <1>4. Ensured(p)' /\ KeepsCounters
    BY DEF Ensured, KeepsCounters, DerivePairs, Goto, RunInv, Types, derived
  <1> QED  BY <1>4, <1>3, DeriveStep DEF DerivePairs, OfJob

LEMMA InferOutcomeRun == ASSUME RunInv, NEW p \in Procs, InferOutcome(p) PROVE RunInv'
  <1>1. outcome' \in [Procs -> Outcomes]
    BY DEF InferOutcome, Infer, Outcomes, RunInv, Types
  <1>2. Types'
    BY <1>1 DEF RunInv, Types, InferOutcome, Goto, OfJob, runnerVars, facts, derived
  <1>3. Ensured(p)' /\ KeepsCounters
    BY DEF Ensured, KeepsCounters, InferOutcome, Goto, RunInv, Types, derived
  <1> QED  BY <1>3, <1>2, DeriveStep DEF InferOutcome, OfJob

\* A process that has these pairs of its job left.
LEMMA WithPairsStep ==
  ASSUME RunInv, NEW p \in Procs, NEW stage \in OfJob \cup OfPair, Deriving(p, stage),
         NEW left \in Seq(Pairs), WithPairs(p, left), UNCHANGED runnerVars, Types', KeepsCounters
  PROVE  RunInv'
  <1> DEFINE next == IF left # <<>> THEN "ensure" ELSE IF Len(derive[p]) = 1 THEN "job" ELSE "zones"
             jobs == IF left = <<>> THEN Tail(derive[p]) ELSE derive[p]
  <1>1. p \in running /\ batch[p] = <<>> /\ derive[p] # <<>> /\ (Len(derive[p]) = 1 <=> Tail(derive[p]) = <<>>)
    BY DeriveFacts DEF Deriving
  <1>2. /\ pairs' = [pairs EXCEPT ![p] = left] /\ derive' = [derive EXCEPT ![p] = jobs]
        /\ at' = [at EXCEPT ![p] = next]
    BY DEF WithPairs, Goto, RunInv, Types
  <1>3. /\ next \in {"ensure", "job", "zones"} /\ (next = "ensure" <=> left # <<>>)
        /\ next = "job" => jobs = <<>>
        /\ next # "job" => jobs # <<>>
    BY <1>1
  <1> HIDE DEF next, jobs
  <1>4. \A q \in Procs \ {p} : /\ at'[q] = at[q] /\ batch'[q] = batch[q] /\ derive'[q] = derive[q]
                               /\ pairs'[q] = pairs[q] /\ (q \in running' <=> q \in running)
    BY <1>2 DEF RunInv, Types, runnerVars
  <1>5. at'[p] = next /\ pairs'[p] = left /\ derive'[p] = jobs /\ batch'[p] = batch[p] /\ running' = running
    BY <1>2 DEF RunInv, Types, runnerVars
  <1>6. Control(p)'
    BY <1>1, <1>3, <1>5 DEF Control, Applying, OfJob, OfPair
  <1>7. Ensured(p)'
    BY <1>3, <1>5 DEF Ensured
  <1> QED  BY <1>7, <1>4, <1>6, RunStep

\* What it has left is well formed.
LEMMA WithPairsTypes ==
  ASSUME RunInv, NEW p \in Procs, NEW stage, Deriving(p, stage), NEW left \in Seq(Pairs), WithPairs(p, left)
  PROVE  /\ pairs' \in [Procs -> Seq(Pairs)] /\ derive' \in [Procs -> Seq(Jobs)]
         /\ at' \in [Procs -> Applying \cup OfJob \cup OfPair]
  <1>1. Tail(derive[p]) \in Seq(Jobs)
    BY DeriveFacts
  <1> QED  BY <1>1 DEF RunInv, Types, WithPairs, Goto, Applying, OfJob, OfPair

LEMMA ListPairsRun == ASSUME RunInv, NEW p \in Procs, ListPairs(p) PROVE RunInv'
  <1>1. PICK j \in Jobs : j = Job(p)
    BY DeriveFacts DEF ListPairs
  <1>2. coactive[j] \subseteq Pairs /\ IsFiniteSet(coactive[j])
    BY PairsFinite, FS_Subset DEF RunInv, Types
  <1>3. PICK left \in Seq(Pairs) : left = SetToSeq(coactive[j])
    BY <1>2, ListedInOrder, SeqMonotonic
  <1>4. WithPairs(p, left)
    BY <1>1, <1>3 DEF ListPairs
  <1>5. Types'
    BY <1>4, WithPairsTypes DEF RunInv, Types, ListPairs, runnerVars, facts, derived
  <1>6. KeepsCounters
    BY DEF KeepsCounters, ListPairs, derived
  <1> QED  BY <1>6, <1>4, <1>5, WithPairsStep DEF ListPairs, OfJob

LEMMA EnsureAssociationRun == ASSUME RunInv, NEW p \in Procs, EnsureAssociation(p) PROVE RunInv'
  <1>1. PICK pair \in Pairs : pair = Pair(p)
    BY PairFacts DEF EnsureAssociation, OfPair
  <1>2. association' \in [Pairs -> Counters \cup {None}]
    <2>1. [support |-> 0, positive |-> 0, negative |-> 0, weight |-> 0] \in Counters
      BY DEF Counters
    <2> QED  BY <1>1, <2>1 DEF RunInv, Types, EnsureAssociation
  <1>3. Types'
    BY <1>2 DEF RunInv, Types, EnsureAssociation, Goto, OfPair, runnerVars, facts
  <1>4. (\E q \in Pairs : q = Pair(p)' /\ association'[q] # None) /\ KeepsCounters
    <2>1. association'[pair] # None /\ KeepsCounters
      <3>1. [support |-> 0, positive |-> 0, negative |-> 0, weight |-> 0] # None
        BY NoneIsNew DEF Counters
      <3> QED  BY <1>1, <3>1 DEF EnsureAssociation, RunInv, Types, KeepsCounters
    <2>2. pair = Pair(p)'
      BY <1>1 DEF EnsureAssociation, Pair
    <2> QED  BY <2>1, <2>2
  <1>5. Ensured(p)' /\ KeepsCounters
    BY <1>4 DEF Ensured
  <1> QED  BY <1>5, <1>3, DeriveStep DEF EnsureAssociation, OfPair

LEMMA ReadOldRun == ASSUME RunInv, NEW p \in Procs, ReadOld(p) PROVE RunInv'
  <1>1. PICK pair \in Pairs, j \in Jobs : pair = Pair(p) /\ j = Job(p)
    BY PairFacts, DeriveFacts DEF ReadOld, OfPair
  <1>2. old' \in [Procs -> Outcomes \cup {None}]
    BY <1>1 DEF RunInv, Types, ReadOld
  <1>3. Types'
    BY <1>2 DEF RunInv, Types, ReadOld, Goto, OfPair, runnerVars, facts, derived
  <1>4. (\E q \in Pairs : q = Pair(p)' /\ association'[q] # None) /\ KeepsCounters
    <2>1. association[pair] # None
      BY <1>1 DEF RunInv, Ensured, ReadOld, Deriving
    <2>2. pair = Pair(p)' /\ association' = association
      BY <1>1 DEF ReadOld, Pair, derived
    <2> QED  BY <2>1, <2>2 DEF KeepsCounters
  <1>5. Ensured(p)' /\ KeepsCounters
    BY <1>4 DEF Ensured
  <1> QED  BY <1>5, <1>3, DeriveStep DEF ReadOld, OfPair

LEMMA ObserveRun == ASSUME RunInv, NEW p \in Procs, Observe(p) PROVE RunInv'
  <1>1. PICK pair \in Pairs, j \in Jobs : pair = Pair(p) /\ j = Job(p)
    BY PairFacts, DeriveFacts DEF Observe, OfPair
  <1>2. observation' \in [Pairs -> [Jobs -> Outcomes \cup {None}]]
    BY <1>1 DEF RunInv, Types, Observe
  <1>3. Types'
    BY <1>2 DEF RunInv, Types, Observe, Goto, OfPair, runnerVars, facts
  <1>4. (\E q \in Pairs : q = Pair(p)' /\ association'[q] # None) /\ KeepsCounters
    <2>1. association[pair] # None
      BY <1>1 DEF RunInv, Ensured, Observe, Deriving
    <2>2. pair = Pair(p)' /\ association' = association
      BY <1>1 DEF Observe, Pair, derived
    <2> QED  BY <2>1, <2>2 DEF KeepsCounters
  <1>5. Ensured(p)' /\ KeepsCounters
    BY <1>4 DEF Ensured
  <1> QED  BY <1>5, <1>3, DeriveStep DEF Observe, OfPair

LEMMA CountRun == ASSUME RunInv, NEW p \in Procs, Count(p) PROVE RunInv'
  <1>1. PICK pair \in Pairs : pair = Pair(p) /\ association[pair] # None
    BY DEF RunInv, Ensured, Count, Deriving
  <1>2. /\ association' = [association EXCEPT ![pair] =
                            IF old[p] = outcome[p] THEN @ ELSE Counted(@, old[p], outcome[p])]
        /\ Deriving(p, "count") /\ WithPairs(p, Tail(pairs[p]))
        /\ UNCHANGED <<runnerVars, facts, active, coactive, observation, outcome, old>>
    BY <1>1 DEF Count
  <1>3. Tail(pairs[p]) \in Seq(Pairs)
    BY <1>2, PairFacts DEF OfPair
  <1>4. association' \in [Pairs -> Counters \cup {None}] /\ KeepsCounters
    <2>1. association[pair] \in Counters
      BY <1>1 DEF RunInv, Types
    <2>2. Counted(association[pair], old[p], outcome[p]) \in Counters
      BY <2>1 DEF Counted, Counters, Is
    <2>3. Counted(association[pair], old[p], outcome[p]) # None
      BY <2>2, NoneIsNew
    <2> QED  BY <1>1, <1>2, <2>2, <2>3 DEF RunInv, Types, KeepsCounters
  <1>5. Types'
    BY <1>2, <1>3, <1>4, WithPairsTypes DEF RunInv, Types, runnerVars, facts
  <1> QED  BY <1>2, <1>3, <1>4, <1>5, WithPairsStep DEF OfPair

LEMMA ReturnRun == ASSUME RunInv, NEW p \in Procs, Return(p) PROVE RunInv'
  <1>1. /\ batch[p] = <<>> /\ derive[p] = <<>> /\ running' = running \ {p}
        /\ UNCHANGED <<recorded, normalized, batch, aborts, facts, derived, local>>
    BY DEF Return, EndRun
  <1>2. Types'
    BY <1>1 DEF RunInv, Types, facts, derived, local
  <1>3. Control(p)'
    BY <1>1 DEF RunInv, Control, Working, Applying, local
  <1>4. \A q \in Procs \ {p} : /\ at'[q] = at[q] /\ batch'[q] = batch[q] /\ derive'[q] = derive[q]
                               /\ pairs'[q] = pairs[q] /\ (q \in running' <=> q \in running)
    BY <1>1 DEF local
  <1>5. Ensured(p)' /\ KeepsCounters
    BY <1>1 DEF Ensured, KeepsCounters, RunInv, Pair, derived, local
  <1> QED  BY <1>5, <1>2, <1>3, <1>4, RunStep

LEMMA AbortRuns == ASSUME RunInv, NEW p \in Procs, Abort(p) PROVE RunInv'
  <1>1. /\ aborts' \in 0 .. MaxAborts /\ running' = running \ {p}
        /\ batch' = [batch EXCEPT ![p] = <<>>] /\ at' = [at EXCEPT ![p] = "job"]
        /\ derive' = [derive EXCEPT ![p] = <<>>] /\ pairs' = [pairs EXCEPT ![p] = <<>>]
        /\ UNCHANGED <<recorded, normalized, facts, derived, outcome, old>>
    BY RunnerAssumption DEF Abort, AbortRun, Goto, RunInv, Types
  <1>2. <<>> \in Seq(recorded) /\ <<>> \in Seq(Jobs) /\ <<>> \in Seq(Pairs)
    BY EmptySeq
  <1>3. Types'
    BY <1>1, <1>2 DEF RunInv, Types, facts, derived, Applying
  <1>4. Control(p)'
    BY <1>1 DEF RunInv, Types, Control, Applying, OfJob, OfPair
  <1>5. \A q \in Procs \ {p} : /\ at'[q] = at[q] /\ batch'[q] = batch[q] /\ derive'[q] = derive[q]
                               /\ pairs'[q] = pairs[q] /\ (q \in running' <=> q \in running)
    BY <1>1 DEF RunInv, Types
  <1>6. Ensured(p)' /\ KeepsCounters
    BY <1>1 DEF Ensured, KeepsCounters, RunInv, Types, derived
  <1> QED  BY <1>6, <1>3, <1>4, <1>5, RunStep

LEMMA InitRun == Init => RunInv
  <1> SUFFICES ASSUME Init PROVE RunInv
    OBVIOUS
  <1>1. Types
    <2>1. <<>> \in Seq(recorded) /\ <<>> \in Seq(Jobs) /\ <<>> \in Seq(Pairs)
      BY EmptySeq
    <2> QED  BY <2>1, RunnerAssumption DEF Init, RunnerInit, Types, Applying, Outcomes
  <1>2. \A p \in Procs : Control(p) /\ Ensured(p)
    BY DEF Init, RunnerInit, Control, Ensured, Applying, OfJob, OfPair
  <1> QED  BY <1>1, <1>2 DEF RunInv

LEMMA NextRun == RunInv /\ [Next]_vars => RunInv'
  <1> SUFFICES ASSUME RunInv, [Next]_vars PROVE RunInv'
    OBVIOUS
  <1>1. CASE UNCHANGED vars
    BY <1>1 DEF vars, runnerVars, facts, derived, local, RunInv, Types, Control, Ensured, Pair, Working, Fact, Current
  <1>2. ASSUME NEW e \in Events, Record(e) PROVE RunInv'
    BY <1>2, RecordRun
  <1>3. ASSUME NEW p \in Procs, Start(p) \/ Apply(p) \/ Derive(p) \/ Return(p) \/ Abort(p) PROVE RunInv'
    <2>1. CASE Apply(p)
      BY <2>1, RecordJobRun, RecordCommandRun, RecordDeploymentRun, RecordPathsRun, MarkRun DEF Apply
    <2>2. CASE DeriveZones(p) \/ DerivePairs(p) \/ InferOutcome(p) \/ ListPairs(p)
      BY <2>2, DeriveZonesRun, DerivePairsRun, InferOutcomeRun, ListPairsRun
    <2>3. CASE EnsureAssociation(p) \/ ReadOld(p) \/ Observe(p) \/ Count(p)
      BY <2>3, EnsureAssociationRun, ReadOldRun, ObserveRun, CountRun
    <2> QED  BY <1>3, <2>1, <2>2, <2>3, StartRun, ReturnRun, AbortRuns DEF Derive
  <1> QED  BY <1>1, <1>2, <1>3 DEF Next

LEMMA RunInvariance == Spec => []RunInv
  BY InitRun, NextRun, PTL DEF Spec

\* Every row holds values of its columns and names events, jobs and zones that exist.
THEOREM AssociationTypes == Spec => []TypeOK
  <1>1. RunInv => TypeOK
    <2> SUFFICES ASSUME RunInv PROVE TypeOK
      OBVIOUS
    <2>1. RunnerTypeOK
      <3>1. \A p \in Procs : Range(batch[p]) \subseteq recorded
        BY RangeOfSeq DEF RunInv, Types
      <3> QED  BY <3>1 DEF RunInv, Types, RunnerTypeOK
    <2>2. \A p \in Procs : Range(derive[p]) \subseteq Jobs /\ Range(pairs[p]) \subseteq Pairs
      BY RangeOfSeq DEF RunInv, Types
    <2>3. /\ \A j \in Jobs, c \in Commands : commands[j][c] \in CommandStatuses \cup {None}
          /\ \A j \in Jobs, c \in Deploying : deployments[j][c] \in CommandStatuses \cup {None}
          /\ \A pair \in Pairs, j \in Jobs : observation[pair][j] \in Outcomes \cup {None}
      BY DEF RunInv, Types
    <2> QED  BY <2>1, <2>2, <2>3 DEF RunInv, Types, TypeOK, Statements, Applying, OfJob, OfPair
  <1> QED  BY <1>1, RunInvariance, PTL
-----------------------------------------------------------------------------
(* The counters of a pair.                                                 *)

\* The weight that recommendations rank by stays the balance of the counters in its row:
\* only inserts of a row and updates of the whole row change it.
THEOREM WeightsAreBalances == Spec => []WeightIsBalance
  <1>1. Init => WeightIsBalance
    BY DEF Init, WeightIsBalance
  <1>2. ASSUME RunInv, WeightIsBalance, [Next]_vars PROVE WeightIsBalance'
    <2>1. ASSUME UNCHANGED association PROVE WeightIsBalance'
      BY <1>2, <2>1 DEF WeightIsBalance
    <2>2. ASSUME NEW p \in Procs, EnsureAssociation(p) PROVE WeightIsBalance'
      <3>1. PICK pair \in Pairs : pair = Pair(p)
        BY <1>2, <2>2, PairFacts DEF EnsureAssociation, OfPair
      <3> QED  BY <1>2, <2>2, <3>1 DEF EnsureAssociation, WeightIsBalance, RunInv, Types
    <2>3. ASSUME NEW p \in Procs, Count(p) PROVE WeightIsBalance'
      <3>1. PICK pair \in Pairs : pair = Pair(p) /\ association[pair] # None
        BY <1>2, <2>3 DEF RunInv, Ensured, Count, Deriving
      <3>2. association[pair] \in Counters
        BY <1>2, <3>1 DEF RunInv, Types
      <3>3. LET counters == Counted(association[pair], old[p], outcome[p])
            IN counters.weight = counters.support + counters.positive - counters.negative
        BY <3>2 DEF Counted, Counters, Is
      <3>4. association' = [association EXCEPT ![pair] =
                            IF old[p] = outcome[p] THEN @ ELSE Counted(@, old[p], outcome[p])]
        BY <2>3, <3>1 DEF Count
      <3> QED  BY <1>2, <3>3, <3>4 DEF WeightIsBalance, RunInv, Types
    <2>4. UNCHANGED association \/ \E p \in Procs : EnsureAssociation(p) \/ Count(p)
      BY <1>2 DEF Next, vars, Record, Start, Apply, Derive, Return, Abort, RecordJob, RecordCommand,
        RecordDeployment, RecordPaths, Mark, DeriveZones, DerivePairs, InferOutcome, ListPairs,
        ReadOld, Observe, derived
    <2> QED  BY <2>1, <2>2, <2>3, <2>4
  <1> QED  BY <1>1, <1>2, RunInvariance, PTL DEF Spec

\* The processes that have made the first observation of a job and not yet counted it.
Fresh(pair) == {p \in Counting(pair) : old[p] = None}

CountedButFor(pair) ==
  Cardinality(Observed(pair)) <= Support(pair) + Cardinality(Fresh(pair)) + aborts

\* An observation that a process read is still there: rows are replaced, never deleted.
Remembers(p) ==
  at[p] \in {"observe", "count"} /\ old[p] # None =>
    \E pair \in Pairs, j \in Jobs : pair = Pair(p) /\ j = Job(p) /\ observation[pair][j] # None

CountedInv == (\A pair \in Pairs : CountedButFor(pair)) /\ \A p \in Procs : Remembers(p)

LEMMA CountedFacts ==
  ASSUME RunInv, NEW pair \in Pairs
  PROVE  /\ IsFiniteSet(Observed(pair)) /\ Cardinality(Observed(pair)) \in Nat
         /\ IsFiniteSet(Counting(pair)) /\ Cardinality(Counting(pair)) \in Nat
         /\ IsFiniteSet(Fresh(pair)) /\ Cardinality(Fresh(pair)) \in Nat
         /\ Cardinality(Fresh(pair)) <= Cardinality(Counting(pair))
         /\ Support(pair) \in Nat /\ aborts \in Nat
  <1>1. Observed(pair) \subseteq Jobs /\ Counting(pair) \subseteq Procs /\ Fresh(pair) \subseteq Counting(pair)
    BY DEF Observed, Counting, Fresh
  <1>2. IsFiniteSet(Observed(pair)) /\ IsFiniteSet(Counting(pair))
    BY <1>1, AssociationAssumption, FS_Subset
  <1>3. Support(pair) \in Nat
    BY DEF Support, RunInv, Types, Counters
  <1> QED  BY <1>1, <1>2, <1>3, FS_Subset, FS_CardinalityType, RunnerAssumption DEF RunInv, Types

\* A step that neither observes nor counts.
LEMMA CountedStep ==
  ASSUME RunInv, CountedInv, UNCHANGED <<observation, aborts>>,
         \A pair \in Pairs : Support(pair)' = Support(pair),
         NEW p \in Procs, at[p] # "count", at'[p] # "count", Remembers(p)',
         \A q \in Procs \ {p} : /\ at'[q] = at[q] /\ derive'[q] = derive[q]
                                /\ pairs'[q] = pairs[q] /\ old'[q] = old[q]
  PROVE  CountedInv'
  <1>1. ASSUME NEW pair \in Pairs PROVE CountedButFor(pair)'
    <2>1. Observed(pair)' = Observed(pair) /\ Fresh(pair)' = Fresh(pair)
      BY DEF Observed, Fresh, Counting, Pair
    <2> QED  BY <2>1 DEF CountedInv, CountedButFor
  <1>2. ASSUME NEW q \in Procs PROVE Remembers(q)'
    BY DEF CountedInv, Remembers, Pair, Job
  <1> QED  BY <1>1, <1>2 DEF CountedInv

LEMMA CountedUnchanged ==
  ASSUME CountedInv, UNCHANGED <<derived, local, aborts>>
  PROVE  CountedInv'
  BY DEF CountedInv, CountedButFor, Observed, Support, Fresh, Counting, Remembers, Pair, Job, derived, local

LEMMA ApplyCounted == ASSUME RunInv, CountedInv, NEW p \in Procs, Apply(p) PROVE CountedInv'
  <1>1. PICK next \in Applying \cup OfJob : at' = [at EXCEPT ![p] = next]
    BY DEF Apply, RecordJob, RecordCommand, RecordDeployment, RecordPaths, Mark, Goto, Applying, OfJob
  <1>2. at[p] \in Applying
    BY DEF Apply, RecordJob, RecordCommand, RecordDeployment, RecordPaths, Mark, Recording, Applying
  <1>3. /\ UNCHANGED <<derived, aborts, pairs, old>>
        /\ \A q \in Procs \ {p} : derive'[q] = derive[q]
    BY DEF Apply, RecordJob, RecordCommand, RecordDeployment, RecordPaths, Mark, MarkNormalized,
      runnerVars, RunInv, Types
  <1>4. at'[p] = next /\ \A q \in Procs \ {p} : at'[q] = at[q]
    BY <1>1 DEF RunInv, Types
  <1> QED
    BY <1>2, <1>3, <1>4, CountedStep DEF Remembers, Applying, OfJob, Support, derived

LEMMA DeriveCounted ==
  ASSUME RunInv, CountedInv, NEW p \in Procs,
         DeriveZones(p) \/ DerivePairs(p) \/ InferOutcome(p) \/ ListPairs(p)
  PROVE  CountedInv'
  <1>1. PICK next \in OfJob \cup {"ensure", "job"} : at' = [at EXCEPT ![p] = next]
    BY DEF DeriveZones, DerivePairs, InferOutcome, ListPairs, WithPairs, Goto, OfJob
  <1>2. at[p] \in OfJob
    BY DEF DeriveZones, DerivePairs, InferOutcome, ListPairs, Deriving, OfJob
  <1>3. /\ UNCHANGED <<observation, association, aborts, old>>
        /\ \A q \in Procs \ {p} : derive'[q] = derive[q] /\ pairs'[q] = pairs[q]
    BY DEF DeriveZones, DerivePairs, InferOutcome, ListPairs, WithPairs, runnerVars, derived, RunInv, Types
  <1>4. at'[p] = next /\ \A q \in Procs \ {p} : at'[q] = at[q]
    BY <1>1 DEF RunInv, Types
  <1> QED
    BY <1>2, <1>3, <1>4, CountedStep DEF Remembers, OfJob, Support

LEMMA EnsureAssociationCounted ==
  ASSUME RunInv, CountedInv, NEW p \in Procs, EnsureAssociation(p) PROVE CountedInv'
  <1>1. PICK pair \in Pairs : pair = Pair(p)
    BY PairFacts DEF EnsureAssociation, OfPair
  <1>2. /\ at[p] = "ensure" /\ at' = [at EXCEPT ![p] = "old"]
        /\ UNCHANGED <<observation, aborts, derive, pairs, old>>
    BY DEF EnsureAssociation, Deriving, Goto, runnerVars
  <1>3. \A x \in Pairs : Support(x)' = Support(x)
    BY <1>1 DEF EnsureAssociation, Support, RunInv, Types
  <1> QED  BY <1>2, <1>3, CountedStep DEF Remembers, RunInv, Types

LEMMA ReadOldCounted == ASSUME RunInv, CountedInv, NEW p \in Procs, ReadOld(p) PROVE CountedInv'
  <1>1. PICK pair \in Pairs, j \in Jobs : pair = Pair(p) /\ j = Job(p)
    BY PairFacts, DeriveFacts DEF ReadOld, OfPair
  <1>2. /\ at[p] = "old" /\ at' = [at EXCEPT ![p] = "observe"]
        /\ old' = [old EXCEPT ![p] = observation[pair][j]]
        /\ UNCHANGED <<derived, aborts, derive, pairs>>
    BY <1>1 DEF ReadOld, Deriving, Goto, runnerVars
  <1>3. Remembers(p)'
    <2>1. pair = Pair(p)' /\ j = Job(p)' /\ observation' = observation
      BY <1>1, <1>2 DEF Pair, Job, derived
    <2>2. old'[p] = observation[pair][j]
      BY <1>2 DEF RunInv, Types
    <2> QED  BY <2>1, <2>2 DEF Remembers
  <1> QED  BY <1>2, <1>3, CountedStep DEF Support, derived, RunInv, Types
LEMMA ObserveCounted == ASSUME RunInv, CountedInv, NEW p \in Procs, Observe(p) PROVE CountedInv'
  <1>1. PICK pair \in Pairs, j \in Jobs : pair = Pair(p) /\ j = Job(p)
    BY PairFacts, DeriveFacts DEF Observe, OfPair
  <1>2. /\ at[p] = "observe" /\ at' = [at EXCEPT ![p] = "count"]
        /\ observation' = [observation EXCEPT ![pair][j] = outcome[p]]
        /\ UNCHANGED <<association, aborts, derive, pairs, old>>
    BY <1>1 DEF Observe, Deriving, Goto, runnerVars
  <1>3. outcome[p] # None
    BY NoneIsNew DEF RunInv, Types
  <1>4. ASSUME NEW x \in Pairs PROVE CountedButFor(x)'
    <2>1. Support(x)' = Support(x) /\ aborts' = aborts
      BY <1>2 DEF Support
    <2>2. CASE x # pair
      <3>1. Observed(x)' = Observed(x) /\ Fresh(x)' = Fresh(x)
        BY <1>1, <1>2, <2>2 DEF Observed, Fresh, Counting, Pair, RunInv, Types
      <3> QED  BY <2>1, <3>1 DEF CountedInv, CountedButFor
    <2>3. CASE x = pair
      <3>1. Observed(x)' = Observed(x) \cup {j}
        BY <1>2, <1>3, <2>3 DEF Observed, RunInv, Types
      <3>2. CASE old[p] = None
        <4>1. p \notin Fresh(x) /\ Fresh(x)' = Fresh(x) \cup {p}
          BY <1>1, <1>2, <2>3, <3>2 DEF Fresh, Counting, Pair, RunInv, Types
        <4>2. Cardinality(Fresh(x) \cup {p}) = Cardinality(Fresh(x)) + 1
          BY <4>1, CountedFacts, FS_AddElement
        <4>3. Cardinality(Observed(x) \cup {j}) <= Cardinality(Observed(x)) + 1
          <5>1. IsFiniteSet(Observed(x)) /\ Cardinality(Observed(x)) \in Nat
            BY CountedFacts
          <5>2. Cardinality(Observed(x) \cup {j}) =
                  IF j \in Observed(x) THEN Cardinality(Observed(x)) ELSE Cardinality(Observed(x)) + 1
            BY <5>1, FS_AddElement
          <5> QED  BY <5>1, <5>2
        <4>4. /\ Cardinality(Observed(x) \cup {j}) \in Nat
          BY CountedFacts, FS_AddElement, FS_CardinalityType
        <4>5. Cardinality(Observed(x) \cup {j}) <= Support(x) + Cardinality(Fresh(x) \cup {p}) + aborts
          BY <4>2, <4>3, <4>4, CountedFacts DEF CountedInv, CountedButFor
        <4> QED  BY <2>1, <3>1, <4>1, <4>5 DEF CountedButFor
      <3>3. CASE old[p] # None
        <4>1. observation[pair][j] # None
          BY <1>1, <1>2, <3>3 DEF CountedInv, Remembers
        <4>2. Observed(x)' = Observed(x)
          BY <2>3, <3>1, <4>1 DEF Observed
        <4>3. Fresh(x)' = Fresh(x)
          BY <1>1, <1>2, <2>3, <3>3 DEF Fresh, Counting, Pair, RunInv, Types
        <4> QED  BY <2>1, <4>2, <4>3 DEF CountedInv, CountedButFor
      <3> QED  BY <3>2, <3>3
    <2> QED  BY <2>2, <2>3
  <1>5. ASSUME NEW q \in Procs PROVE Remembers(q)'
    <2> SUFFICES ASSUME at'[q] \in {"observe", "count"}, old'[q] # None
                 PROVE  \E x \in Pairs, k \in Jobs : x = Pair(q)' /\ k = Job(q)' /\ observation'[x][k] # None
      BY DEF Remembers
    <2>1. at[q] \in {"observe", "count"} /\ old[q] # None
      BY <1>2 DEF RunInv, Types
    <2>2. PICK x \in Pairs, k \in Jobs : x = Pair(q) /\ k = Job(q) /\ observation[x][k] # None
      BY <2>1 DEF CountedInv, Remembers
    <2>3. observation'[x][k] # None
      BY <1>2, <1>3, <2>2 DEF RunInv, Types
    <2> QED  BY <1>2, <2>2, <2>3 DEF Pair, Job
  <1> QED  BY <1>4, <1>5 DEF CountedInv

LEMMA CountCounted == ASSUME RunInv, CountedInv, NEW p \in Procs, Count(p) PROVE CountedInv'
  <1>1. PICK pair \in Pairs : pair = Pair(p) /\ association[pair] # None
    BY DEF RunInv, Ensured, Count, Deriving
  <1>2. PICK next \in {"ensure", "job", "zones"} : at' = [at EXCEPT ![p] = next]
    BY DEF Count, WithPairs, Goto
  <1>3. /\ at[p] = "count" /\ UNCHANGED <<observation, aborts, old>>
        /\ \A q \in Procs \ {p} : derive'[q] = derive[q] /\ pairs'[q] = pairs[q]
        /\ association' = [association EXCEPT ![pair] =
                             IF old[p] = outcome[p] THEN @ ELSE Counted(@, old[p], outcome[p])]
    BY <1>1 DEF Count, WithPairs, Deriving, runnerVars, RunInv, Types
  <1>4. at'[p] = next /\ \A q \in Procs \ {p} : at'[q] = at[q]
    BY <1>2 DEF RunInv, Types
  <1>5. ASSUME NEW x \in Pairs PROVE CountedButFor(x)'
    <2>1. Observed(x)' = Observed(x) /\ aborts' = aborts
      BY <1>3 DEF Observed
    <2>2. Fresh(x)' = Fresh(x) \ {p}
      BY <1>3, <1>4 DEF Fresh, Counting, Pair
    <2>3. CASE x # pair
      <3>1. p \notin Fresh(x)
        BY <1>1, <2>3 DEF Fresh, Counting
      <3>2. Support(x)' = Support(x) /\ Fresh(x)' = Fresh(x)
        BY <1>3, <2>2, <2>3, <3>1 DEF Support, RunInv, Types
      <3> QED  BY <2>1, <3>2 DEF CountedInv, CountedButFor
    <2>4. CASE x = pair
      <3>1. association[pair] \in Counters
        BY <1>1 DEF RunInv, Types
      <3>2. Counted(association[pair], old[p], outcome[p]) \in Counters
        BY <3>1 DEF Counted, Counters, Is
      <3>3. /\ association'[pair] # None
            /\ association'[pair].support = association[pair].support + Is(old[p], None)
        <4>1. CASE old[p] = outcome[p]
          <5>1. old[p] # None
            BY <4>1, NoneIsNew DEF RunInv, Types
          <5> QED  BY <1>1, <1>3, <3>1, <4>1, <5>1 DEF RunInv, Types, Is, Counters
        <4>2. CASE old[p] # outcome[p]
          <5>1. association'[pair] = Counted(association[pair], old[p], outcome[p])
            BY <1>3, <4>2 DEF RunInv, Types
          <5> QED  BY <3>2, <5>1, NoneIsNew DEF Counted
        <4> QED  BY <4>1, <4>2
      <3>4. Support(x)' = Support(x) + Is(old[p], None)
        BY <1>1, <2>4, <3>3 DEF Support
      <3>5. CASE old[p] = None
        <4>1. p \in Fresh(x)
          BY <1>1, <1>3, <2>4, <3>5 DEF Fresh, Counting
        <4>2. Cardinality(Fresh(x) \ {p}) = Cardinality(Fresh(x)) - 1
          BY <4>1, CountedFacts, FS_RemoveElement
        <4>3. Support(x)' = Support(x) + 1
          BY <3>4, <3>5 DEF Is
        <4>4. Cardinality(Observed(x)) <= (Support(x) + 1) + Cardinality(Fresh(x) \ {p}) + aborts
          BY <4>2, CountedFacts DEF CountedInv, CountedButFor
        <4> QED  BY <2>1, <2>2, <4>3, <4>4 DEF CountedButFor
      <3>6. CASE old[p] # None
        <4>1. p \notin Fresh(x)
          BY <3>6 DEF Fresh
        <4>2. Support(x)' = Support(x) /\ Fresh(x)' = Fresh(x)
          BY <2>2, <3>4, <3>6, <4>1, CountedFacts DEF Is
        <4> QED  BY <2>1, <4>2 DEF CountedInv, CountedButFor
      <3> QED  BY <3>5, <3>6
    <2> QED  BY <2>3, <2>4
  <1>6. ASSUME NEW q \in Procs PROVE Remembers(q)'
    BY <1>3, <1>4 DEF CountedInv, Remembers, Pair, Job
  <1> QED  BY <1>5, <1>6 DEF CountedInv

LEMMA AbortCounted == ASSUME RunInv, CountedInv, NEW p \in Procs, Abort(p) PROVE CountedInv'
  <1>1. /\ aborts' = aborts + 1 /\ at' = [at EXCEPT ![p] = "job"]
        /\ UNCHANGED <<observation, association, old>>
        /\ \A q \in Procs \ {p} : derive'[q] = derive[q] /\ pairs'[q] = pairs[q]
    BY DEF Abort, AbortRun, Goto, derived, RunInv, Types
  <1>2. at'[p] = "job" /\ \A q \in Procs \ {p} : at'[q] = at[q]
    BY <1>1 DEF RunInv, Types
  <1>3. ASSUME NEW x \in Pairs PROVE CountedButFor(x)'
    <2>1. Observed(x)' = Observed(x) /\ Support(x)' = Support(x) /\ Fresh(x)' = Fresh(x) \ {p}
      BY <1>1, <1>2 DEF Observed, Support, Fresh, Counting, Pair
    <2>2. Cardinality(Fresh(x)) <= Cardinality(Fresh(x) \ {p}) + 1 /\ Cardinality(Fresh(x) \ {p}) \in Nat
      <3>1. IsFiniteSet(Fresh(x)) /\ Cardinality(Fresh(x)) \in Nat
        BY CountedFacts
      <3>2. Cardinality(Fresh(x) \ {p}) =
              IF p \in Fresh(x) THEN Cardinality(Fresh(x)) - 1 ELSE Cardinality(Fresh(x))
        BY <3>1, FS_RemoveElement
      <3>3. Cardinality(Fresh(x) \ {p}) \in Nat
        BY <3>1, FS_RemoveElement, FS_CardinalityType
      <3> QED  BY <3>1, <3>2, <3>3
    <2>3. Cardinality(Observed(x)) <= Support(x) + Cardinality(Fresh(x) \ {p}) + (aborts + 1)
      BY <2>2, CountedFacts DEF CountedInv, CountedButFor
    <2> QED  BY <1>1, <2>1, <2>3 DEF CountedButFor
  <1>4. ASSUME NEW q \in Procs PROVE Remembers(q)'
    BY <1>1, <1>2 DEF CountedInv, Remembers, Pair, Job
  <1> QED  BY <1>3, <1>4 DEF CountedInv

LEMMA CountedInvariance == Spec => []CountedInv
  <1>1. ASSUME RunInv, Init PROVE CountedInv
    <2>1. ASSUME NEW pair \in Pairs PROVE CountedButFor(pair)
      <3>1. Observed(pair) = {} /\ Cardinality(Observed(pair)) = 0
        BY <1>1, FS_EmptySet DEF Init, Observed
      <3> QED  BY <1>1, <3>1, CountedFacts DEF CountedButFor
    <2> QED  BY <1>1, <2>1 DEF CountedInv, Remembers, Init
  <1>2. ASSUME RunInv, CountedInv, [Next]_vars PROVE CountedInv'
    <2>1. CASE UNCHANGED <<derived, local, aborts>>
      BY <1>2, <2>1, CountedUnchanged
    <2>2. ASSUME NEW p \in Procs, Apply(p) \/ Derive(p) \/ Abort(p) PROVE CountedInv'
      BY <1>2, <2>2, ApplyCounted, DeriveCounted, EnsureAssociationCounted, ReadOldCounted,
        ObserveCounted, CountCounted, AbortCounted DEF Derive
    <2>3. \/ UNCHANGED <<derived, local, aborts>>
          \/ \E p \in Procs : Apply(p) \/ Derive(p) \/ Abort(p)
      BY <1>2 DEF Next, vars, Record, RecordEvent, Start, ListEvents, Return, EndRun, derived, local, runnerVars
    <2> QED  BY <2>1, <2>2, <2>3
  <1> QED  BY <1>1, <1>2, RunInvariance, PTL DEF Spec

\* However runs interleave, an observation goes uncounted only where a run was cut off
\* between the two statements, and one such run loses at most one.
THEOREM UncountedAreCutOff == Spec => []UncountedNeedsAbort
  <1>1. ASSUME RunInv, CountedInv PROVE UncountedNeedsAbort
    <2> SUFFICES ASSUME NEW pair \in Pairs
                 PROVE  Cardinality(Observed(pair)) <= Support(pair) + Cardinality(Counting(pair)) + aborts
      BY DEF UncountedNeedsAbort
    <2> QED  BY <1>1, CountedFacts DEF CountedInv, CountedButFor
  <1> QED  BY <1>1, RunInvariance, CountedInvariance, PTL
-----------------------------------------------------------------------------
(* The statuses of commands.                                               *)

LEMMA SeverityType ==
  /\ Severity(None) = 0
  /\ \A status \in CommandStatuses : Severity(status) \in 1 .. 3
  /\ \A status \in CommandStatuses \cup {None} : Severity(status) \in 0 .. 3
  <1>1. None # "unknown" /\ None # "attempted" /\ None # "succeeded" /\ None # "failed"
    BY NoneIsNew DEF CommandStatuses
  <1>2. /\ Severity(None) = 0 /\ Severity("unknown") = 1 /\ Severity("attempted") = 1
        /\ Severity("succeeded") = 2 /\ Severity("failed") = 3
    BY <1>1 DEF Severity
  <1> QED  BY <1>2 DEF CommandStatuses

LEMMA MergeIsWorst ==
  ASSUME NEW before \in CommandStatuses \cup {None}, NEW new \in CommandStatuses \cup {None}
  PROVE  /\ Merge(before, new) \in {before, new}
         /\ Severity(Merge(before, new)) >= Severity(before)
         /\ Severity(Merge(before, new)) >= Severity(new)
  BY SeverityType DEF Merge

\* The command of an event has been written, or something worse.
CommandWritten(e) ==
  Facts[e].command # None =>
    Severity(commands[Facts[e].job][Facts[e].command]) >= Severity(Facts[e].status)

\* What a process has written of the event it applies.
Written(p) ==
  /\ at[p] \in {"command", "deploy"} => Fact(p).command # None
  /\ at[p] \in {"deploy", "paths", "mark"} => \E e \in Events : e = Current(p) /\ CommandWritten(e)

RowsAreSeen == \A j \in Jobs, c \in Commands : commands[j][c] \in StatusesOf(j, c, recorded) \cup {None}
DeploymentsAreBounded ==
  \A j \in Jobs, c \in Deploying : Severity(deployments[j][c]) <= Severity(commands[j][c])

CommandInv ==
  /\ RowsAreSeen /\ DeploymentsAreBounded
  /\ \A e \in normalized : CommandWritten(e)
  /\ \A p \in Procs : Written(p)

LEMMA FactTypes ==
  ASSUME NEW e \in Events
  PROVE  /\ Facts[e].job \in Jobs /\ Facts[e].zones \in SUBSET Zones
         /\ Facts[e].command \in Commands \cup {None}
         /\ Facts[e].command # None => Facts[e].status \in CommandStatuses
  BY AssociationAssumption

\* A status that is only ever replaced by a worse one.
LEMMA CommandStep ==
  ASSUME RunInv, RunInv', CommandInv, RowsAreSeen', DeploymentsAreBounded',
         \A j \in Jobs, c \in Commands : Severity(commands'[j][c]) >= Severity(commands[j][c]),
         NEW p \in Procs, Written(p)',
         normalized' \ normalized \subseteq {e \in Events : CommandWritten(e)'},
         \A q \in Procs \ {p} : at'[q] = at[q] /\ batch'[q] = batch[q]
  PROVE  CommandInv'
  <1>1. ASSUME NEW e \in Events, CommandWritten(e) PROVE CommandWritten(e)'
    <2> SUFFICES ASSUME Facts[e].command # None
                 PROVE  Severity(commands'[Facts[e].job][Facts[e].command]) >= Severity(Facts[e].status)
      BY DEF CommandWritten
    <2>1. PICK j \in Jobs, c \in Commands, status \in CommandStatuses :
            j = Facts[e].job /\ c = Facts[e].command /\ status = Facts[e].status
      BY FactTypes
    <2>2. /\ commands[j][c] \in CommandStatuses \cup {None}
          /\ commands'[j][c] \in CommandStatuses \cup {None}
      BY DEF RunInv, Types
    <2>3. /\ Severity(commands'[j][c]) >= Severity(commands[j][c])
          /\ Severity(commands[j][c]) >= Severity(status)
      BY <1>1, <2>1 DEF CommandWritten
    <2>4. Severity(commands'[j][c]) \in 0 .. 3 /\ Severity(commands[j][c]) \in 0 .. 3 /\ Severity(status) \in 0 .. 3
      BY <2>2, SeverityType
    <2>5. Severity(commands'[j][c]) >= Severity(status)
      BY <2>3, <2>4
    <2> QED  BY <2>1, <2>5
  <1>2. ASSUME NEW e \in normalized' PROVE CommandWritten(e)'
    <2>1. e \in Events
      BY <1>2 DEF RunInv, Types
    <2>2. CASE e \in normalized
      BY <1>1, <2>1, <2>2 DEF CommandInv
    <2>3. CASE e \notin normalized
      BY <1>2, <2>3
    <2> QED  BY <2>2, <2>3
  <1>3. ASSUME NEW q \in Procs \ {p} PROVE Written(q)'
    <2>1. Fact(q)' = Fact(q) /\ Current(q)' = Current(q) /\ at'[q] = at[q]
      BY DEF Fact, Current
    <2>2. CASE at[q] \in {"deploy", "paths", "mark"}
      <3>1. PICK e \in Events : e = Current(q) /\ CommandWritten(e)
        BY <2>2 DEF CommandInv, Written
      <3>2. e = Current(q)' /\ CommandWritten(e)'
        BY <1>1, <2>1, <3>1
      <3>3. at[q] = "deploy" => Fact(q)'.command # None
        BY <2>1 DEF CommandInv, Written
      <3> QED  BY <2>1, <2>2, <3>2, <3>3 DEF Written
    <2>3. CASE at[q] \notin {"deploy", "paths", "mark"}
      BY <2>1, <2>3 DEF CommandInv, Written
    <2> QED  BY <2>2, <2>3
  <1> QED  BY <1>2, <1>3 DEF CommandInv

\* A step that writes no status and marks no event.
LEMMA CommandUnchanged ==
  ASSUME RunInv, RunInv', CommandInv, UNCHANGED <<recorded, normalized, commands, deployments>>,
         NEW p \in Procs, Written(p)', \A q \in Procs \ {p} : at'[q] = at[q] /\ batch'[q] = batch[q]
  PROVE  CommandInv'
  <1>1. RowsAreSeen' /\ DeploymentsAreBounded'
    BY DEF CommandInv, RowsAreSeen, DeploymentsAreBounded
  <1>2. \A j \in Jobs, c \in Commands : Severity(commands'[j][c]) >= Severity(commands[j][c])
    <2>1. \A j \in Jobs, c \in Commands : Severity(commands[j][c]) \in 0 .. 3
      BY SeverityType DEF RunInv, Types
    <2> QED  BY <2>1
  <1> QED  BY <1>1, <1>2, CommandStep

LEMMA RecordsCommands == ASSUME RunInv, RunInv', CommandInv, NEW e \in Events, Record(e) PROVE CommandInv'
  <1>1. /\ recorded' = recorded \cup {e}
        /\ UNCHANGED <<normalized, batch, commands, deployments, at>>
    BY DEF Record, RecordEvent, facts, local
  <1>2. RowsAreSeen'
    <2> SUFFICES ASSUME NEW j \in Jobs, NEW c \in Commands
                 PROVE  commands[j][c] \in StatusesOf(j, c, recorded') \cup {None}
      BY <1>1 DEF RowsAreSeen
    <2>1. StatusesOf(j, c, recorded) \subseteq StatusesOf(j, c, recorded')
      BY <1>1 DEF StatusesOf, EventsOf
    <2> QED  BY <2>1 DEF CommandInv, RowsAreSeen
  <1> QED
    BY <1>1, <1>2 DEF CommandInv, DeploymentsAreBounded, CommandWritten, Written, Fact, Current

LEMMA RecordCommandCommands ==
  ASSUME RunInv, RunInv', CommandInv, NEW p \in Procs, RecordCommand(p) PROVE CommandInv'
  <1>1. Working(p) /\ at[p] = "command" /\ Fact(p).command # None
    BY DEF RecordCommand, Recording, CommandInv, Written
  <1>2. PICK e \in recorded : e = Current(p)
    BY <1>1, ApplyFacts
  <1>3. PICK j \in Jobs, c \in Commands, status \in CommandStatuses :
          j = Facts[e].job /\ c = Facts[e].command /\ status = Facts[e].status
    BY <1>1, <1>2, FactTypes DEF Fact, RunInv, Types
  <1>4. /\ commands' = [commands EXCEPT ![j][c] = Merge(@, status)]
        /\ at' = [at EXCEPT ![p] = IF c \in Deploying THEN "deploy" ELSE "paths"]
        /\ UNCHANGED <<runnerVars, deployments>>
    BY <1>2, <1>3 DEF RecordCommand, Goto, Fact
  <1>5. commands[j][c] \in CommandStatuses \cup {None}
    BY DEF RunInv, Types
  <1>6. /\ commands'[j][c] = Merge(commands[j][c], status)
        /\ \A k \in Jobs, d \in Commands : ~(k = j /\ d = c) => commands'[k][d] = commands[k][d]
    BY <1>4 DEF RunInv, Types
  <1>7. \A k \in Jobs, d \in Commands : Severity(commands'[k][d]) >= Severity(commands[k][d])
    <2>1. \A k \in Jobs, d \in Commands : Severity(commands[k][d]) \in 0 .. 3
      BY SeverityType DEF RunInv, Types
    <2> QED  BY <1>5, <1>6, <2>1, MergeIsWorst
  <1>8. RowsAreSeen'
    <2> SUFFICES ASSUME NEW k \in Jobs, NEW d \in Commands
                 PROVE  commands'[k][d] \in StatusesOf(k, d, recorded) \cup {None}
      BY <1>4 DEF RowsAreSeen, runnerVars
    <2>1. commands[k][d] \in StatusesOf(k, d, recorded) \cup {None}
      BY DEF CommandInv, RowsAreSeen
    <2>2. CASE k = j /\ d = c
      <3>1. status \in StatusesOf(j, c, recorded)
        BY <1>2, <1>3 DEF StatusesOf, EventsOf
      <3>2. commands'[j][c] \in {commands[j][c], status}
        BY <1>5, <1>6, MergeIsWorst
      <3> QED  BY <2>1, <2>2, <3>1, <3>2
    <2> QED  BY <1>6, <2>1, <2>2
  <1>9. DeploymentsAreBounded'
    <2> SUFFICES ASSUME NEW k \in Jobs, NEW d \in Deploying
                 PROVE  Severity(deployments[k][d]) <= Severity(commands'[k][d])
      BY <1>4 DEF DeploymentsAreBounded
    <2>1. d \in Commands
      BY AssociationAssumption
    <2>2. /\ Severity(deployments[k][d]) \in 0 .. 3 /\ Severity(commands[k][d]) \in 0 .. 3
          /\ Severity(commands'[k][d]) \in 0 .. 3
      BY <2>1, SeverityType DEF RunInv, Types
    <2>3. Severity(deployments[k][d]) <= Severity(commands[k][d])
      BY DEF CommandInv, DeploymentsAreBounded
    <2> QED  BY <1>7, <2>1, <2>2, <2>3
  <1>10. Written(p)'
    <2>1. Current(p)' = e /\ Fact(p)' = Facts[e]
      BY <1>2, <1>4 DEF runnerVars, Current, Fact
    <2>2. CommandWritten(e)'
      BY <1>3, <1>5, <1>6, MergeIsWorst DEF CommandWritten
    <2>3. Facts[e].command # None /\ e \in Events
      BY <1>1, <1>2 DEF Fact, RunInv, Types
    <2> QED  BY <2>1, <2>2, <2>3 DEF Written
  <1>11. \A q \in Procs \ {p} : at'[q] = at[q] /\ batch'[q] = batch[q]
    BY <1>4 DEF RunInv, Types, runnerVars
  <1> QED  BY <1>4, <1>7, <1>8, <1>9, <1>10, <1>11, CommandStep DEF runnerVars

LEMMA RecordDeploymentCommands ==
  ASSUME RunInv, RunInv', CommandInv, NEW p \in Procs, RecordDeployment(p) PROVE CommandInv'
  <1>1. Working(p) /\ at[p] = "deploy" /\ Fact(p).command # None
    BY DEF RecordDeployment, Recording, CommandInv, Written
  <1>2. PICK e \in Events : e = Current(p) /\ CommandWritten(e)
    BY <1>1 DEF CommandInv, Written
  <1>3. PICK j \in Jobs, c \in Commands, status \in CommandStatuses :
          j = Facts[e].job /\ c = Facts[e].command /\ status = Facts[e].status
    BY <1>1, <1>2, FactTypes DEF Fact
  <1>4. /\ deployments' = [deployments EXCEPT ![j][c] = status]
        /\ at' = [at EXCEPT ![p] = "paths"]
        /\ UNCHANGED <<runnerVars, commands>>
    BY <1>2, <1>3 DEF RecordDeployment, Goto, Fact
  <1>5. Severity(commands[j][c]) >= Severity(status)
    BY <1>1, <1>2, <1>3 DEF CommandWritten, Fact
  <1>6. DeploymentsAreBounded'
    <2> SUFFICES ASSUME NEW k \in Jobs, NEW d \in Deploying
                 PROVE  Severity(deployments'[k][d]) <= Severity(commands[k][d])
      BY <1>4 DEF DeploymentsAreBounded
    <2>1. deployments'[k][d] = deployments[k][d] \/ (k = j /\ d = c /\ deployments'[k][d] = status)
      BY <1>4 DEF RunInv, Types
    <2>2. Severity(deployments[k][d]) <= Severity(commands[k][d])
      BY DEF CommandInv, DeploymentsAreBounded
    <2>3. Severity(commands[j][c]) \in 0 .. 3 /\ Severity(status) \in 0 .. 3
      BY SeverityType DEF RunInv, Types
    <2> QED  BY <1>5, <2>1, <2>2, <2>3
  <1>7. RowsAreSeen'
    BY <1>4 DEF RowsAreSeen, CommandInv, runnerVars
  <1>8. Written(p)'
    <2>1. Current(p)' = e /\ CommandWritten(e)'
      BY <1>2, <1>4 DEF runnerVars, Current, CommandWritten
    <2>2. at'[p] = "paths"
      BY <1>4 DEF RunInv, Types
    <2> QED  BY <2>1, <2>2 DEF Written
  <1>9. \A q \in Procs \ {p} : at'[q] = at[q] /\ batch'[q] = batch[q]
    BY <1>4 DEF RunInv, Types, runnerVars
  <1>10. \A k \in Jobs, d \in Commands : Severity(commands'[k][d]) >= Severity(commands[k][d])
    <2>1. \A k \in Jobs, d \in Commands : Severity(commands[k][d]) \in 0 .. 3
      BY SeverityType DEF RunInv, Types
    <2> QED  BY <1>4, <2>1
  <1> QED  BY <1>4, <1>6, <1>7, <1>8, <1>9, <1>10, CommandStep DEF runnerVars
LEMMA ApplyCommands == ASSUME RunInv, RunInv', CommandInv, NEW p \in Procs, Apply(p) PROVE CommandInv'
  <1>1. CASE RecordJob(p)
    <2>1. /\ at' = [at EXCEPT ![p] = IF Fact(p).command = None THEN "paths" ELSE "command"]
          /\ UNCHANGED <<recorded, normalized, batch, commands, deployments>>
      BY <1>1 DEF RecordJob, Goto, runnerVars
    <2>2. Current(p)' = Current(p) /\ Fact(p)' = Fact(p) /\ Current(p) \in Events
      BY <1>1, <2>1, ApplyFacts DEF Current, Fact, RecordJob, Recording
    <2>3. Written(p)'
      <3>1. CASE Fact(p).command = None
        <4>1. PICK e \in Events : e = Current(p)
          BY <2>2
        <4>2. e = Current(p)' /\ CommandWritten(e)'
          BY <2>2, <3>1, <4>1 DEF CommandWritten, Fact
        <4>3. at'[p] = "paths"
          BY <2>1, <3>1 DEF RunInv, Types
        <4> QED  BY <4>2, <4>3 DEF Written
      <3>2. CASE Fact(p).command # None
        <4>1. at'[p] = "command"
          BY <2>1, <3>2 DEF RunInv, Types
        <4> QED  BY <2>2, <3>2, <4>1 DEF Written
      <3> QED  BY <3>1, <3>2
    <2>4. \A q \in Procs \ {p} : at'[q] = at[q] /\ batch'[q] = batch[q]
      BY <2>1 DEF RunInv, Types
    <2> QED  BY <2>1, <2>3, <2>4, CommandUnchanged
  <1>2. CASE RecordPaths(p)
    <2>1. /\ at' = [at EXCEPT ![p] = "mark"] /\ at[p] = "paths"
          /\ UNCHANGED <<recorded, normalized, batch, commands, deployments>>
      BY <1>2 DEF RecordPaths, Recording, Goto, runnerVars
    <2>2. PICK e \in Events : e = Current(p) /\ CommandWritten(e)
      BY <2>1 DEF CommandInv, Written
    <2>3. e = Current(p)' /\ CommandWritten(e)' /\ at'[p] = "mark"
      BY <2>1, <2>2 DEF Current, CommandWritten, RunInv, Types
    <2>4. \A q \in Procs \ {p} : at'[q] = at[q] /\ batch'[q] = batch[q]
      BY <2>1 DEF RunInv, Types
    <2>5. Written(p)'
      BY <2>3 DEF Written
    <2> QED  BY <2>1, <2>4, <2>5, CommandUnchanged
  <1>3. CASE Mark(p)
    <2>1. /\ normalized' = normalized \cup {Current(p)} /\ at[p] = "mark"
          /\ at' = [at EXCEPT ![p] = IF Len(batch[p]) = 1 THEN "zones" ELSE "job"]
          /\ batch' = [batch EXCEPT ![p] = Tail(@)]
          /\ UNCHANGED <<recorded, commands, deployments>>
      BY <1>3 DEF Mark, MarkNormalized, Recording, Goto, facts
    <2>2. PICK e \in Events : e = Current(p) /\ CommandWritten(e)
      BY <2>1 DEF CommandInv, Written
    <2>3. normalized' \ normalized \subseteq {x \in Events : CommandWritten(x)'}
      BY <2>1, <2>2 DEF CommandWritten
    <2>4. Written(p)'
      BY <2>1 DEF Written, RunInv, Types
    <2>5. \A q \in Procs \ {p} : at'[q] = at[q] /\ batch'[q] = batch[q]
      BY <2>1 DEF RunInv, Types
    <2>6. RowsAreSeen' /\ DeploymentsAreBounded'
      BY <2>1 DEF CommandInv, RowsAreSeen, DeploymentsAreBounded
    <2>7. \A j \in Jobs, c \in Commands : Severity(commands'[j][c]) >= Severity(commands[j][c])
      <3>1. \A j \in Jobs, c \in Commands : Severity(commands[j][c]) \in 0 .. 3
        BY SeverityType DEF RunInv, Types
      <3> QED  BY <2>1, <3>1
    <2> QED  BY <2>3, <2>4, <2>5, <2>6, <2>7, CommandStep
  <1> QED
    BY <1>1, <1>2, <1>3, RecordCommandCommands, RecordDeploymentCommands DEF Apply

\* A step of a process that is not applying an event, or no longer is.
LEMMA OtherCommands ==
  ASSUME RunInv, RunInv', CommandInv, NEW p \in Procs, Start(p) \/ Derive(p) \/ Return(p) \/ Abort(p)
  PROVE  CommandInv'
  <1>1. UNCHANGED <<recorded, normalized, commands, deployments>>
    BY DEF Start, ListEvents, Return, EndRun, Abort, AbortRun, Derive, DeriveZones, DerivePairs, InferOutcome,
      ListPairs, EnsureAssociation, ReadOld, Observe, Count, runnerVars, facts
  <1>2. at'[p] \in {"job"} \cup OfJob \cup OfPair
    <2>1. CASE Start(p) \/ Return(p)
      <3>1. at' = at
        BY <2>1 DEF Start, Return, local
      <3>2. p \notin running \/ batch[p] = <<>>
        BY <2>1 DEF Start, ListEvents, Return, EndRun
      <3> QED  BY <3>1, <3>2 DEF RunInv, Types, Control, Working, Applying
    <2>2. CASE Derive(p)
      BY <2>2 DEF Derive, DeriveZones, DerivePairs, InferOutcome, ListPairs, EnsureAssociation, ReadOld, Observe,
        Count, WithPairs, Goto, OfJob, OfPair, RunInv, Types
    <2>3. CASE Abort(p)
      BY <2>3 DEF Abort, Goto, RunInv, Types
    <2> QED  BY <2>1, <2>2, <2>3
  <1>3. \A q \in Procs \ {p} : at'[q] = at[q] /\ batch'[q] = batch[q]
    BY DEF Start, ListEvents, Return, EndRun, Abort, AbortRun, Derive, DeriveZones, DerivePairs, InferOutcome,
      ListPairs, EnsureAssociation, ReadOld, Observe, Count, WithPairs, Goto, runnerVars, local, RunInv, Types
  <1>4. Written(p)'
    BY <1>2 DEF Written, OfJob, OfPair
  <1> QED  BY <1>1, <1>3, <1>4, CommandUnchanged

LEMMA CommandInvariance == Spec => []CommandInv
  <1>1. ASSUME Init PROVE CommandInv
    <2>1. DeploymentsAreBounded
      <3>1. \A j \in Jobs, c \in Deploying : deployments[j][c] = None /\ commands[j][c] = None
        BY <1>1, AssociationAssumption DEF Init
      <3> QED  BY <3>1, SeverityType DEF DeploymentsAreBounded
    <2> QED  BY <1>1, <2>1 DEF Init, RunnerInit, CommandInv, RowsAreSeen, Written
  <1>2. ASSUME RunInv, RunInv', CommandInv, [Next]_vars PROVE CommandInv'
    <2>1. CASE UNCHANGED vars
      BY <1>2, <2>1 DEF vars, runnerVars, facts, local, CommandInv, RowsAreSeen, DeploymentsAreBounded,
        CommandWritten, Written, Fact, Current
    <2> QED  BY <1>2, <2>1, RecordsCommands, ApplyCommands, OtherCommands DEF Next
  <1> QED  BY <1>1, <1>2, RunInvariance, PTL DEF Spec
-----------------------------------------------------------------------------
(* The pairs of zones that are still to be derived.                        *)

TouchedBy(e) == Facts[e].zones \subseteq touched[Facts[e].job]

TouchInv ==
  /\ \A e \in normalized : TouchedBy(e)
  /\ \A p \in Procs : at[p] = "mark" => \E e \in Events : e = Current(p) /\ TouchedBy(e)

LEMMA TouchInvariance == Spec => []TouchInv
  <1>1. Init => TouchInv
    BY DEF Init, RunnerInit, TouchInv
  <1>2. ASSUME RunInv, TouchInv, [Next]_vars PROVE TouchInv'
    <2>1. ASSUME NEW p \in Procs, UNCHANGED <<normalized, touched>>, at'[p] # "mark",
                 \A q \in Procs \ {p} : at'[q] = at[q] /\ batch'[q] = batch[q]
          PROVE  TouchInv'
      BY <1>2, <2>1 DEF TouchInv, TouchedBy, Current
    <2>2. CASE UNCHANGED vars \/ \E e \in Events : Record(e)
      <3>1. UNCHANGED <<normalized, touched, at, batch>>
        BY <2>2 DEF vars, runnerVars, facts, local, Record, RecordEvent
      <3> QED  BY <1>2, <3>1 DEF TouchInv, TouchedBy, Current
    <2>3. ASSUME NEW p \in Procs, RecordPaths(p) PROVE TouchInv'
      <3>1. PICK e \in Events : e = Current(p)
        BY <1>2, <2>3, ApplyFacts DEF RecordPaths, Recording
      <3>2. PICK j \in Jobs, zones \in SUBSET Zones : j = Facts[e].job /\ zones = Facts[e].zones
        BY FactTypes
      <3>3. /\ touched' = [touched EXCEPT ![j] = @ \cup zones]
            /\ at' = [at EXCEPT ![p] = "mark"] /\ UNCHANGED <<normalized, batch>>
        BY <2>3, <3>1, <3>2 DEF RecordPaths, Goto, Fact, runnerVars
      <3>4. touched'[j] = touched[j] \cup zones /\ \A k \in Jobs : touched[k] \subseteq touched'[k]
        BY <1>2, <3>3 DEF RunInv, Types
      <3>5. \A x \in Events : TouchedBy(x) => TouchedBy(x)'
        <4>1. \A x \in Events : Facts[x].job \in Jobs
          BY FactTypes
        <4> QED  BY <3>4, <4>1 DEF TouchedBy
      <3>6. TouchedBy(e)'
        BY <3>2, <3>4 DEF TouchedBy
      <3>7. \A q \in Procs : Current(q)' = Current(q) /\ (q # p => at'[q] = at[q])
        BY <1>2, <3>3 DEF Current, RunInv, Types
      <3>8. \A x \in normalized' : TouchedBy(x)'
        BY <1>2, <3>3, <3>5 DEF TouchInv, RunInv, Types
      <3>9. ASSUME NEW q \in Procs, at'[q] = "mark" PROVE \E x \in Events : x = Current(q)' /\ TouchedBy(x)'
        BY <1>2, <3>1, <3>5, <3>6, <3>7, <3>9 DEF TouchInv
      <3> QED  BY <3>8, <3>9 DEF TouchInv
    <2>4. ASSUME NEW p \in Procs, Mark(p) PROVE TouchInv'
      <3>1. /\ normalized' = normalized \cup {Current(p)} /\ at[p] = "mark" /\ touched' = touched
            /\ at'[p] # "mark" /\ \A q \in Procs \ {p} : at'[q] = at[q] /\ batch'[q] = batch[q]
        BY <1>2, <2>4 DEF Mark, MarkNormalized, Recording, Goto, facts, RunInv, Types
      <3>2. PICK e \in Events : e = Current(p) /\ TouchedBy(e)
        BY <1>2, <3>1 DEF TouchInv
      <3> QED  BY <1>2, <3>1, <3>2 DEF TouchInv, TouchedBy, Current
    <2>5. ASSUME NEW p \in Procs, RecordJob(p) \/ RecordCommand(p) \/ RecordDeployment(p) PROVE TouchInv'
      BY <1>2, <2>1, <2>5 DEF RecordJob, RecordCommand, RecordDeployment, Goto, runnerVars, RunInv, Types
    <2>6. ASSUME NEW p \in Procs, Derive(p) \/ Abort(p) PROVE TouchInv'
      <3>1. UNCHANGED <<normalized, touched>> /\ at'[p] # "mark"
        BY <1>2, <2>6 DEF Derive, DeriveZones, DerivePairs, InferOutcome, ListPairs, EnsureAssociation, ReadOld,
          Observe, Count, WithPairs, Abort, AbortRun, Goto, runnerVars, facts, RunInv, Types
      <3>2. \A q \in Procs \ {p} : at'[q] = at[q] /\ batch'[q] = batch[q]
        BY <1>2, <2>6 DEF Derive, DeriveZones, DerivePairs, InferOutcome, ListPairs, EnsureAssociation, ReadOld,
          Observe, Count, WithPairs, Abort, AbortRun, Goto, runnerVars, RunInv, Types
      <3> QED  BY <2>1, <3>1, <3>2
    <2>7. ASSUME NEW p \in Procs, Start(p) \/ Return(p) PROVE TouchInv'
      <3>1. UNCHANGED <<normalized, touched, at>> /\ \A q \in Procs \ {p} : batch'[q] = batch[q]
        BY <1>2, <2>7 DEF Start, ListEvents, Return, EndRun, facts, local, RunInv, Types
      <3>2. at[p] # "mark"
        BY <1>2, <2>7 DEF Start, ListEvents, Return, EndRun, RunInv, Control, Working, Applying
      <3> QED  BY <2>1, <3>1, <3>2
    <2> QED  BY <1>2, <2>2, <2>3, <2>4, <2>5, <2>6, <2>7 DEF Next, Apply
  <1> QED  BY <1>1, <1>2, RunInvariance, PTL DEF Spec

\* The jobs that a process will derive from their beginning.
Awaits(p, j) == j \in IF at[p] \in Applying \cup {"zones"} THEN Range(derive[p]) ELSE Range(Tail(derive[p]))

\* What it still has to do for a pair of the job it is deriving.
InHand(p, j, pair) ==
  /\ at[p] \notin Applying \cup {"zones"} /\ Job(p) = j
  /\ at[p] = "pairs" => pair \subseteq active[j]
  /\ at[p] # "pairs" => pair \in coactive[j]
  /\ at[p] \in {"ensure", "old", "observe"} => pair \in Range(pairs[p])
  /\ at[p] = "count" => pair \in Range(Tail(pairs[p]))

Done(j, pair) == pair \in coactive[j] /\ observation[pair][j] # None
Owes(p, j, pair) == Awaits(p, j) \/ InHand(p, j, pair)

PendingInv ==
  aborts = 0 =>
    \A j \in Jobs : \A pair \in PairsOf(j, normalized) : Done(j, pair) \/ \E p \in Procs : Owes(p, j, pair)

\* A step of one process, which ends what it owed of a pair only by doing it.
LEMMA PendingStep ==
  ASSUME RunInv, PendingInv, UNCHANGED <<normalized, aborts>>, NEW p \in Procs,
         \A q \in Procs \ {p} : at'[q] = at[q] /\ derive'[q] = derive[q] /\ pairs'[q] = pairs[q],
         \A j \in Jobs : active[j] \subseteq active'[j] /\ coactive[j] \subseteq coactive'[j],
         \A pair \in Pairs, j \in Jobs : observation[pair][j] # None => observation'[pair][j] # None,
         \A j \in Jobs : \A pair \in PairsOf(j, normalized) :
           Owes(p, j, pair) => Done(j, pair)' \/ Owes(p, j, pair)'
  PROVE  PendingInv'
  <1> SUFFICES ASSUME aborts = 0, NEW j \in Jobs, NEW pair \in PairsOf(j, normalized)
               PROVE  Done(j, pair)' \/ \E q \in Procs : Owes(q, j, pair)'
    BY DEF PendingInv, PairsOf, ZonesOf, EventsOf
  <1>1. pair \in Pairs
    BY DEF PairsOf
  <1>2. CASE Done(j, pair)
    BY <1>1, <1>2 DEF Done
  <1>3. ASSUME NEW q \in Procs \ {p}, Owes(q, j, pair) PROVE Owes(q, j, pair)'
    <2>1. Awaits(q, j) => Awaits(q, j)'
      BY DEF Awaits
    <2>2. InHand(q, j, pair) => InHand(q, j, pair)'
      BY DEF InHand, Job
    <2> QED  BY <1>3, <2>1, <2>2 DEF Owes
  <1>4. CASE Owes(p, j, pair)
    BY <1>4
  <1>5. Done(j, pair) \/ \E q \in Procs : Owes(q, j, pair)
    BY DEF PendingInv
  <1> QED  BY <1>2, <1>3, <1>4, <1>5

\* A step that touches no derived row and only adds to what one process awaits.
LEMMA PendingKept ==
  ASSUME RunInv, PendingInv, UNCHANGED <<normalized, aborts, derived>>, NEW p \in Procs,
         \A q \in Procs \ {p} : at'[q] = at[q] /\ derive'[q] = derive[q] /\ pairs'[q] = pairs[q],
         \A j \in Jobs, pair \in Pairs : Owes(p, j, pair) => Owes(p, j, pair)'
  PROVE  PendingInv'
  <1>1. \A j \in Jobs : \A pair \in PairsOf(j, normalized) : pair \in Pairs
    BY DEF PairsOf
  <1> QED  BY <1>1, PendingStep DEF derived

LEMMA ApplyPending ==
  ASSUME RunInv, PendingInv, NEW p \in Procs,
         RecordJob(p) \/ RecordCommand(p) \/ RecordDeployment(p) \/ RecordPaths(p)
  PROVE  PendingInv'
  <1>1. PICK next \in Applying : at' = [at EXCEPT ![p] = next]
    BY DEF RecordJob, RecordCommand, RecordDeployment, RecordPaths, Goto, Applying
  <1>2. at'[p] \in Applying /\ at[p] \in Applying /\ \A q \in Procs \ {p} : at'[q] = at[q]
    BY <1>1 DEF RecordJob, RecordCommand, RecordDeployment, RecordPaths, Recording, Applying, RunInv, Types
  <1>3. UNCHANGED <<normalized, aborts, derived, pairs>>
    BY DEF RecordJob, RecordCommand, RecordDeployment, RecordPaths, runnerVars
  <1>4. /\ \A q \in Procs \ {p} : derive'[q] = derive[q]
        /\ Range(derive[p]) \subseteq Range(derive'[p])
    <2>1. CASE derive' = derive
      BY <2>1
    <2>2. CASE RecordJob(p)
      <3>1. derive' = [derive EXCEPT ![p] = @ \o Met(p)] /\ Fact(p).job \in Jobs
        BY <2>2, ApplyFacts DEF RecordJob, Recording
      <3>2. derive[p] \in Seq(Jobs)
        BY DEF RunInv, Types
      <3>3. Range(derive[p]) \subseteq Range(derive[p] \o Met(p))
        <4>1. CASE Met(p) = <<>>
          BY <3>2, <4>1, ConcatEmptySeq
        <4>2. CASE Met(p) = <<Fact(p).job>>
          BY <3>1, <3>2, <4>2, AppendedRange
        <4> QED  BY <4>1, <4>2 DEF Met
      <3> QED  BY <3>1, <3>3 DEF RunInv, Types
    <2> QED  BY <2>1, <2>2 DEF RecordCommand, RecordDeployment, RecordPaths
  <1>5. ASSUME NEW j \in Jobs, NEW pair \in Pairs, Owes(p, j, pair) PROVE Owes(p, j, pair)'
    <2>1. Awaits(p, j)
      BY <1>2, <1>5 DEF Owes, InHand
    <2>2. Awaits(p, j)'
      BY <1>2, <1>4, <2>1 DEF Awaits
    <2> QED  BY <2>2 DEF Owes
  <1> QED  BY <1>2, <1>3, <1>4, <1>5, PendingKept

LEMMA MarkPending == ASSUME RunInv, PendingInv, NEW p \in Procs, Mark(p) PROVE PendingInv'
  <1>1. PICK e \in Events : e = Current(p)
    BY ApplyFacts DEF Mark, Recording
  <1>2. /\ normalized' = normalized \cup {e} /\ at[p] = "mark"
        /\ at' = [at EXCEPT ![p] = IF Len(batch[p]) = 1 THEN "zones" ELSE "job"]
        /\ UNCHANGED <<aborts, derived, derive, pairs>>
    BY <1>1 DEF Mark, MarkNormalized, Recording, Goto
  <1>3. /\ at[p] \in Applying /\ at'[p] \in Applying \cup {"zones"}
        /\ \A q \in Procs \ {p} : at'[q] = at[q]
    BY <1>2 DEF RunInv, Types, Applying
  <1>4. Facts[e].job \in Range(derive[p])
    BY <1>1, <1>2 DEF RunInv, Control, Applying, Fact
  <1>5. ASSUME NEW q \in Procs, NEW j \in Jobs, NEW pair \in Pairs, Owes(q, j, pair) PROVE Owes(q, j, pair)'
    <2>1. CASE q = p
      <3>1. Awaits(p, j)
        BY <1>3, <1>5, <2>1 DEF Owes, InHand
      <3>2. Awaits(p, j)'
        BY <1>2, <1>3, <3>1 DEF Awaits
      <3> QED  BY <2>1, <3>2 DEF Owes
    <2>2. CASE q # p
      <3>1. at'[q] = at[q] /\ UNCHANGED <<derive, pairs, active, coactive>>
        BY <1>2, <1>3, <2>2 DEF derived
      <3> QED  BY <1>5, <3>1 DEF Owes, Awaits, InHand, Job
    <2> QED  BY <2>1, <2>2
  <1> SUFFICES ASSUME aborts = 0, NEW j \in Jobs, NEW pair \in PairsOf(j, normalized')
               PROVE  Done(j, pair)' \/ \E q \in Procs : Owes(q, j, pair)'
    BY <1>2 DEF PendingInv, PairsOf, ZonesOf, EventsOf
  <1>6. pair \in Pairs
    BY DEF PairsOf
  <1>7. CASE j = Facts[e].job
    <2>1. Awaits(p, j)'
      BY <1>2, <1>3, <1>4, <1>7 DEF Awaits
    <2> QED  BY <2>1 DEF Owes
  <1>8. CASE j # Facts[e].job
    <2>1. EventsOf(j, normalized') = EventsOf(j, normalized)
      BY <1>2, <1>8 DEF EventsOf
    <2>2. pair \in PairsOf(j, normalized)
      BY <2>1 DEF PairsOf, ZonesOf
    <2>3. Done(j, pair) => Done(j, pair)'
      BY <1>2 DEF Done, derived
    <2> QED  BY <1>5, <1>6, <2>2, <2>3 DEF PendingInv
  <1> QED  BY <1>7, <1>8
LEMMA DeriveZonesPending ==
  ASSUME RunInv, TouchInv, PendingInv, NEW p \in Procs, DeriveZones(p) PROVE PendingInv'
  <1>1. PICK k \in Jobs : k = Job(p)
    BY DeriveFacts DEF DeriveZones
  <1>2. /\ at[p] = "zones" /\ at' = [at EXCEPT ![p] = "pairs"]
        /\ active' = [active EXCEPT ![k] = @ \cup touched[k]]
        /\ UNCHANGED <<normalized, aborts, coactive, observation, derive, pairs>>
    BY <1>1 DEF DeriveZones, Deriving, Goto, runnerVars
  <1>3. Range(derive[p]) = {k} \cup Range(Tail(derive[p]))
    BY <1>1, DeriveFacts DEF DeriveZones
  <1>4. at'[p] = "pairs" /\ \A q \in Procs \ {p} : at'[q] = at[q]
    BY <1>2 DEF RunInv, Types
  <1>5. touched[k] \subseteq active'[k] /\ \A j \in Jobs : active[j] \subseteq active'[j]
    BY <1>2 DEF RunInv, Types
  <1>6. ASSUME NEW j \in Jobs, NEW pair \in PairsOf(j, normalized), Owes(p, j, pair)
        PROVE  Owes(p, j, pair)'
    <2>1. j \in Range(derive[p])
      BY <1>2, <1>6 DEF Owes, Awaits, InHand
    <2>2. CASE j = k
      <3>1. ZonesOf(j, normalized) \subseteq touched[j]
        BY DEF ZonesOf, EventsOf, TouchInv, TouchedBy
      <3>2. pair \subseteq active'[j]
        BY <1>5, <2>2, <3>1 DEF PairsOf
      <3>3. Job(p)' = j
        BY <1>1, <1>2, <2>2 DEF Job
      <3>4. InHand(p, j, pair)'
        BY <1>4, <3>2, <3>3 DEF InHand, Applying
      <3> QED  BY <3>4 DEF Owes
    <2>3. CASE j # k
      <3>1. Awaits(p, j)'
        BY <1>2, <1>3, <1>4, <2>1, <2>3 DEF Awaits, Applying
      <3> QED  BY <3>1 DEF Owes
    <2> QED  BY <2>2, <2>3
  <1> QED  BY <1>2, <1>4, <1>5, <1>6, PendingStep

LEMMA DerivePairsPending ==
  ASSUME RunInv, PendingInv, NEW p \in Procs, DerivePairs(p) PROVE PendingInv'
  <1>1. PICK k \in Jobs : k = Job(p)
    BY DeriveFacts DEF DerivePairs
  <1>2. /\ at[p] = "pairs" /\ at' = [at EXCEPT ![p] = "outcome"]
        /\ coactive' = [coactive EXCEPT ![k] = @ \cup {pair \in Pairs : pair \subseteq active[k]}]
        /\ UNCHANGED <<normalized, aborts, active, observation, derive, pairs>>
    BY <1>1 DEF DerivePairs, Deriving, Goto, runnerVars
  <1>3. at'[p] = "outcome" /\ \A q \in Procs \ {p} : at'[q] = at[q]
    BY <1>2 DEF RunInv, Types
  <1>4. /\ \A j \in Jobs : coactive[j] \subseteq coactive'[j]
        /\ \A pair \in Pairs : pair \subseteq active[k] => pair \in coactive'[k]
    BY <1>2 DEF RunInv, Types
  <1>5. ASSUME NEW j \in Jobs, NEW pair \in PairsOf(j, normalized), Owes(p, j, pair)
        PROVE  Owes(p, j, pair)'
    <2>1. pair \in Pairs /\ Job(p)' = Job(p)
      BY <1>2 DEF PairsOf, Job
    <2>2. CASE Awaits(p, j)
      <3>1. Awaits(p, j)'
        BY <1>2, <1>3, <2>2 DEF Awaits, Applying
      <3> QED  BY <3>1 DEF Owes
    <2>3. CASE InHand(p, j, pair)
      <3>1. InHand(p, j, pair)'
        BY <1>1, <1>2, <1>3, <1>4, <2>1, <2>3 DEF InHand, Applying
      <3> QED  BY <3>1 DEF Owes
    <2> QED  BY <1>5, <2>2, <2>3 DEF Owes
  <1> QED  BY <1>2, <1>3, <1>4, <1>5, PendingStep

LEMMA InferOutcomePending ==
  ASSUME RunInv, PendingInv, NEW p \in Procs, InferOutcome(p) PROVE PendingInv'
  <1>1. /\ at[p] = "outcome" /\ at' = [at EXCEPT ![p] = "list"]
        /\ UNCHANGED <<normalized, aborts, derived, derive, pairs>>
    BY DEF InferOutcome, Deriving, Goto, runnerVars
  <1>2. at'[p] = "list" /\ \A q \in Procs \ {p} : at'[q] = at[q]
    BY <1>1 DEF RunInv, Types
  <1>3. ASSUME NEW j \in Jobs, NEW pair \in Pairs, Owes(p, j, pair) PROVE Owes(p, j, pair)'
    <2>1. UNCHANGED <<active, coactive, derive, pairs>>
      BY <1>1 DEF derived
    <2>2. Awaits(p, j) => Awaits(p, j)'
      BY <1>1, <1>2, <2>1 DEF Awaits, Applying
    <2>3. InHand(p, j, pair) => InHand(p, j, pair)'
      BY <1>1, <1>2, <2>1 DEF InHand, Applying, Job
    <2> QED  BY <1>3, <2>2, <2>3 DEF Owes
  <1> QED  BY <1>1, <1>2, <1>3, PendingKept

\* A process that goes on with these pairs still owes the ones among them, and every later job.
LEMMA WithPairsPending ==
  ASSUME RunInv, PendingInv, NEW p \in Procs, NEW left \in Seq(Pairs), WithPairs(p, left),
         NEW stage \in {"list", "count"}, Deriving(p, stage),
         UNCHANGED <<normalized, aborts, active, coactive, observation>>,
         \A j \in Jobs, pair \in Pairs : InHand(p, j, pair) => pair \in Range(left)
  PROVE  PendingInv'
  <1> DEFINE next == IF left # <<>> THEN "ensure" ELSE IF Len(derive[p]) = 1 THEN "job" ELSE "zones"
             jobs == IF left = <<>> THEN Tail(derive[p]) ELSE derive[p]
  <1>1. /\ pairs' = [pairs EXCEPT ![p] = left] /\ derive' = [derive EXCEPT ![p] = jobs]
        /\ at' = [at EXCEPT ![p] = next] /\ at[p] = stage
    BY DEF WithPairs, Goto, Deriving, RunInv, Types
  <1>2. at'[p] = next /\ pairs'[p] = left /\ derive'[p] = jobs
    BY <1>1 DEF RunInv, Types
  <1>3. \A q \in Procs \ {p} : at'[q] = at[q] /\ derive'[q] = derive[q] /\ pairs'[q] = pairs[q]
    BY <1>1 DEF RunInv, Types
  <1>4. ASSUME NEW j \in Jobs, NEW pair \in Pairs, Owes(p, j, pair) PROVE Owes(p, j, pair)'
    <2>1. CASE Awaits(p, j)
      <3>1. j \in Range(Tail(derive[p]))
        BY <1>1, <2>1 DEF Awaits, Applying
      <3>2. CASE left = <<>>
        <4>1. next \in Applying \cup {"zones"} /\ jobs = Tail(derive[p])
          BY <3>2 DEF Applying
        <4>2. Awaits(p, j)'
          BY <1>2, <3>1, <4>1 DEF Awaits
        <4> QED  BY <4>2 DEF Owes
      <3>3. CASE left # <<>>
        <4>1. next = "ensure" /\ jobs = derive[p]
          BY <3>3
        <4>2. Awaits(p, j)'
          BY <1>2, <3>1, <4>1 DEF Awaits, Applying
        <4> QED  BY <4>2 DEF Owes
      <3> QED  BY <3>2, <3>3
    <2>2. CASE InHand(p, j, pair)
      <3>1. pair \in Range(left)
        BY <2>2
      <3>2. left # <<>>
        BY <3>1, EmptyRange
      <3>3. at'[p] = "ensure" /\ derive'[p] = derive[p]
        BY <1>2, <3>2
      <3>4. InHand(p, j, pair)'
        BY <1>1, <1>2, <2>2, <3>1, <3>3 DEF InHand, Applying, Job
      <3> QED  BY <3>4 DEF Owes
    <2> QED  BY <1>4, <2>1, <2>2 DEF Owes
  <1>5. \A j \in Jobs : \A pair \in PairsOf(j, normalized) : Owes(p, j, pair) => Owes(p, j, pair)'
    BY <1>4 DEF PairsOf
  <1> HIDE DEF next, jobs
  <1> QED  BY <1>3, <1>5, PendingStep

LEMMA ListPairsPending == ASSUME RunInv, PendingInv, NEW p \in Procs, ListPairs(p) PROVE PendingInv'
  <1>1. PICK k \in Jobs : k = Job(p)
    BY DeriveFacts DEF ListPairs
  <1>2. coactive[k] \subseteq Pairs /\ IsFiniteSet(coactive[k])
    BY PairsFinite, FS_Subset DEF RunInv, Types
  <1>3. PICK left \in Seq(Pairs) : left = SetToSeq(coactive[k]) /\ Range(left) = coactive[k]
    BY <1>2, ListedInOrder, SeqMonotonic
  <1>4. WithPairs(p, left) /\ Deriving(p, "list") /\ UNCHANGED <<runnerVars, derived>>
    BY <1>1, <1>3 DEF ListPairs
  <1>5. \A j \in Jobs, pair \in Pairs : InHand(p, j, pair) => pair \in Range(left)
    BY <1>1, <1>3, <1>4 DEF InHand, Deriving
  <1> QED  BY <1>4, <1>5, WithPairsPending DEF runnerVars, derived

LEMMA CountPending == ASSUME RunInv, PendingInv, NEW p \in Procs, Count(p) PROVE PendingInv'
  <1>1. PICK left \in Seq(Pairs) : left = Tail(pairs[p])
    BY PairFacts DEF Count, OfPair
  <1>2. /\ WithPairs(p, left) /\ Deriving(p, "count")
        /\ UNCHANGED <<runnerVars, active, coactive, observation>>
    BY <1>1 DEF Count
  <1>3. \A j \in Jobs, pair \in Pairs : InHand(p, j, pair) => pair \in Range(left)
    BY <1>1, <1>2 DEF InHand, Deriving
  <1> QED  BY <1>2, <1>3, WithPairsPending DEF runnerVars
LEMMA EnsureAssociationPending ==
  ASSUME RunInv, PendingInv, NEW p \in Procs, EnsureAssociation(p) PROVE PendingInv'
  <1>1. /\ at[p] = "ensure" /\ at' = [at EXCEPT ![p] = "old"]
        /\ UNCHANGED <<normalized, aborts, active, coactive, observation, derive, pairs>>
    BY DEF EnsureAssociation, Deriving, Goto, runnerVars
  <1>2. at'[p] = "old" /\ \A q \in Procs \ {p} : at'[q] = at[q]
    BY <1>1 DEF RunInv, Types
  <1>3. ASSUME NEW j \in Jobs, NEW pair \in PairsOf(j, normalized), Owes(p, j, pair) PROVE Owes(p, j, pair)'
    BY <1>1, <1>2, <1>3 DEF Owes, Awaits, InHand, Applying, Job
  <1> QED  BY <1>1, <1>2, <1>3, PendingStep

LEMMA ReadOldPending == ASSUME RunInv, PendingInv, NEW p \in Procs, ReadOld(p) PROVE PendingInv'
  <1>1. /\ at[p] = "old" /\ at' = [at EXCEPT ![p] = "observe"]
        /\ UNCHANGED <<normalized, aborts, active, coactive, observation, derive, pairs>>
    BY DEF ReadOld, Deriving, Goto, runnerVars, derived
  <1>2. at'[p] = "observe" /\ \A q \in Procs \ {p} : at'[q] = at[q]
    BY <1>1 DEF RunInv, Types
  <1>3. ASSUME NEW j \in Jobs, NEW pair \in PairsOf(j, normalized), Owes(p, j, pair) PROVE Owes(p, j, pair)'
    BY <1>1, <1>2, <1>3 DEF Owes, Awaits, InHand, Applying, Job
  <1> QED  BY <1>1, <1>2, <1>3, PendingStep

LEMMA ObservePending == ASSUME RunInv, PendingInv, NEW p \in Procs, Observe(p) PROVE PendingInv'
  <1>1. PICK x \in Pairs, k \in Jobs : x = Pair(p) /\ k = Job(p)
    BY PairFacts, DeriveFacts DEF Observe, OfPair
  <1>2. /\ at[p] = "observe" /\ at' = [at EXCEPT ![p] = "count"]
        /\ observation' = [observation EXCEPT ![x][k] = outcome[p]]
        /\ UNCHANGED <<normalized, aborts, active, coactive, derive, pairs>>
    BY <1>1 DEF Observe, Deriving, Goto, runnerVars
  <1>3. at'[p] = "count" /\ \A q \in Procs \ {p} : at'[q] = at[q]
    BY <1>2 DEF RunInv, Types
  <1>4. outcome[p] # None
    BY NoneIsNew DEF RunInv, Types
  <1>5. /\ observation'[x][k] # None
        /\ \A pair \in Pairs, j \in Jobs : observation[pair][j] # None => observation'[pair][j] # None
    BY <1>2, <1>4 DEF RunInv, Types
  <1>6. Range(pairs[p]) = {x} \cup Range(Tail(pairs[p]))
    BY <1>1, PairFacts DEF Observe, OfPair
  <1>7. ASSUME NEW j \in Jobs, NEW pair \in PairsOf(j, normalized), Owes(p, j, pair)
        PROVE  Done(j, pair)' \/ Owes(p, j, pair)'
    <2>1. CASE Awaits(p, j)
      <3>1. Awaits(p, j)'
        BY <1>2, <1>3, <2>1 DEF Awaits, Applying
      <3> QED  BY <3>1 DEF Owes
    <2>2. CASE InHand(p, j, pair) /\ pair = x
      <3>1. j = k /\ pair \in coactive[j]
        BY <1>1, <1>2, <2>2 DEF InHand
      <3> QED  BY <1>2, <1>5, <2>2, <3>1 DEF Done
    <2>3. CASE InHand(p, j, pair) /\ pair # x
      <3>1. InHand(p, j, pair)'
        BY <1>2, <1>3, <1>6, <2>3 DEF InHand, Applying, Job
      <3> QED  BY <3>1 DEF Owes
    <2> QED  BY <1>7, <2>1, <2>2, <2>3 DEF Owes
  <1> QED  BY <1>2, <1>3, <1>5, <1>7, PendingStep

LEMMA PendingInvariance == Spec => []PendingInv
  <1>1. Init => PendingInv
    <2> SUFFICES ASSUME Init, NEW j \in Jobs, NEW pair \in PairsOf(j, normalized) PROVE FALSE
      BY DEF PendingInv
    <2>1. ZonesOf(j, normalized) = {}
      BY DEF Init, RunnerInit, ZonesOf, EventsOf
    <2>2. pair = {} /\ Cardinality(pair) = 2
      BY <2>1 DEF PairsOf, Pairs
    <2> QED  BY <2>2, FS_EmptySet
  <1>2. ASSUME RunInv, TouchInv, PendingInv, [Next]_vars PROVE PendingInv'
    <2>1. CASE UNCHANGED <<normalized, aborts, derived, local>>
      BY <1>2, <2>1 DEF derived, local, PendingInv, Done, Owes, Awaits, InHand, Job, PairsOf, ZonesOf, EventsOf
    <2>2. ASSUME NEW p \in Procs, Apply(p) PROVE PendingInv'
      BY <1>2, <2>2, ApplyPending, MarkPending DEF Apply
    <2>3. ASSUME NEW p \in Procs, Derive(p) PROVE PendingInv'
      BY <1>2, <2>3, DeriveZonesPending, DerivePairsPending, InferOutcomePending, ListPairsPending,
        EnsureAssociationPending, ReadOldPending, ObservePending, CountPending DEF Derive
    <2>4. ASSUME NEW p \in Procs, Abort(p) PROVE PendingInv'
      <3>1. aborts' = aborts + 1 /\ aborts \in Nat
        BY <1>2, <2>4, RunnerAssumption DEF Abort, AbortRun, RunInv, Types
      <3>2. aborts' # 0
        BY <3>1
      <3> QED  BY <3>2 DEF PendingInv
    <2>5. \/ UNCHANGED <<normalized, aborts, derived, local>>
          \/ \E p \in Procs : Apply(p) \/ Derive(p) \/ Abort(p)
      BY <1>2 DEF Next, vars, Record, RecordEvent, Start, ListEvents, Return, EndRun, runnerVars
    <2> QED  BY <2>1, <2>2, <2>3, <2>4, <2>5
  <1> QED  BY <1>1, <1>2, RunInvariance, TouchInvariance, PTL DEF Spec

\* No command is left with a better status than its normalized events say, and no pair of
\* zones they touch is left underived by any interleaving of runs that all return.
THEOREM RowsFollow == Spec => []RowsFollowEvents
  <1>1. ASSUME RunInv, CommandInv PROVE CommandsAreWorstSeen
    <2> SUFFICES ASSUME NEW j \in Jobs, NEW c \in Commands
                 PROVE  /\ commands[j][c] \in StatusesOf(j, c, recorded) \cup {None}
                        /\ \A status \in StatusesOf(j, c, normalized) :
                             Severity(commands[j][c]) >= Severity(status)
                        /\ c \in Deploying => Severity(deployments[j][c]) <= Severity(commands[j][c])
      BY DEF CommandsAreWorstSeen
    <2>1. ASSUME NEW status \in StatusesOf(j, c, normalized)
          PROVE  Severity(commands[j][c]) >= Severity(status)
      <3>1. PICK e \in normalized : Facts[e].job = j /\ Facts[e].command = c /\ status = Facts[e].status
        BY <2>1 DEF StatusesOf, EventsOf
      <3> QED  BY <1>1, <3>1, NoneIsNew DEF CommandInv, CommandWritten
    <2> QED  BY <1>1, <2>1 DEF CommandInv, RowsAreSeen, DeploymentsAreBounded
  <1>2. ASSUME RunInv, PendingInv PROVE NormalizedIsDerived
    <2> SUFFICES ASSUME running = {}, aborts = 0, NEW j \in Jobs, NEW pair \in PairsOf(j, normalized)
                 PROVE  Done(j, pair)
      BY DEF NormalizedIsDerived, Done
    <2>1. ASSUME NEW p \in Procs PROVE ~Owes(p, j, pair)
      <3>1. batch[p] = <<>> /\ at[p] \in {"job"} /\ derive[p] = <<>>
        BY <1>2 DEF RunInv, Types, Control, Working, Applying
      <3> QED  BY <3>1, EmptyRange DEF Owes, Awaits, InHand, Applying
    <2> QED  BY <1>2, <2>1 DEF PendingInv
  <1> QED  BY <1>1, <1>2, RunInvariance, CommandInvariance, PendingInvariance, PTL DEF RowsFollowEvents

-----------------------------------------------------------------------------
(* The tables of the derivation follow from one another.                   *)

\* Zones are active where they were touched, pairs of them are coactive where both are
\* active, and only coactive pairs are observed.
RowsFollowRows ==
  \A j \in Jobs : /\ active[j] \subseteq touched[j]
                  /\ \A pair \in coactive[j] : pair \subseteq active[j]
                  /\ \A pair \in Pairs : observation[pair][j] # None => pair \in coactive[j]

\* The pairs that a process goes through are coactive in its job.
Listed(p) == at[p] \in OfPair => \E j \in Jobs : j = Job(p) /\ Range(pairs[p]) \subseteq coactive[j]

RowInv == RowsFollowRows /\ \A p \in Procs : Listed(p)

\* The pairs of the other processes stay coactive.
LEMMA RowStep ==
  ASSUME RunInv, RowInv, RowsFollowRows', \A j \in Jobs : coactive[j] \subseteq coactive'[j],
         NEW p \in Procs, Listed(p)',
         \A q \in Procs \ {p} : at'[q] = at[q] /\ derive'[q] = derive[q] /\ pairs'[q] = pairs[q]
  PROVE  RowInv'
  <1>1. ASSUME NEW q \in Procs \ {p}, at'[q] \in OfPair
        PROVE  \E j \in Jobs : j = Job(q)' /\ Range(pairs[q])' \subseteq coactive'[j]
    <2>1. PICK j \in Jobs : j = Job(q) /\ Range(pairs[q]) \subseteq coactive[j]
      BY <1>1 DEF RowInv, Listed
    <2> QED  BY <2>1 DEF Job
  <1> QED  BY <1>1 DEF RowInv, Listed

\* The steps of the derivation that write rows.
LEMMA DeriveRows ==
  ASSUME RunInv, RunInv', RowInv, NEW p \in Procs, DeriveZones(p) \/ DerivePairs(p) \/ Observe(p)
  PROVE  RowInv'
  <1>1. touched' = touched /\ \A q \in Procs \ {p} : at'[q] = at[q]
    BY DEF DeriveZones, DerivePairs, Observe, Goto, facts, RunInv, Types
  <1>2. UNCHANGED <<derive, pairs>>
    BY DEF DeriveZones, DerivePairs, Observe
  <1>3. CASE DeriveZones(p)
    <2>1. PICK k \in Jobs : k = Job(p)
      BY <1>3, DeriveFacts DEF DeriveZones
    <2>2. /\ active' = [active EXCEPT ![k] = @ \cup touched[k]] /\ at'[p] = "pairs"
          /\ UNCHANGED <<coactive, observation>>
      BY <1>3, <2>1 DEF DeriveZones, Goto, RunInv, Types
    <2>3. \A j \in Jobs : active[j] \subseteq active'[j] /\ active'[j] \subseteq touched[j]
      BY <2>2 DEF RunInv, Types, RowInv, RowsFollowRows
    <2>4. RowsFollowRows'
      BY <1>1, <2>2, <2>3 DEF RowInv, RowsFollowRows
    <2>5. Listed(p)'
      BY <2>2 DEF Listed, OfPair
    <2> QED  BY <1>1, <1>2, <2>2, <2>4, <2>5, RowStep
  <1>4. CASE DerivePairs(p)
    <2>1. PICK k \in Jobs : k = Job(p)
      BY <1>4, DeriveFacts DEF DerivePairs
    <2>2. /\ coactive' = [coactive EXCEPT ![k] = @ \cup {pair \in Pairs : pair \subseteq active[k]}]
          /\ at'[p] = "outcome" /\ UNCHANGED <<active, observation>>
      BY <1>4, <2>1 DEF DerivePairs, Goto, RunInv, Types
    <2>3. \A j \in Jobs : coactive[j] \subseteq coactive'[j] /\ \A pair \in coactive'[j] : pair \subseteq active[j]
      BY <2>2 DEF RunInv, Types, RowInv, RowsFollowRows
    <2>4. RowsFollowRows'
      BY <1>1, <2>2, <2>3 DEF RowInv, RowsFollowRows
    <2>5. Listed(p)'
      BY <2>2 DEF Listed, OfPair
    <2> QED  BY <1>1, <1>2, <2>3, <2>4, <2>5, RowStep
  <1>5. CASE Observe(p)
    <2>1. PICK x \in Pairs, k \in Jobs : x = Pair(p) /\ k = Job(p)
      BY <1>5, PairFacts, DeriveFacts DEF Observe, OfPair
    <2>2. /\ observation' = [observation EXCEPT ![x][k] = outcome[p]]
          /\ at[p] = "observe" /\ UNCHANGED <<active, coactive>>
      BY <1>5, <2>1 DEF Observe, Deriving
    <2>3. x \in Range(pairs[p])
      BY <1>5, <2>1, PairFacts DEF Observe, OfPair
    <2>4. Range(pairs[p]) \subseteq coactive[k]
      BY <2>1, <2>2 DEF RowInv, Listed, OfPair
    <2>5. \A j \in Jobs, pair \in Pairs : observation'[pair][j] # None => pair \in coactive[j]
      BY <2>2, <2>3, <2>4 DEF RunInv, Types, RowInv, RowsFollowRows
    <2>6. RowsFollowRows'
      BY <1>1, <2>2, <2>5 DEF RowInv, RowsFollowRows
    <2>7. Listed(p)'
      BY <1>2, <2>1, <2>2, <2>4 DEF Listed, Job
    <2> QED  BY <1>1, <1>2, <2>2, <2>6, <2>7, RowStep
  <1> QED  BY <1>3, <1>4, <1>5

\* A process that goes on with coactive pairs.
LEMMA WithPairsRows ==
  ASSUME RunInv, RunInv', RowInv, NEW p \in Procs, NEW k \in Jobs, k = Job(p),
         NEW left \in Seq(Pairs), WithPairs(p, left), Range(left) \subseteq coactive[k],
         UNCHANGED <<touched, active, coactive, observation>>
  PROVE  RowInv'
  <1>1. Listed(p)'
    <2>1. CASE left = <<>>
      <3>1. at'[p] \notin OfPair
        BY <2>1 DEF WithPairs, Goto, RunInv, Types, OfPair
      <3> QED  BY <3>1 DEF Listed
    <2>2. CASE left # <<>>
      <3>1. derive' = derive /\ pairs'[p] = left
        BY <2>2 DEF WithPairs, RunInv, Types
      <3>2. k = Job(p)' /\ Range(pairs[p])' \subseteq coactive'[k]
        BY <3>1 DEF Job
      <3> QED  BY <3>2 DEF Listed
    <2> QED  BY <2>1, <2>2
  <1>2. \A q \in Procs \ {p} : at'[q] = at[q] /\ derive'[q] = derive[q] /\ pairs'[q] = pairs[q]
    BY DEF WithPairs, Goto, RunInv, Types
  <1>3. RowsFollowRows'
    BY DEF RowInv, RowsFollowRows
  <1> QED  BY <1>1, <1>2, <1>3, RowStep

LEMMA ListPairsRows ==
  ASSUME RunInv, RunInv', RowInv, NEW p \in Procs, ListPairs(p) PROVE RowInv'
  <1>1. PICK k \in Jobs : k = Job(p)
    BY DeriveFacts DEF ListPairs
  <1>2. coactive[k] \subseteq Pairs /\ IsFiniteSet(coactive[k])
    BY PairsFinite, FS_Subset DEF RunInv, Types
  <1>3. PICK left \in Seq(Pairs) : left = SetToSeq(coactive[k]) /\ Range(left) = coactive[k]
    BY <1>2, ListedInOrder, SeqMonotonic
  <1>4. WithPairs(p, left) /\ UNCHANGED <<touched, active, coactive, observation>>
    BY <1>1, <1>3 DEF ListPairs, facts, derived
  <1> QED  BY <1>1, <1>3, <1>4, WithPairsRows

LEMMA CountRows ==
  ASSUME RunInv, RunInv', RowInv, NEW p \in Procs, Count(p) PROVE RowInv'
  <1>1. PICK left \in Seq(Pairs) : left = Tail(pairs[p]) /\ Range(left) \subseteq Range(pairs[p])
    BY PairFacts DEF Count, OfPair
  <1>2. at[p] \in OfPair /\ WithPairs(p, left) /\ UNCHANGED <<touched, active, coactive, observation>>
    BY <1>1 DEF Count, Deriving, OfPair, facts
  <1>3. PICK k \in Jobs : k = Job(p) /\ Range(pairs[p]) \subseteq coactive[k]
    BY <1>2 DEF RowInv, Listed
  <1> QED  BY <1>1, <1>2, <1>3, WithPairsRows

\* The steps that write none of these tables, or only the first.
LEMMA OtherRows ==
  ASSUME RunInv, RunInv', RowInv, NEW p \in Procs,
         Apply(p) \/ InferOutcome(p) \/ EnsureAssociation(p) \/ ReadOld(p) \/ Abort(p)
  PROVE  RowInv'
  <1>1. \A j \in Jobs : touched[j] \subseteq touched'[j]
    <2>1. CASE RecordPaths(p)
      BY <2>1 DEF RecordPaths, RunInv, Types
    <2>2. CASE ~RecordPaths(p)
      BY <2>2 DEF Apply, RecordJob, RecordCommand, RecordDeployment, Mark, InferOutcome, EnsureAssociation, ReadOld,
        Abort, facts
    <2> QED  BY <2>1, <2>2
  <1>2. UNCHANGED <<active, coactive, observation>>
    BY DEF Apply, RecordJob, RecordCommand, RecordDeployment, RecordPaths, Mark, InferOutcome, EnsureAssociation,
      ReadOld, Abort, derived
  <1>3. RowsFollowRows'
    BY <1>1, <1>2 DEF RowInv, RowsFollowRows
  <1>4. \A q \in Procs \ {p} : at'[q] = at[q] /\ derive'[q] = derive[q] /\ pairs'[q] = pairs[q]
    BY DEF Apply, RecordJob, RecordCommand, RecordDeployment, RecordPaths, Mark, InferOutcome, EnsureAssociation,
      ReadOld, Abort, Goto, RunInv, Types
  <1>5. Listed(p)'
    <2>1. CASE Apply(p) \/ InferOutcome(p) \/ Abort(p)
      <3>1. at'[p] \notin OfPair
        BY <2>1 DEF Apply, RecordJob, RecordCommand, RecordDeployment, RecordPaths, Mark, InferOutcome, Abort, Goto,
          RunInv, Types, OfPair
      <3> QED  BY <3>1 DEF Listed
    <2>2. CASE EnsureAssociation(p) \/ ReadOld(p)
      <3>1. at[p] \in OfPair /\ UNCHANGED <<derive, pairs>>
        BY <2>2 DEF EnsureAssociation, ReadOld, Deriving, OfPair
      <3> QED  BY <1>2, <3>1 DEF RowInv, Listed, Job
    <2> QED  BY <2>1, <2>2
  <1> QED  BY <1>2, <1>3, <1>4, <1>5, RowStep

LEMMA RowInvariance == Spec => []RowInv
  <1>1. Init => RowInv
    BY DEF Init, RowInv, RowsFollowRows, Listed, OfPair
  <1>2. ASSUME RunInv, RunInv', RowInv, [Next]_vars PROVE RowInv'
    <2>1. CASE UNCHANGED <<touched, derived, local>>
      BY <1>2, <2>1 DEF derived, local, RowInv, RowsFollowRows, Listed, Job
    <2>2. ASSUME NEW p \in Procs, Apply(p) \/ Derive(p) \/ Abort(p) PROVE RowInv'
      BY <1>2, <2>2, DeriveRows, ListPairsRows, CountRows, OtherRows DEF Derive
    <2>3. \/ UNCHANGED <<touched, derived, local>>
          \/ \E p \in Procs : Apply(p) \/ Derive(p) \/ Abort(p)
      BY <1>2 DEF Next, vars, Record, Start, Return, facts
    <2> QED  BY <2>1, <2>2, <2>3
  <1> QED  BY <1>1, <1>2, RunInvariance, PTL DEF Spec

-----------------------------------------------------------------------------
(* The counters of a process that works alone and is never cut off.        *)

\* The events whose facts the tables may hold.
Begun(p) == normalized \cup {e \in recorded : at[p] \in {"deploy", "paths", "mark"} /\ e = Current(p)}

\* What the tables hold follows from these events.
FromEvents(events) ==
  \A j \in Jobs : /\ touched[j] \subseteq ZonesOf(j, events)
                  /\ \A c \in Commands : commands[j][c] \in StatusesOf(j, c, events) \cup {None}

Inferred(j) == Infer(Range(commands[j]) \ {None})

\* A pair that the process is still to observe again with the outcome of the job.
Unsettled(p, j, pair) ==
  \/ Awaits(p, j)
  \/ /\ at[p] \notin Applying \cup {"zones"} /\ Job(p) = j
     /\ at[p] \in {"ensure", "old", "observe"} => pair \in Range(pairs[p])
     /\ at[p] = "count" => pair \in Range(Tail(pairs[p]))

Settled(p) ==
  /\ at[p] \in {"list"} \cup OfPair => \E j \in Jobs : j = Job(p) /\ outcome[p] = Inferred(j)
  /\ \A j \in Jobs, pair \in Pairs : observation[pair][j] \in {None, Inferred(j)} \/ Unsettled(p, j, pair)

\* The observations of a pair as they have been counted.
Tallied(p, pair) ==
  [j \in Jobs |-> IF at[p] = "count" /\ pair = Pair(p) /\ j = Job(p) THEN old[p] ELSE observation[pair][j]]
With(f, value) == {j \in Jobs : f[j] = value}

TalliedBy(f, pair) ==
  /\ Support(pair) + Cardinality(With(f, None)) = Cardinality(Jobs)
  /\ association[pair] # None => /\ association[pair].positive = Cardinality(With(f, "positive"))
                                 /\ association[pair].negative = Cardinality(With(f, "negative"))

\* What the process read and wrote of the pair in its hands.
Holds(p) ==
  at[p] \in {"observe", "count"} => \E pair \in Pairs, j \in Jobs :
    /\ pair = Pair(p) /\ j = Job(p)
    /\ observation[pair][j] = IF at[p] = "observe" THEN old[p] ELSE outcome[p]

Tallies(p) == Holds(p) /\ \A pair \in Pairs : TalliedBy(Tallied(p, pair), pair)

SoloInv(p) == aborts = 0 => FromEvents(Begun(p)) /\ Settled(p) /\ Tallies(p)

LEMMA MoreEvents ==
  ASSUME NEW older, NEW newer, older \subseteq newer, NEW j
  PROVE  /\ ZonesOf(j, older) \subseteq ZonesOf(j, newer)
         /\ \A c : StatusesOf(j, c, older) \subseteq StatusesOf(j, c, newer)
  <1>1. EventsOf(j, older) \subseteq EventsOf(j, newer)
    BY DEF EventsOf
  <1>2. ZonesOf(j, older) \subseteq ZonesOf(j, newer)
    BY <1>1 DEF ZonesOf
  <1>3. ASSUME NEW c PROVE StatusesOf(j, c, older) \subseteq StatusesOf(j, c, newer)
    BY <1>1 DEF StatusesOf
  <1> QED  BY <1>2, <1>3

LEMMA BegunGrows ==
  ASSUME RunInv, NEW p \in Procs,
         (\E e \in Events : Record(e)) \/ Start(p) \/ Apply(p) \/ Derive(p) \/ Return(p)
  PROVE  Begun(p) \subseteq Begun(p)'
  <1>1. CASE \E e \in Events : Record(e)
    BY <1>1 DEF Record, RecordEvent, local, Begun, Current
  <1>2. CASE Start(p)
    <2>1. at[p] \notin {"deploy", "paths", "mark"} /\ normalized' = normalized
      BY <1>2 DEF Start, ListEvents, RunInv, Control, Working, Applying
    <2> QED  BY <2>1 DEF Begun
  <1>3. CASE Apply(p)
    <2>1. CASE RecordJob(p) \/ RecordCommand(p)
      <3>1. at[p] \notin {"deploy", "paths", "mark"} /\ normalized' = normalized
        BY <2>1 DEF RecordJob, RecordCommand, Recording, runnerVars
      <3> QED  BY <3>1 DEF Begun
    <2>2. CASE RecordDeployment(p) \/ RecordPaths(p)
      <3>1. UNCHANGED <<recorded, normalized, batch>> /\ at'[p] \in {"deploy", "paths", "mark"}
        BY <2>2 DEF RecordDeployment, RecordPaths, Goto, runnerVars, RunInv, Types
      <3> QED  BY <3>1 DEF Begun, Current
    <2>3. CASE Mark(p)
      BY <2>3 DEF Mark, MarkNormalized, Begun
    <2> QED  BY <1>3, <2>1, <2>2, <2>3 DEF Apply
  <1>4. CASE Derive(p)
    <2>1. at[p] \notin {"deploy", "paths", "mark"} /\ normalized' = normalized
      BY <1>4 DEF Derive, DeriveZones, DerivePairs, InferOutcome, ListPairs, EnsureAssociation, ReadOld, Observe,
        Count, Deriving, runnerVars
    <2> QED  BY <2>1 DEF Begun
  <1>5. CASE Return(p)
    BY <1>5 DEF Return, EndRun, local, Begun, Current
  <1> QED  BY <1>1, <1>2, <1>3, <1>4, <1>5

LEMMA RecordCommandEvents ==
  ASSUME RunInv, RunInv', CommandInv, NEW p \in Procs, FromEvents(Begun(p)), RecordCommand(p) PROVE FromEvents(Begun(p))'
  <1>1. Working(p) /\ at[p] = "command" /\ Fact(p).command # None
    BY DEF RecordCommand, Recording, CommandInv, Written
  <1>2. PICK e \in recorded : e = Current(p)
    BY <1>1, ApplyFacts
  <1>3. PICK j \in Jobs, c \in Commands, status \in CommandStatuses :
          j = Facts[e].job /\ c = Facts[e].command /\ status = Facts[e].status
    BY <1>1, <1>2, FactTypes DEF Fact, RunInv, Types
  <1>4. /\ commands' = [commands EXCEPT ![j][c] = Merge(@, status)]
        /\ at' = [at EXCEPT ![p] = IF c \in Deploying THEN "deploy" ELSE "paths"]
        /\ UNCHANGED <<recorded, normalized, batch, touched>>
    BY <1>2, <1>3 DEF RecordCommand, Goto, Fact, runnerVars
  <1>5. at'[p] \in {"deploy", "paths"}
    BY <1>4 DEF RunInv, Types
  <1>6. PICK older, newer : older = Begun(p) /\ newer = Begun(p)'
    OBVIOUS
  <1>7. older \subseteq newer /\ e \in newer
    BY <1>1, <1>2, <1>4, <1>5, <1>6 DEF Begun, Current
  <1>8. ASSUME NEW k \in Jobs, NEW d \in Commands
        PROVE  commands'[k][d] \in StatusesOf(k, d, newer) \cup {None}
    <2>1. commands[k][d] \in StatusesOf(k, d, newer) \cup {None}
      BY <1>6, <1>7, MoreEvents DEF FromEvents
    <2>2. CASE k = j /\ d = c
      <3>1. status \in StatusesOf(j, c, newer)
        BY <1>3, <1>7 DEF StatusesOf, EventsOf
      <3>2. commands'[j][c] \in {commands[j][c], status}
        <4>1. commands[j][c] \in CommandStatuses \cup {None}
          BY DEF RunInv, Types
        <4>2. commands'[j][c] = Merge(commands[j][c], status)
          BY <1>4 DEF RunInv, Types
        <4> QED  BY <4>1, <4>2, MergeIsWorst
      <3> QED  BY <2>1, <2>2, <3>1, <3>2
    <2>3. CASE ~(k = j /\ d = c)
      <3>1. commands'[k][d] = commands[k][d]
        BY <1>4, <2>3 DEF RunInv, Types
      <3> QED  BY <2>1, <3>1
    <2> QED  BY <2>2, <2>3
  <1>9. \A k \in Jobs : ZonesOf(k, older) \subseteq ZonesOf(k, newer)
    BY <1>7, MoreEvents
  <1>10. FromEvents(newer)'
    BY <1>4, <1>6, <1>8, <1>9 DEF FromEvents
  <1> QED  BY <1>5, <1>6, <1>10

LEMMA RecordPathsEvents ==
  ASSUME RunInv, RunInv', NEW p \in Procs, FromEvents(Begun(p)), RecordPaths(p) PROVE FromEvents(Begun(p))'
  <1>1. PICK e \in recorded : e = Current(p)
    BY ApplyFacts DEF RecordPaths, Recording
  <1>2. PICK j \in Jobs, zones \in SUBSET Zones : j = Facts[e].job /\ zones = Facts[e].zones
    BY <1>1, FactTypes DEF RunInv, Types
  <1>3. /\ touched' = [touched EXCEPT ![j] = @ \cup zones]
        /\ at[p] = "paths" /\ at' = [at EXCEPT ![p] = "mark"]
        /\ UNCHANGED <<recorded, normalized, batch, commands>>
    BY <1>1, <1>2 DEF RecordPaths, Recording, Goto, Fact, runnerVars
  <1>4. PICK events : events = Begun(p)
    OBVIOUS
  <1>5. Begun(p)' = events /\ e \in events /\ at'[p] = "mark"
    BY <1>1, <1>3, <1>4 DEF Begun, Current, RunInv, Types
  <1>6. ASSUME NEW k \in Jobs PROVE touched[k] \subseteq touched'[k] /\ touched'[k] \subseteq ZonesOf(k, events)
    <2>1. touched[k] \subseteq ZonesOf(k, events)
      BY <1>4 DEF FromEvents
    <2>2. CASE k = j
      <3>1. zones \subseteq ZonesOf(j, events)
        BY <1>2, <1>5 DEF ZonesOf, EventsOf
      <3> QED  BY <1>3, <2>1, <2>2, <3>1 DEF RunInv, Types
    <2>3. CASE k # j
      BY <1>3, <2>1, <2>3 DEF RunInv, Types
    <2> QED  BY <2>2, <2>3
  <1>7. FromEvents(events)'
    BY <1>3, <1>4, <1>6 DEF FromEvents
  <1> QED  BY <1>5, <1>7

LEMMA OtherEvents ==
  ASSUME RunInv, NEW p \in Procs, FromEvents(Begun(p)),
         \/ \E e \in Events : Record(e)
         \/ Start(p) \/ RecordJob(p) \/ RecordDeployment(p) \/ Mark(p) \/ Derive(p) \/ Return(p)
  PROVE  FromEvents(Begun(p))'
  <1>1. UNCHANGED <<touched, commands>>
    BY DEF Record, Start, RecordJob, RecordDeployment, Mark, Derive, DeriveZones, DerivePairs, InferOutcome,
      ListPairs, EnsureAssociation, ReadOld, Observe, Count, Return, facts
  <1>2. PICK older, newer : older = Begun(p) /\ newer = Begun(p)'
    OBVIOUS
  <1>3. older \subseteq newer
    BY <1>2, BegunGrows DEF Apply
  <1>4. \A j \in Jobs : ZonesOf(j, older) \subseteq ZonesOf(j, newer)
    BY <1>3, MoreEvents
  <1>5. \A j \in Jobs, c \in Commands : StatusesOf(j, c, older) \subseteq StatusesOf(j, c, newer)
    BY <1>3, MoreEvents
  <1>6. FromEvents(newer)'
    BY <1>1, <1>2, <1>4, <1>5 DEF FromEvents
  <1> QED  BY <1>2, <1>6

-----------------------------------------------------------------------------
\* A process that goes on with the pairs that are still to be observed leaves the others settled.
LEMMA WithPairsSettled ==
  ASSUME RunInv, RunInv', NEW p \in Procs, Settled(p), NEW left \in Seq(Pairs), WithPairs(p, left),
         NEW stage \in {"list", "count"}, Deriving(p, stage), UNCHANGED <<commands, observation, outcome>>,
         \A j \in Jobs, pair \in Pairs :
           Unsettled(p, j, pair) /\ observation[pair][j] # None => Awaits(p, j) \/ (Job(p) = j /\ pair \in Range(left))
  PROVE  Settled(p)'
  <1> DEFINE next == IF left # <<>> THEN "ensure" ELSE IF Len(derive[p]) = 1 THEN "job" ELSE "zones"
             jobs == IF left = <<>> THEN Tail(derive[p]) ELSE derive[p]
  <1>1. /\ pairs' = [pairs EXCEPT ![p] = left] /\ derive' = [derive EXCEPT ![p] = jobs]
        /\ at' = [at EXCEPT ![p] = next] /\ at[p] = stage
    BY DEF WithPairs, Goto, Deriving, RunInv, Types
  <1>2. at'[p] = next /\ pairs'[p] = left /\ derive'[p] = jobs
    BY <1>1 DEF RunInv, Types
  <1>3. ASSUME at'[p] \in {"list"} \cup OfPair PROVE \E j \in Jobs : j = Job(p)' /\ outcome'[p] = Inferred(j)'
    <2>1. left # <<>>
      BY <1>2, <1>3 DEF OfPair
    <2>2. derive'[p] = derive[p]
      BY <1>2, <2>1
    <2>3. PICK j \in Jobs : j = Job(p) /\ outcome[p] = Inferred(j)
      BY <1>1 DEF Settled, OfPair
    <2> QED  BY <2>2, <2>3 DEF Job, Inferred
  <1>4. ASSUME NEW j \in Jobs, NEW pair \in Pairs
        PROVE  observation'[pair][j] \in {None, Inferred(j)'} \/ Unsettled(p, j, pair)'
    <2> SUFFICES ASSUME observation[pair][j] \notin {None, Inferred(j)} PROVE Unsettled(p, j, pair)'
      BY DEF Inferred
    <2>1. Awaits(p, j) \/ (Job(p) = j /\ pair \in Range(left))
      BY DEF Settled
    <2>2. CASE Awaits(p, j)
      <3>1. j \in Range(Tail(derive[p]))
        BY <1>1, <2>2 DEF Awaits, Applying
      <3>2. CASE left = <<>>
        <4>1. next \in Applying \cup {"zones"} /\ jobs = Tail(derive[p])
          BY <3>2 DEF Applying
        <4>2. Awaits(p, j)'
          BY <1>2, <3>1, <4>1 DEF Awaits
        <4> QED  BY <4>2 DEF Unsettled
      <3>3. CASE left # <<>>
        <4>1. next = "ensure" /\ jobs = derive[p]
          BY <3>3
        <4>2. Awaits(p, j)'
          BY <1>2, <3>1, <4>1 DEF Awaits, Applying
        <4> QED  BY <4>2 DEF Unsettled
      <3> QED  BY <3>2, <3>3
    <2>3. CASE Job(p) = j /\ pair \in Range(left)
      <3>1. left # <<>>
        BY <2>3, EmptyRange
      <3>2. at'[p] = "ensure" /\ derive'[p] = derive[p]
        BY <1>2, <3>1
      <3> QED  BY <1>2, <2>3, <3>2 DEF Unsettled, Job, Applying
    <2> QED  BY <2>1, <2>2, <2>3
  <1> QED  BY <1>3, <1>4 DEF Settled

\* While a process applies events, every job it met is unsettled.
LEMMA ApplySettled ==
  ASSUME RunInv, RunInv', NEW p \in Procs, Settled(p), Apply(p) PROVE Settled(p)'
  <1>1. PICK next \in Applying \cup {"zones"} : at' = [at EXCEPT ![p] = next]
    BY DEF Apply, RecordJob, RecordCommand, RecordDeployment, RecordPaths, Mark, Goto, Applying
  <1>2. at[p] \in Applying /\ at'[p] \in Applying \cup {"zones"}
    BY <1>1 DEF Apply, RecordJob, RecordCommand, RecordDeployment, RecordPaths, Mark, Recording, Applying,
      RunInv, Types
  <1>3. Range(derive[p]) \subseteq Range(derive'[p])
    <2>1. CASE RecordJob(p)
      <3>1. derive'[p] = derive[p] \o Met(p)
        BY <2>1 DEF RecordJob, RunInv, Types
      <3>2. PICK job \in Jobs : job = Fact(p).job
        BY <2>1, ApplyFacts DEF RecordJob, Recording
      <3>3. CASE job \in Range(derive[p])
        <4>1. derive'[p] = derive[p]
          BY <3>1, <3>2, <3>3, ConcatEmptySeq DEF Met, RunInv, Types
        <4> QED  BY <4>1
      <3>4. CASE job \notin Range(derive[p])
        <4>1. derive'[p] = derive[p] \o <<job>>
          BY <3>1, <3>2, <3>4 DEF Met
        <4> QED  BY <4>1, AppendedRange DEF RunInv, Types
      <3> QED  BY <3>3, <3>4
    <2>2. CASE ~RecordJob(p)
      BY <2>2 DEF Apply, RecordCommand, RecordDeployment, RecordPaths, Mark
    <2> QED  BY <2>1, <2>2
  <1>4. ASSUME NEW j \in Jobs, j \in Range(derive[p]), NEW pair PROVE Unsettled(p, j, pair)'
    BY <1>2, <1>3, <1>4 DEF Unsettled, Awaits
  <1>5. ASSUME NEW j \in Jobs, NEW pair \in Pairs
        PROVE  observation'[pair][j] \in {None, Inferred(j)'} \/ Unsettled(p, j, pair)'
    <2>1. observation' = observation
      BY DEF Apply, RecordJob, RecordCommand, RecordDeployment, RecordPaths, Mark, derived
    <2>2. CASE j \in Range(derive[p])
      BY <1>4, <2>2
    <2>3. CASE j \notin Range(derive[p])
      <3>1. ~Unsettled(p, j, pair)
        BY <1>2, <2>3 DEF Unsettled, Awaits
      <3>2. observation[pair][j] \in {None, Inferred(j)}
        BY <3>1 DEF Settled
      <3>3. commands'[j] = commands[j]
        <4>1. CASE RecordCommand(p)
          <5>1. PICK k \in Jobs : k = Fact(p).job /\ k \in Range(derive[p])
            BY <4>1, ApplyFacts DEF RecordCommand, Recording, RunInv, Control, Applying
          <5>2. commands' = [commands EXCEPT ![k][Fact(p).command] = Merge(@, Fact(p).status)] /\ k # j
            BY <2>3, <4>1, <5>1 DEF RecordCommand
          <5> QED  BY <5>2 DEF RunInv, Types
        <4>2. CASE ~RecordCommand(p)
          BY <4>2 DEF Apply, RecordJob, RecordDeployment, RecordPaths, Mark, facts
        <4> QED  BY <4>1, <4>2
      <3> QED  BY <2>1, <3>2, <3>3 DEF Inferred
    <2> QED  BY <2>2, <2>3
  <1>6. at'[p] \notin {"list"} \cup OfPair
    BY <1>2 DEF Applying, OfPair
  <1> QED  BY <1>5, <1>6 DEF Settled

LEMMA DeriveSettled ==
  ASSUME RunInv, RunInv', NEW p \in Procs, Settled(p), DeriveZones(p) \/ DerivePairs(p) \/ InferOutcome(p)
  PROVE  Settled(p)'
  <1>1. PICK k \in Jobs : k = Job(p)
    BY DeriveFacts DEF DeriveZones, DerivePairs, InferOutcome
  <1>2. PICK next \in {"pairs", "outcome", "list"} : at' = [at EXCEPT ![p] = next]
    BY DEF DeriveZones, DerivePairs, InferOutcome, Goto
  <1>3. /\ at[p] \in {"zones", "pairs", "outcome"} /\ at'[p] = next
        /\ UNCHANGED <<observation, commands, derive>>
    BY <1>2 DEF DeriveZones, DerivePairs, InferOutcome, Deriving, facts, derived, RunInv, Types
  <1>4. Range(derive[p]) = {k} \cup Range(Tail(derive[p])) /\ k = Job(p)'
    BY <1>1, <1>3, DeriveFacts DEF DeriveZones, DerivePairs, InferOutcome, Job
  <1>5. ASSUME NEW j \in Jobs, NEW pair \in Pairs, Unsettled(p, j, pair) PROVE Unsettled(p, j, pair)'
    <2>1. j = k \/ j \in Range(Tail(derive[p]))
      BY <1>1, <1>3, <1>4, <1>5 DEF Unsettled, Awaits, Applying
    <2>2. at'[p] \notin Applying \cup {"zones", "ensure", "old", "observe", "count"}
      BY <1>2, <1>3 DEF Applying
    <2> QED  BY <1>3, <1>4, <2>1, <2>2 DEF Unsettled, Awaits
  <1>6. at'[p] \in {"list"} \cup OfPair => \E j \in Jobs : j = Job(p)' /\ outcome'[p] = Inferred(j)'
    <2>1. CASE next = "list"
      <3>1. InferOutcome(p)
        BY <1>2, <1>3, <2>1 DEF DeriveZones, DerivePairs, Goto, RunInv, Types
      <3>2. outcome'[p] = Inferred(k)
        BY <1>1, <3>1 DEF InferOutcome, Inferred, RunInv, Types
      <3> QED  BY <1>3, <1>4, <3>2 DEF Inferred
    <2>2. CASE next # "list"
      BY <1>2, <1>3, <2>2 DEF OfPair
    <2> QED  BY <2>1, <2>2
  <1> QED  BY <1>3, <1>5, <1>6 DEF Settled, Inferred

LEMMA ListPairsSettled ==
  ASSUME RunInv, RunInv', NEW p \in Procs, RowInv, Settled(p), ListPairs(p) PROVE Settled(p)'
  <1>1. PICK k \in Jobs : k = Job(p)
    BY DeriveFacts DEF ListPairs
  <1>2. coactive[k] \subseteq Pairs /\ IsFiniteSet(coactive[k])
    BY PairsFinite, FS_Subset DEF RunInv, Types
  <1>3. PICK left \in Seq(Pairs) : left = SetToSeq(coactive[k]) /\ Range(left) = coactive[k]
    BY <1>2, ListedInOrder, SeqMonotonic
  <1>4. /\ WithPairs(p, left) /\ Deriving(p, "list") /\ UNCHANGED <<commands, observation, outcome>>
    BY <1>1, <1>3 DEF ListPairs, facts, derived
  <1>5. ASSUME NEW j \in Jobs, NEW pair \in Pairs, Unsettled(p, j, pair), observation[pair][j] # None
        PROVE  Awaits(p, j) \/ (Job(p) = j /\ pair \in Range(left))
    <2>1. pair \in coactive[j]
      BY <1>5 DEF RowInv, RowsFollowRows
    <2> QED  BY <1>1, <1>3, <1>5, <2>1 DEF Unsettled
  <1> QED  BY <1>4, <1>5, WithPairsSettled

LEMMA CountSettled ==
  ASSUME RunInv, RunInv', NEW p \in Procs, Settled(p), Count(p) PROVE Settled(p)'
  <1>1. PICK left \in Seq(Pairs) : left = Tail(pairs[p])
    BY PairFacts DEF Count, OfPair
  <1>2. /\ WithPairs(p, left) /\ Deriving(p, "count") /\ UNCHANGED <<commands, observation, outcome>>
    BY <1>1 DEF Count, facts
  <1>3. at[p] = "count"
    BY <1>2 DEF Deriving
  <1>4. ASSUME NEW j \in Jobs, NEW pair \in Pairs, Unsettled(p, j, pair), observation[pair][j] # None
        PROVE  Awaits(p, j) \/ (Job(p) = j /\ pair \in Range(left))
    BY <1>1, <1>3, <1>4 DEF Unsettled
  <1> QED  BY <1>2, <1>4, WithPairsSettled

LEMMA PairSettled ==
  ASSUME RunInv, RunInv', NEW p \in Procs, Settled(p), EnsureAssociation(p) \/ ReadOld(p) \/ Observe(p)
  PROVE  Settled(p)'
  <1>1. PICK x \in Pairs, k \in Jobs : x = Pair(p) /\ k = Job(p)
    BY PairFacts, DeriveFacts DEF EnsureAssociation, ReadOld, Observe, OfPair
  <1>2. /\ Range(pairs[p]) = {x} \cup Range(Tail(pairs[p]))
        /\ at[p] \in {"ensure", "old", "observe"} /\ at'[p] \in {"old", "observe", "count"}
        /\ at'[p] = "count" => Observe(p)
    BY <1>1, PairFacts DEF EnsureAssociation, ReadOld, Observe, OfPair, Deriving, Goto, RunInv, Types
  <1>3. UNCHANGED <<commands, outcome, derive, pairs>>
    BY DEF EnsureAssociation, ReadOld, Observe, facts
  <1>4. outcome[p] = Inferred(k)
    BY <1>1, <1>2 DEF Settled, OfPair
  <1>5. k = Job(p)' /\ outcome'[p] = Inferred(k)'
    BY <1>1, <1>3, <1>4 DEF Job, Inferred
  <1>6. \A j \in Jobs, pair \in Pairs :
          \/ observation'[pair][j] = observation[pair][j]
          \/ Observe(p) /\ pair = x /\ j = k /\ observation'[pair][j] = outcome[p]
    BY <1>1 DEF EnsureAssociation, ReadOld, Observe, derived, RunInv, Types
  <1>7. ASSUME NEW j \in Jobs, NEW pair \in Pairs
        PROVE  observation'[pair][j] \in {None, Inferred(j)'} \/ Unsettled(p, j, pair)'
    <2>1. CASE observation'[pair][j] # observation[pair][j]
      BY <1>4, <1>3, <1>6, <2>1 DEF Inferred
    <2>2. CASE Observe(p) /\ pair = x /\ j = k
      <3>1. observation'[pair][j] = outcome[p]
        BY <1>1, <2>2 DEF Observe, RunInv, Types
      <3> QED  BY <1>3, <1>4, <2>2, <3>1 DEF Inferred
    <2>3. CASE observation'[pair][j] = observation[pair][j] /\ ~(Observe(p) /\ pair = x /\ j = k)
      <3> SUFFICES ASSUME Unsettled(p, j, pair) PROVE Unsettled(p, j, pair)'
        BY <1>3, <2>3 DEF Settled, Inferred
      <3>1. Awaits(p, j) => Awaits(p, j)'
        BY <1>2, <1>3 DEF Awaits, Applying
      <3> QED  BY <1>1, <1>2, <1>3, <1>5, <2>3, <3>1 DEF Unsettled, Applying
    <2> QED  BY <2>1, <2>2, <2>3
  <1> QED  BY <1>5, <1>7 DEF Settled

-----------------------------------------------------------------------------
\* How many jobs have a value, after the value of one of them changed.
LEMMA OneTally ==
  ASSUME NEW f, NEW g, NEW k \in Jobs, \A j \in Jobs \ {k} : g[j] = f[j], NEW value
  PROVE  /\ Cardinality(With(f, value)) \in Nat /\ Cardinality(With(g, value)) \in Nat
         /\ Cardinality(With(g, value)) = Cardinality(With(f, value)) + Is(g[k], value) - Is(f[k], value)
  <1> DEFINE rest == {j \in Jobs \ {k} : f[j] = value}
             n == Cardinality(rest)
  <1>1. IsFiniteSet(rest) /\ k \notin rest /\ n \in Nat
    <2>1. rest \subseteq Jobs
      OBVIOUS
    <2> QED  BY <2>1, AssociationAssumption, FS_Subset, FS_CardinalityType
  <1>2. Cardinality(rest \cup {k}) = n + 1
    BY <1>1, FS_AddElement
  <1>3. /\ With(f, value) = IF f[k] = value THEN rest \cup {k} ELSE rest
        /\ With(g, value) = IF g[k] = value THEN rest \cup {k} ELSE rest
    BY DEF With
  <1> HIDE DEF rest
  <1>4. /\ Cardinality(With(f, value)) = n + Is(f[k], value)
        /\ Cardinality(With(g, value)) = n + Is(g[k], value)
    <2>1. Cardinality(With(f, value)) = n + Is(f[k], value)
      BY <1>1, <1>2, <1>3 DEF Is
    <2>2. Cardinality(With(g, value)) = n + Is(g[k], value)
      BY <1>1, <1>2, <1>3 DEF Is
    <2> QED  BY <2>1, <2>2
  <1>5. Is(f[k], value) \in 0 .. 1 /\ Is(g[k], value) \in 0 .. 1
    BY DEF Is
  <1> HIDE DEF n
  <1> QED  BY <1>1, <1>4, <1>5

\* Away from the statement that counts, the tally is that of the observations.
LEMMA TalliedPlain ==
  ASSUME NEW p \in Procs, NEW pair \in Pairs, at[p] # "count"
  PROVE  Tallied(p, pair) = [j \in Jobs |-> observation[pair][j]]
  BY DEF Tallied

LEMMA OtherTallies ==
  ASSUME NEW p \in Procs, Tallies(p), at[p] # "count", at'[p] \notin {"observe", "count"},
         UNCHANGED <<observation, association>>
  PROVE  Tallies(p)'
  <1>1. \A pair \in Pairs : Tallied(p, pair)' = Tallied(p, pair)
    BY DEF Tallied
  <1> QED  BY <1>1 DEF Tallies, Holds, TalliedBy, Support

LEMMA EnsureAssociationTallies ==
  ASSUME RunInv, NEW p \in Procs, Tallies(p), EnsureAssociation(p) PROVE Tallies(p)'
  <1>1. PICK x \in Pairs : x = Pair(p)
    BY PairFacts DEF EnsureAssociation, OfPair
  <1>2. /\ at[p] = "ensure" /\ at'[p] = "old" /\ observation' = observation
        /\ association' = [association EXCEPT ![x] =
             IF @ = None THEN [support |-> 0, positive |-> 0, negative |-> 0, weight |-> 0] ELSE @]
    BY <1>1 DEF EnsureAssociation, Deriving, Goto, RunInv, Types
  <1>3. ASSUME NEW pair \in Pairs PROVE TalliedBy(Tallied(p, pair), pair)'
    <2>1. PICK f : f = Tallied(p, pair) /\ f = Tallied(p, pair)'
      BY <1>2 DEF Tallied
    <2>2. TalliedBy(f, pair)
      BY <2>1 DEF Tallies
    <2>3. CASE association'[pair] = association[pair]
      BY <2>1, <2>2, <2>3 DEF TalliedBy, Support
    <2>4. CASE association'[pair] # association[pair]
      <3>1. /\ association[pair] = None /\ association'[pair] # None
            /\ association'[pair] = [support |-> 0, positive |-> 0, negative |-> 0, weight |-> 0]
        BY <1>2, <2>4, NoneIsNew DEF RunInv, Types, Counters
      <3>2. Support(pair)' = 0 /\ Support(pair) = 0
        BY <3>1 DEF Support
      <3>3. IsFiniteSet(Jobs) /\ IsFiniteSet(With(f, None)) /\ Cardinality(With(f, None)) = Cardinality(Jobs)
        <4>1. With(f, None) \subseteq Jobs
          BY DEF With
        <4>2. IsFiniteSet(With(f, None)) /\ Cardinality(With(f, None)) \in Nat
          BY <4>1, AssociationAssumption, FS_Subset, FS_CardinalityType
        <4> QED  BY <2>2, <3>2, <4>2, AssociationAssumption DEF TalliedBy
      <3>4. With(f, None) = Jobs
        <4>1. With(f, None) \subseteq Jobs
          BY DEF With
        <4> QED  BY <3>3, <4>1, FS_Subset
      <3>5. With(f, "positive") = {} /\ With(f, "negative") = {}
        BY <3>4, NoneIsNew DEF With, Outcomes
      <3>6. Cardinality({}) = 0
        BY FS_EmptySet
      <3> QED  BY <2>1, <2>2, <3>1, <3>2, <3>5, <3>6 DEF TalliedBy
    <2> QED  BY <2>3, <2>4
  <1> QED  BY <1>2, <1>3 DEF Tallies, Holds

LEMMA ReadOldTallies ==
  ASSUME RunInv, NEW p \in Procs, Tallies(p), ReadOld(p) PROVE Tallies(p)'
  <1>1. PICK x \in Pairs, k \in Jobs : x = Pair(p) /\ k = Job(p)
    BY PairFacts, DeriveFacts DEF ReadOld, OfPair
  <1>2. /\ at[p] = "old" /\ at'[p] = "observe" /\ old'[p] = observation[x][k]
        /\ UNCHANGED <<observation, association, derive, pairs>>
    BY <1>1 DEF ReadOld, Deriving, Goto, derived, RunInv, Types
  <1>3. Holds(p)'
    BY <1>1, <1>2 DEF Holds, Pair, Job
  <1>4. \A pair \in Pairs : Tallied(p, pair)' = Tallied(p, pair)
    BY <1>2 DEF Tallied
  <1> QED  BY <1>2, <1>3, <1>4 DEF Tallies, TalliedBy, Support

LEMMA ObserveTallies ==
  ASSUME RunInv, NEW p \in Procs, Tallies(p), Observe(p) PROVE Tallies(p)'
  <1>1. PICK x \in Pairs, k \in Jobs : x = Pair(p) /\ k = Job(p)
    BY PairFacts, DeriveFacts DEF Observe, OfPair
  <1>2. /\ at[p] = "observe" /\ at'[p] = "count"
        /\ observation' = [observation EXCEPT ![x][k] = outcome[p]]
        /\ UNCHANGED <<association, derive, pairs, old, outcome>>
    BY <1>1 DEF Observe, Deriving, Goto, RunInv, Types
  <1>3. x = Pair(p)' /\ k = Job(p)'
    BY <1>1, <1>2 DEF Pair, Job
  <1>4. observation'[x][k] = outcome'[p]
    BY <1>2 DEF RunInv, Types
  <1>5. Holds(p)'
    BY <1>2, <1>3, <1>4 DEF Holds
  <1>6. observation[x][k] = old[p]
    BY <1>1, <1>2 DEF Tallies, Holds
  <1>7. ASSUME NEW pair \in Pairs PROVE Tallied(p, pair)' = Tallied(p, pair)
    <2>1. ASSUME NEW j \in Jobs
          PROVE  (IF pair = x /\ j = k THEN old[p] ELSE observation'[pair][j]) = observation[pair][j]
      BY <1>2, <1>6 DEF RunInv, Types
    <2>2. Tallied(p, pair)' = [j \in Jobs |-> IF pair = x /\ j = k THEN old[p] ELSE observation'[pair][j]]
      BY <1>2, <1>3 DEF Tallied
    <2>3. Tallied(p, pair) = [j \in Jobs |-> observation[pair][j]]
      BY <1>2, TalliedPlain
    <2> QED  BY <2>1, <2>2, <2>3
  <1> QED  BY <1>2, <1>5, <1>7 DEF Tallies, TalliedBy, Support

LEMMA CountTallies ==
  ASSUME RunInv, NEW p \in Procs, Tallies(p), Count(p) PROVE Tallies(p)'
  <1>1. PICK x \in Pairs : x = Pair(p) /\ association[x] # None
    BY DEF RunInv, Ensured, Count, Deriving
  <1>2. PICK k \in Jobs : k = Job(p) /\ observation[x][k] = outcome[p]
    BY <1>1 DEF Tallies, Holds, Count, Deriving
  <1>3. /\ at[p] = "count" /\ at'[p] \notin {"observe", "count"} /\ observation' = observation
        /\ association' = [association EXCEPT ![x] =
                             IF old[p] = outcome[p] THEN @ ELSE Counted(@, old[p], outcome[p])]
    BY <1>1 DEF Count, WithPairs, Goto, Deriving, RunInv, Types
  <1>4. ASSUME NEW pair \in Pairs PROVE TalliedBy(Tallied(p, pair), pair)'
    <2>1. PICK f : f = Tallied(p, pair)
      OBVIOUS
    <2>2. PICK g : g = Tallied(p, pair)' /\ g = [j \in Jobs |-> observation[pair][j]]
      BY <1>3 DEF Tallied
    <2>3. TalliedBy(f, pair)
      BY <2>1 DEF Tallies
    <2>4. CASE pair # x
      <3>1. f = g
        BY <1>1, <2>1, <2>2, <2>4 DEF Tallied
      <3>2. association'[pair] = association[pair]
        BY <1>3, <2>4 DEF RunInv, Types
      <3> QED  BY <2>2, <2>3, <3>1, <3>2 DEF TalliedBy, Support
    <2>5. CASE pair = x
      <3>1. f[k] = old[p] /\ g[k] = outcome[p] /\ \A j \in Jobs \ {k} : g[j] = f[j]
        BY <1>1, <1>2, <1>3, <2>1, <2>2, <2>5 DEF Tallied
      <3>2. association[x] \in Counters
        BY <1>1 DEF RunInv, Types
      <3>3. outcome[p] # None
        BY NoneIsNew DEF RunInv, Types
      <3>4. CASE old[p] = outcome[p]
        <4>1. f = g
          BY <1>1, <1>2, <1>3, <2>1, <2>2, <2>5, <3>4 DEF Tallied
        <4>2. association'[pair] = association[pair]
          BY <1>3, <3>4 DEF RunInv, Types
        <4> QED  BY <2>2, <2>3, <4>1, <4>2 DEF TalliedBy, Support
      <3>5. CASE old[p] # outcome[p]
        <4>1. association'[x] = Counted(association[x], old[p], outcome[p])
          BY <1>3, <3>5 DEF RunInv, Types
        <4>2. Counted(association[x], old[p], outcome[p]) \in Counters
          BY <3>2 DEF Counted, Counters, Is
        <4>3. /\ association'[x] # None
              /\ association'[x].support = association[x].support + Is(old[p], None)
              /\ association'[x].positive = association[x].positive + Is(outcome[p], "positive") - Is(old[p], "positive")
              /\ association'[x].negative = association[x].negative + Is(outcome[p], "negative") - Is(old[p], "negative")
          <5>1. association'[x] # None
            BY <4>1, <4>2, NoneIsNew
          <5>2. Is(outcome[p], "positive") \in Int /\ Is(old[p], "positive") \in Int
            BY DEF Is
          <5>3. Is(outcome[p], "negative") \in Int /\ Is(old[p], "negative") \in Int
            BY DEF Is
          <5> HIDE DEF Is
          <5> QED  BY <3>2, <4>1, <5>1, <5>2, <5>3 DEF Counted, Counters
        <4>4. /\ Cardinality(With(g, "positive")) =
                   Cardinality(With(f, "positive")) + Is(outcome[p], "positive") - Is(old[p], "positive")
              /\ Cardinality(With(g, "negative")) =
                   Cardinality(With(f, "negative")) + Is(outcome[p], "negative") - Is(old[p], "negative")
              /\ Cardinality(With(g, None)) = Cardinality(With(f, None)) - Is(old[p], None)
              /\ Cardinality(With(f, None)) \in Nat /\ Cardinality(With(g, None)) \in Nat
          <5>1. Is(outcome[p], None) = 0 /\ Is(old[p], None) \in 0 .. 1
            BY <3>3 DEF Is
          <5>2. /\ Cardinality(With(g, None)) = Cardinality(With(f, None)) + Is(outcome[p], None) - Is(old[p], None)
                /\ Cardinality(With(f, None)) \in Nat /\ Cardinality(With(g, None)) \in Nat
            <6>1. \A value :
                    /\ Cardinality(With(g, value)) = Cardinality(With(f, value)) + Is(g[k], value) - Is(f[k], value)
                    /\ Cardinality(With(f, value)) \in Nat /\ Cardinality(With(g, value)) \in Nat
              <7>1. k \in Jobs /\ \A j \in Jobs \ {k} : g[j] = f[j]
                BY <3>1
              <7> QED  BY <7>1, OneTally, ZenonT(60)
            <6> QED  BY <3>1, <6>1
          <5>3. Cardinality(With(g, None)) = Cardinality(With(f, None)) - Is(old[p], None)
            BY <5>1, <5>2
          <5> QED  BY <3>1, <5>2, <5>3, OneTally
        <4>5. Support(x)' = Support(x) + Is(old[p], None) /\ Support(x) \in Nat /\ Is(old[p], None) \in 0 .. 1
          BY <1>1, <3>2, <4>3 DEF Support, Counters, Is
        <4>6. Support(x)' + Cardinality(With(g, None)) = Cardinality(Jobs)
          BY <2>3, <2>5, <4>4, <4>5 DEF TalliedBy
        <4>7. /\ association'[x].positive = Cardinality(With(g, "positive"))
              /\ association'[x].negative = Cardinality(With(g, "negative"))
          BY <1>1, <2>3, <2>5, <4>3, <4>4 DEF TalliedBy
        <4> QED  BY <2>2, <2>5, <4>6, <4>7 DEF TalliedBy
      <3> QED  BY <3>4, <3>5
    <2> QED  BY <2>4, <2>5
  <1> QED  BY <1>3, <1>4 DEF Tallies, Holds

-----------------------------------------------------------------------------
LEMMA InitSolo ==
  ASSUME Init, NEW p \in Procs PROVE SoloInv(p)
  <1>1. FromEvents(Begun(p))
    BY DEF Init, FromEvents
  <1>2. Settled(p)
    BY DEF Init, Settled, OfPair
  <1>3. Tallies(p)
    <2> SUFFICES ASSUME NEW pair \in Pairs PROVE TalliedBy(Tallied(p, pair), pair)
      BY DEF Init, Tallies, Holds
    <2>1. With(Tallied(p, pair), None) = Jobs
      BY DEF Init, With, Tallied
    <2>2. Support(pair) = 0 /\ association[pair] = None
      BY DEF Init, Support
    <2>3. Cardinality(Jobs) \in Nat
      BY AssociationAssumption, FS_CardinalityType
    <2> QED  BY <2>1, <2>2, <2>3 DEF TalliedBy
  <1> QED  BY <1>1, <1>2, <1>3 DEF SoloInv

LEMMA SoloStep ==
  ASSUME RunInv, RunInv', CommandInv, RowInv, NEW p \in Procs, Procs = {p}, SoloInv(p), [Next]_vars
  PROVE  SoloInv(p)'
  <1>1. ASSUME NEW q \in Procs, Abort(q) PROVE SoloInv(p)'
    <2>1. aborts' = aborts + 1 /\ aborts \in Nat
      BY <1>1, RunnerAssumption DEF Abort, AbortRun, RunInv, Types
    <2>2. aborts' # 0
      BY <2>1
    <2> QED  BY <2>2 DEF SoloInv
  <1>2. CASE UNCHANGED vars
    BY <1>2 DEF vars, runnerVars, facts, derived, local, SoloInv, FromEvents, Begun, Current, Job,
      Settled, Inferred, Unsettled, Awaits, Tallies, Holds, Pair, Tallied, TalliedBy, Support
  <1>3. CASE (\E e \in Events : Record(e)) \/ Start(p) \/ Apply(p) \/ Derive(p) \/ Return(p)
    <2> SUFFICES ASSUME aborts = 0 PROVE FromEvents(Begun(p))' /\ Settled(p)' /\ Tallies(p)'
      <3>1. aborts' = aborts
        BY <1>3 DEF Record, RecordEvent, Start, ListEvents, Return, EndRun, Apply, RecordJob, RecordCommand,
          RecordDeployment, RecordPaths, Mark, MarkNormalized, Derive, DeriveZones, DerivePairs, InferOutcome,
          ListPairs, EnsureAssociation, ReadOld, Observe, Count, runnerVars
      <3> QED  BY <3>1 DEF SoloInv
    <2>1. FromEvents(Begun(p)) /\ Settled(p) /\ Tallies(p)
      BY DEF SoloInv
    <2>2. FromEvents(Begun(p))'
      BY <1>3, <2>1, RecordCommandEvents, RecordPathsEvents, OtherEvents DEF Apply
    <2>3. CASE (\E e \in Events : Record(e)) \/ Start(p) \/ Return(p)
      <3>1. UNCHANGED <<commands, observation, association, local>>
        BY <2>3 DEF Record, Start, Return, facts, derived
      <3>2. Settled(p)'
        BY <2>1, <3>1 DEF local, Settled, Inferred, Unsettled, Awaits, Job
      <3>3. Tallies(p)'
        BY <2>1, <3>1 DEF local, Tallies, Holds, Pair, Job, Tallied, TalliedBy, Support
      <3> QED  BY <2>2, <3>2, <3>3
    <2>4. CASE Apply(p)
      <3>1. /\ UNCHANGED <<observation, association>> /\ at[p] # "count" /\ at'[p] \notin {"observe", "count"}
        BY <2>4 DEF Apply, RecordJob, RecordCommand, RecordDeployment, RecordPaths, Mark, Recording, Goto, derived,
          RunInv, Types
      <3> QED  BY <2>1, <2>2, <2>4, <3>1, ApplySettled, OtherTallies
    <2>5. CASE DeriveZones(p) \/ DerivePairs(p) \/ InferOutcome(p) \/ ListPairs(p)
      <3>1. /\ UNCHANGED <<observation, association>> /\ at[p] # "count" /\ at'[p] \notin {"observe", "count"}
        BY <2>5 DEF DeriveZones, DerivePairs, InferOutcome, ListPairs, WithPairs, Deriving, Goto, derived,
          RunInv, Types
      <3> QED  BY <2>1, <2>2, <2>5, <3>1, DeriveSettled, ListPairsSettled, OtherTallies
    <2>6. CASE EnsureAssociation(p) \/ ReadOld(p) \/ Observe(p) \/ Count(p)
      BY <2>1, <2>2, <2>6, PairSettled, CountSettled, EnsureAssociationTallies, ReadOldTallies, ObserveTallies,
        CountTallies
    <2> QED  BY <1>3, <2>3, <2>4, <2>5, <2>6 DEF Derive
  <1> QED  BY <1>1, <1>2, <1>3 DEF Next

\* The outcome that the commands of a job stand for is the one its events amount to.
LEMMA InferredIsOutcome ==
  ASSUME RunInv, CommandInv, NEW j \in Jobs,
         \A c \in Commands : commands[j][c] \in StatusesOf(j, c, normalized) \cup {None}
  PROVE  Inferred(j) = OutcomeOf(j, normalized)
  <1> DEFINE seen == {c \in Commands : StatusesOf(j, c, normalized) # {}}
             worst(c) == WorstOf(StatusesOf(j, c, normalized))
  <1>1. ASSUME NEW c \in Commands
        PROVE  /\ commands[j][c] # None <=> c \in seen
               /\ c \in seen => /\ commands[j][c] = "failed" <=> worst(c) = "failed"
                                /\ commands[j][c] = "succeeded" <=> worst(c) = "succeeded"
    <2>1. ASSUME NEW status \in StatusesOf(j, c, normalized)
          PROVE  status \in CommandStatuses /\ Severity(commands[j][c]) >= Severity(status)
      <3>1. PICK e \in normalized : Facts[e].job = j /\ Facts[e].command = c /\ status = Facts[e].status
        BY <2>1 DEF StatusesOf, EventsOf
      <3>2. e \in Events /\ Facts[e].command # None
        BY <3>1, NoneIsNew DEF RunInv, Types
      <3> QED  BY <3>1, <3>2, FactTypes DEF CommandInv, CommandWritten
    <2>2. commands[j][c] \in CommandStatuses \cup {None}
      BY DEF RunInv, Types
    <2>3. ASSUME NEW status \in StatusesOf(j, c, normalized), commands[j][c] = None PROVE FALSE
      <3>1. Severity(status) \in 1 .. 3 /\ 0 >= Severity(status)
        BY <2>1, <2>3, SeverityType
      <3> QED  BY <3>1
    <2>4. Severity("failed") = 3 /\ Severity("succeeded") = 2 /\ Severity("unknown") = 1 /\ Severity("attempted") = 1
      BY NoneIsNew DEF Severity, CommandStatuses
    <2>5. "failed" \in StatusesOf(j, c, normalized) => commands[j][c] = "failed"
      <3> SUFFICES ASSUME "failed" \in StatusesOf(j, c, normalized) PROVE commands[j][c] = "failed"
        OBVIOUS
      <3>1. Severity(commands[j][c]) >= 3
        BY <2>1, <2>4
      <3>2. commands[j][c] # "succeeded" /\ commands[j][c] # "unknown" /\ commands[j][c] # "attempted"
        BY <2>4, <3>1
      <3>3. commands[j][c] # None
        BY <2>3
      <3> QED  BY <2>2, <3>2, <3>3 DEF CommandStatuses
    <2>6. "succeeded" \in StatusesOf(j, c, normalized) => commands[j][c] \in {"succeeded", "failed"}
      <3> SUFFICES ASSUME "succeeded" \in StatusesOf(j, c, normalized)
                   PROVE  commands[j][c] \in {"succeeded", "failed"}
        OBVIOUS
      <3>1. Severity(commands[j][c]) >= 2
        BY <2>1, <2>4
      <3>2. commands[j][c] # "unknown" /\ commands[j][c] # "attempted"
        BY <2>4, <3>1
      <3>3. commands[j][c] # None
        BY <2>3
      <3> QED  BY <2>2, <3>2, <3>3 DEF CommandStatuses
    <2>7. commands[j][c] # None => commands[j][c] \in StatusesOf(j, c, normalized)
      OBVIOUS
    <2>8. commands[j][c] # None <=> c \in seen
      BY <2>3, <2>7
    <2>9. "failed" # None /\ "succeeded" # None
      BY NoneIsNew DEF CommandStatuses
    <2> QED  BY <2>5, <2>6, <2>7, <2>8, <2>9 DEF WorstOf
  <1> DEFINE known == Range(commands[j]) \ {None}
             worsts == {worst(c) : c \in seen}
  <1>2. known = {commands[j][c] : c \in seen}
    <2>1. Range(commands[j]) = {commands[j][c] : c \in Commands}
      BY DEF RunInv, Types, Range
    <2> HIDE DEF seen
    <2>2. seen \subseteq Commands
      BY DEF seen
    <2>3. \A c \in Commands : commands[j][c] # None <=> c \in seen
      BY <1>1
    <2> QED  BY <2>1, <2>2, <2>3
  <1>3. seen \subseteq Commands
    OBVIOUS
  <1>4. \A c \in seen : /\ commands[j][c] = "failed" <=> worst(c) = "failed"
                        /\ commands[j][c] = "succeeded" <=> worst(c) = "succeeded"
    BY <1>1
  <1> HIDE DEF seen, worst, known
  <1>5. /\ known = {} <=> worsts = {}
        /\ "failed" \in known <=> "failed" \in worsts
        /\ known = {"succeeded"} <=> worsts = {"succeeded"}
    BY <1>2, <1>4
  <1>6. Infer(known) = Infer(worsts)
    BY <1>5 DEF Infer
  <1> QED  BY <1>6 DEF Inferred, OutcomeOf, known, seen, worst

\* Where the one process stands between its runs, and what the tables hold there.
LEMMA AtRest ==
  ASSUME NEW solo, Procs = {solo}, RunInv, RowInv, SoloInv(solo), RowsFollowEvents, running = {}, aborts = 0
  PROVE  /\ at[solo] = "job" /\ derive[solo] = <<>> /\ Begun(solo) = normalized
         /\ FromEvents(normalized) /\ Settled(solo) /\ Tallies(solo)
         /\ \A pair \in Pairs, j \in Jobs : observation[pair][j] # None <=> pair \in PairsOf(j, normalized)
  <1>1. at[solo] = "job" /\ derive[solo] = <<>>
    BY DEF RunInv, Types, Control, Working, Applying
  <1>2. Begun(solo) = normalized
    BY <1>1 DEF Begun
  <1>3. FromEvents(normalized) /\ Settled(solo) /\ Tallies(solo)
    BY <1>2 DEF SoloInv
  <1>4. ASSUME NEW pair \in Pairs, NEW j \in Jobs
        PROVE  observation[pair][j] # None <=> pair \in PairsOf(j, normalized)
    <2>1. pair \in PairsOf(j, normalized) => observation[pair][j] # None
      BY DEF RowsFollowEvents, NormalizedIsDerived
    <2>2. ASSUME observation[pair][j] # None PROVE pair \in PairsOf(j, normalized)
      <3>1. pair \subseteq ZonesOf(j, normalized)
        BY <1>3, <2>2 DEF FromEvents, RowInv, RowsFollowRows
      <3> QED  BY <3>1 DEF PairsOf
    <2> QED  BY <2>1, <2>2
  <1> QED  BY <1>1, <1>2, <1>3, <1>4

\* What a process that works alone adds up by difference, over any number of batches, is
\* what counting every job once, by its latest outcome, comes to.
THEOREM SoloCountersAreExact ==
  ASSUME NEW solo, Procs = {solo}
  PROVE  Spec => []CountersAreExact
  <1>1. solo \in Procs
    OBVIOUS
  <1>2. Init => SoloInv(solo)
    BY <1>1, InitSolo
  <1>3. RunInv /\ RunInv' /\ CommandInv /\ RowInv /\ SoloInv(solo) /\ [Next]_vars => SoloInv(solo)'
    BY <1>1, SoloStep
  <1>4. ASSUME RunInv, CommandInv, RowInv, SoloInv(solo), RowsFollowEvents PROVE CountersAreExact
    <2> SUFFICES ASSUME running = {}, aborts = 0, NEW pair \in Pairs
                 PROVE  LET jobs == UNION {JobsWith(pair, result) : result \in Outcomes}
                        IN /\ Support(pair) = Cardinality(jobs)
                           /\ jobs # {} =>
                                /\ association[pair].positive = Cardinality(JobsWith(pair, "positive"))
                                /\ association[pair].negative = Cardinality(JobsWith(pair, "negative"))
      BY DEF CountersAreExact
    <2>1. at[solo] = "job" /\ derive[solo] = <<>>
      BY <1>4, AtRest
    <2>2. Begun(solo) = normalized
      BY <1>4, AtRest
    <2>3. FromEvents(Begun(solo)) /\ Settled(solo) /\ Tallies(solo)
      BY <1>4, <2>2, AtRest
    <2>4. \A j \in Jobs : observation[pair][j] # None <=> pair \in PairsOf(j, normalized)
      BY <1>4, AtRest
    <2>5. ASSUME NEW j \in Jobs PROVE observation[pair][j] \in {None, OutcomeOf(j, normalized)}
      <3>1. ~Unsettled(solo, j, pair)
        BY <2>1, EmptyRange DEF Unsettled, Awaits, Applying
      <3>2. observation[pair][j] \in {None, Inferred(j)}
        BY <2>3, <3>1 DEF Settled
      <3>3. Inferred(j) = OutcomeOf(j, normalized)
        BY <1>4, <2>2, <2>3, InferredIsOutcome DEF FromEvents
      <3> QED  BY <3>2, <3>3
    <2>6. PICK f : f = Tallied(solo, pair) /\ f = [j \in Jobs |-> observation[pair][j]]
      BY <1>1, <2>1, TalliedPlain
    <2>7. ASSUME NEW result \in Outcomes PROVE JobsWith(pair, result) = With(f, result)
      <3>1. result # None
        BY NoneIsNew
      <3> QED  BY <2>4, <2>5, <2>6, <3>1 DEF JobsWith, With
    <2>8. TalliedBy(f, pair)
      BY <2>3, <2>6 DEF Tallies
    <2> DEFINE jobs == UNION {JobsWith(pair, result) : result \in Outcomes}
    <2>9. jobs = Jobs \ With(f, None)
      <3>1. \A j \in Jobs : f[j] \in Outcomes \cup {None}
        BY <1>4, <2>6 DEF RunInv, Types
      <3>2. None \notin Outcomes
        BY NoneIsNew
      <3>3. jobs = UNION {With(f, result) : result \in Outcomes}
        BY <2>7
      <3> QED  BY <3>1, <3>2, <3>3 DEF With
    <2>10. /\ IsFiniteSet(Jobs) /\ Cardinality(Jobs) \in Nat /\ With(f, None) \subseteq Jobs
           /\ IsFiniteSet(With(f, None)) /\ Cardinality(With(f, None)) \in Nat
      <3>1. With(f, None) \subseteq Jobs
        BY DEF With
      <3> QED  BY <3>1, AssociationAssumption, FS_Subset, FS_CardinalityType
    <2>11. Cardinality(jobs) = Cardinality(Jobs) - Cardinality(With(f, None))
      <3>1. Jobs \cap With(f, None) = With(f, None)
        BY <2>10
      <3>2. Cardinality(Jobs \ With(f, None)) = Cardinality(Jobs) - Cardinality(Jobs \cap With(f, None))
        BY <2>10, FS_Difference
      <3> QED  BY <2>9, <3>1, <3>2
    <2>12. Support(pair) \in Nat
      BY <1>4 DEF Support, RunInv, Types, Counters
    <2>13. Support(pair) = Cardinality(jobs)
      BY <2>8, <2>10, <2>11, <2>12 DEF TalliedBy
    <2>14. ASSUME jobs # {} PROVE association[pair] # None
      <3>1. IsFiniteSet(jobs)
        <4>1. jobs \subseteq Jobs
          BY <2>9
        <4> QED  BY <2>10, <4>1, FS_Subset
      <3>2. Cardinality(jobs) # 0
        BY <2>14, <3>1, FS_EmptySet
      <3> QED  BY <2>13, <3>2 DEF Support
    <2>15. JobsWith(pair, "positive") = With(f, "positive") /\ JobsWith(pair, "negative") = With(f, "negative")
      BY <2>7 DEF Outcomes
    <2> HIDE DEF jobs
    <2>16. jobs # {} => /\ association[pair].positive = Cardinality(JobsWith(pair, "positive"))
                        /\ association[pair].negative = Cardinality(JobsWith(pair, "negative"))
      BY <2>8, <2>14, <2>15 DEF TalliedBy
    <2> QED  BY <2>13, <2>16 DEF jobs
  <1> QED  BY <1>2, <1>3, <1>4, RunInvariance, CommandInvariance, RowInvariance, RowsFollow, PTL DEF Spec

-----------------------------------------------------------------------------
(* The measures of the reports.                                            *)

LEMMA LargerProducts ==
  ASSUME NEW a \in Nat, NEW b \in Nat, NEW c \in Nat, NEW d \in Nat, a <= b, c <= d
  PROVE  a * c <= b * d
  <1>1. a * c <= b * c
    <2>1. PICK k \in Nat : b = a + k
      <3>1. b - a \in Nat /\ b = a + (b - a)
        OBVIOUS
      <3> QED  BY <3>1
    <2>2. b * c = a * c + k * c /\ k * c \in Nat /\ a * c \in Nat
      BY <2>1
    <2> QED  BY <2>2
  <1>2. b * c <= b * d
    <2>1. PICK k \in Nat : d = c + k
      <3>1. d - c \in Nat /\ d = c + (d - c)
        OBVIOUS
      <3> QED  BY <3>1
    <2>2. b * d = b * c + b * k /\ b * k \in Nat /\ b * c \in Nat
      BY <2>1
    <2> QED  BY <2>2
  <1>3. a * c \in Nat /\ b * c \in Nat /\ b * d \in Nat
    OBVIOUS
  <1> QED  BY <1>1, <1>2, <1>3

LEMMA DivFacts ==
  ASSUME NEW a \in Nat, NEW b \in Nat \ {0}
  PROVE  a \div b \in Nat /\ b * (a \div b) <= a
  OBVIOUS

\* Rounding a quotient by a root: half of it either way.
LEMMA RootRounded ==
  ASSUME NEW n \in Nat \ {0}, NEW square \in Nat \ {0}
  PROVE  \E r \in Nat : /\ r = RoundedByRoot(n, square)
                        /\ r = 0 \/ (2 * r - 1) * (2 * r - 1) * square <= 4 * n * n * Scale * Scale
                        /\ (2 * r + 1) * (2 * r + 1) * square > 4 * n * n * Scale * Scale
  <1> DEFINE Below(r) == (2 * r + 1) * (2 * r + 1) * square > 4 * n * n * Scale * Scale
             B == {r \in 0 .. n * Scale : Below(r)}
  <1>1. Scale \in Nat /\ n * Scale \in Nat
    BY ReportAssumption
  <1>2. Below(n * Scale)
    <2>1. PICK x \in Nat : x = n * Scale
      BY <1>1
    <2>2. 4 * n * n * Scale * Scale = 4 * x * x
      BY <1>1, <2>1
    <2>3. (2 * x + 1) * (2 * x + 1) = 4 * x * x + 4 * x + 1
      OBVIOUS
    <2>4. (4 * x * x + 4 * x + 1) * 1 <= (4 * x * x + 4 * x + 1) * square
      <3>1. PICK y \in Nat : y = 4 * x * x + 4 * x + 1
        OBVIOUS
      <3> QED  BY <3>1, LargerProducts
    <2>5. 4 * x * x \in Nat /\ (4 * x * x + 4 * x + 1) * square \in Nat
      OBVIOUS
    <2> QED  BY <2>1, <2>2, <2>3, <2>4, <2>5
  <1> HIDE DEF Below
  <1>3. n * Scale \in B /\ B \in SUBSET Nat
    BY <1>1, <1>2
  <1>4. PICK m \in B : \A k \in B : m <= k
    BY <1>3, LeastOfSome
  <1>5. m \in 0 .. n * Scale /\ Below(m)
    OBVIOUS
  <1>6. m = 0 \/ (2 * m - 1) * (2 * m - 1) * square <= 4 * n * n * Scale * Scale
    <2> SUFFICES ASSUME m # 0
                 PROVE  (2 * m - 1) * (2 * m - 1) * square <= 4 * n * n * Scale * Scale
      OBVIOUS
    <2>1. m - 1 \in 0 .. n * Scale /\ m - 1 < m
      BY <1>1, <1>5
    <2>2. ~Below(m - 1)
      BY <1>4, <1>5, <2>1
    <2>3. 2 * (m - 1) + 1 = 2 * m - 1
      BY <1>5
    <2> QED  BY <1>1, <1>5, <2>2, <2>3 DEF Below
  <1>7. n # 0
    OBVIOUS
  <1>8. \E r \in 0 .. n * Scale : /\ r = 0 \/ (2 * r - 1) * (2 * r - 1) * square <= 4 * n * n * Scale * Scale
                                 /\ Below(r)
    BY <1>5, <1>6
  <1>9. /\ RoundedByRoot(n, square) \in 0 .. n * Scale
        /\ \/ RoundedByRoot(n, square) = 0
           \/ (2 * RoundedByRoot(n, square) - 1) * (2 * RoundedByRoot(n, square) - 1) * square
                <= 4 * n * n * Scale * Scale
        /\ Below(RoundedByRoot(n, square))
    BY <1>7, <1>8 DEF RoundedByRoot, Below
  <1>10. PICK r : r = RoundedByRoot(n, square)
    OBVIOUS
  <1> QED  BY <1>1, <1>9, <1>10 DEF Below

\* Of two zones with l and r jobs that share s of them: what they share of all their jobs
\* is at most what they share of the root of the product, and that is at most one.
LEMMA SharesOrdered ==
  ASSUME NEW s \in Nat, NEW l \in Nat, NEW r \in Nat, s <= l, s <= r
  PROVE  LET union == l + r - s
             jaccard == IF union > 0 THEN roundMetric(s, union) ELSE 0
             normal == IF l * r > 0 THEN RoundedByRoot(s, l * r) ELSE 0
         IN jaccard <= normal /\ normal <= Scale
  <1> DEFINE jaccard == IF l + r - s > 0 THEN roundMetric(s, l + r - s) ELSE 0
             normal == IF l * r > 0 THEN RoundedByRoot(s, l * r) ELSE 0
  <1>1. Scale \in Nat \ {0}
    BY ReportAssumption
  <1>2. PICK u \in Nat : u = l + r - s /\ l <= u /\ r <= u
    <2>1. l + r - s \in Nat /\ l <= l + r - s /\ r <= l + r - s
      OBVIOUS
    <2> QED  BY <2>1
  <1>3. CASE s = 0
    <2>1. normal = 0
      BY <1>3 DEF RoundedByRoot
    <2>2. jaccard = 0
      <3> SUFFICES ASSUME u # 0 PROVE roundMetric(s, u) = 0
        BY <1>2
      <3>1. roundMetric(s, u) = u \div (2 * u)
        <4>1. 2 * s * Scale + u = u
          BY <1>1, <1>3
        <4> QED  BY <4>1 DEF roundMetric
      <3>2. 2 * u \in Nat \ {0}
        OBVIOUS
      <3>3. PICK k \in Nat : k = u \div (2 * u) /\ (2 * u) * k <= u
        BY <3>2, DivFacts
      <3>4. ASSUME k # 0 PROVE FALSE
        <4>1. (2 * u) * 1 <= (2 * u) * k
          BY <3>4, LargerProducts
        <4>2. (2 * u) * k \in Nat /\ 2 * u > u
          OBVIOUS
        <4> QED  BY <3>3, <4>1, <4>2
      <3> QED  BY <3>1, <3>3, <3>4
    <2> HIDE DEF jaccard, normal
    <2>3. jaccard <= normal /\ normal <= Scale
      BY <1>1, <2>1, <2>2
    <2> QED  BY <2>3 DEF jaccard, normal
  <1>4. CASE s # 0
    <2>1. PICK q \in Nat \ {0} : q = l * r /\ s * s <= q /\ q <= u * u
      <3>1. l * r \in Nat /\ s * s <= l * r /\ l * r <= u * u
        BY <1>2, LargerProducts
      <3>2. s * s >= 1
        <4>1. 1 * 1 <= s * s
          BY <1>4, LargerProducts
        <4> QED  BY <4>1
      <3>3. s * s \in Nat /\ l * r # 0
        BY <3>1, <3>2
      <3> QED  BY <3>1, <3>3
    <2>2. PICK x \in Nat : x = RoundedByRoot(s, q)
                           /\ (x = 0 \/ (2 * x - 1) * (2 * x - 1) * q <= 4 * s * s * Scale * Scale)
                           /\ (2 * x + 1) * (2 * x + 1) * q > 4 * s * s * Scale * Scale
      BY <1>4, RootRounded
    <2>3. normal = x
      BY <2>1, <2>2
    <2>4. u \in Nat \ {0}
      BY <1>2, <1>4
    <2>5. PICK y \in Nat : jaccard = y /\ 2 * u * y <= 2 * s * Scale + u
      <3>1. jaccard = (2 * s * Scale + u) \div (2 * u)
        BY <1>2, <2>4 DEF roundMetric
      <3>2. 2 * s * Scale + u \in Nat /\ 2 * u \in Nat \ {0}
        BY <1>1, <2>4
      <3> QED  BY <3>1, <3>2, DivFacts
    <2>6. PICK z \in Nat : z = s * Scale /\ 4 * s * s * Scale * Scale = (2 * z) * (2 * z)
      <3>1. s * Scale \in Nat /\ 4 * s * s * Scale * Scale = (2 * (s * Scale)) * (2 * (s * Scale))
        BY <1>1
      <3> QED  BY <3>1
    <2>7. x <= Scale
      <3> SUFFICES ASSUME x > Scale PROVE FALSE
        BY <1>1
      <3>1. PICK a \in Nat, b \in Nat : a = 2 * Scale + 1 /\ b = 2 * x - 1
        <4>1. 2 * Scale + 1 \in Nat /\ 2 * x - 1 \in Nat
          BY <1>1
        <4> QED  BY <4>1
      <3>2. a <= b
        BY <1>1, <3>1
      <3>3. a * a <= b * b /\ a * a \in Nat /\ b * b \in Nat /\ s * s \in Nat
        BY <3>2, LargerProducts
      <3>4. (a * a) * (s * s) <= (b * b) * q
        BY <2>1, <3>3, LargerProducts
      <3>5. (a * a) * (s * s) = (a * s) * (a * s) /\ a * s = 2 * z + s
        BY <1>1, <2>6, <3>1
      <3>6. (2 * z + 1) * (2 * z + 1) <= (2 * z + s) * (2 * z + s)
        <4>1. 2 * z + 1 <= 2 * z + s /\ 2 * z + 1 \in Nat /\ 2 * z + s \in Nat
          BY <1>4
        <4> QED  BY <4>1, LargerProducts
      <3>7. (2 * z + 1) * (2 * z + 1) = (2 * z) * (2 * z) + 4 * z + 1 /\ (2 * z) * (2 * z) \in Nat
        OBVIOUS
      <3>8. b * b * q <= (2 * z) * (2 * z)
        BY <1>1, <2>2, <2>6, <3>1
      <3>9. PICK m \in Nat, n \in Nat : m = (b * b) * q /\ n = (2 * z + s) * (2 * z + s)
        OBVIOUS
      <3> QED  BY <3>4, <3>5, <3>6, <3>7, <3>8, <3>9
    <2>8. y <= x
      <3> SUFFICES ASSUME y > x PROVE FALSE
        OBVIOUS
      <3>1. PICK a \in Nat : a = 2 * x + 1
        OBVIOUS
      <3>2. u * a <= 2 * z
        <4>1. PICK b \in Nat : b = 2 * y - 1 /\ a <= b
          <5>1. 2 * y - 1 \in Nat /\ a <= 2 * y - 1
            BY <3>1
          <5> QED  BY <5>1
        <4>2. u * a <= u * b
          BY <4>1, LargerProducts
        <4>3. u * b = 2 * u * y - u /\ 2 * s * Scale = 2 * z
          BY <1>1, <2>6, <4>1
        <4>4. u * a \in Nat /\ 2 * u * y \in Nat
          OBVIOUS
        <4> QED  BY <2>5, <4>2, <4>3, <4>4
      <3>3. (u * a) * (u * a) <= (2 * z) * (2 * z)
        BY <3>2, LargerProducts
      <3>4. (a * a) * q <= (a * a) * (u * u)
        <4>1. a * a \in Nat /\ u * u \in Nat
          OBVIOUS
        <4> QED  BY <2>1, <4>1, LargerProducts
      <3>5. (a * a) * (u * u) = (u * a) * (u * a)
        OBVIOUS
      <3>6. a * a * q > (2 * z) * (2 * z)
        BY <2>2, <2>6, <3>1
      <3>7. PICK m \in Nat, n \in Nat, k \in Nat : m = (a * a) * q /\ n = (u * a) * (u * a) /\ k = (2 * z) * (2 * z)
        OBVIOUS
      <3> QED  BY <3>3, <3>4, <3>5, <3>6, <3>7
    <2> HIDE DEF jaccard, normal
    <2>9. jaccard <= normal /\ normal <= Scale
      BY <2>3, <2>5, <2>7, <2>8
    <2> QED  BY <2>9 DEF jaccard, normal
  <1> QED  BY <1>3, <1>4

\* The two zones of a pair.
LEMMA ZonesOfPair ==
  ASSUME NEW pair \in Pairs PROVE LeftZone(pair) \in pair /\ OtherZone(pair, LeftZone(pair)) \in pair
  <1> DEFINE Holding == {i \in DOMAIN ZoneIds : ZoneIds[i] \in pair}
  <1>1. pair \subseteq Zones /\ Cardinality(pair) = 2
    BY DEF Pairs
  <1>2. ZoneIds \in Seq(Zones) /\ DOMAIN ZoneIds = 1 .. Len(ZoneIds) /\ Len(ZoneIds) \in Nat
    BY ReportAssumption
  <1>3. pair # {}
    BY <1>1, FS_EmptySet
  <1>4. Holding \in SUBSET Nat /\ Holding # {}
    <2>1. \A zone \in Zones : \E i \in DOMAIN ZoneIds : ZoneIds[i] = zone
      BY ReportAssumption DEF Range
    <2> QED  BY <1>1, <1>2, <1>3, <2>1
  <1>5. PICK least \in Holding : \A i \in Holding : least <= i
    BY <1>4, LeastOfSome
  <1>6. least \in DOMAIN ZoneIds /\ ZoneIds[least] \in pair /\ \A k \in 1 .. least - 1 : ZoneIds[k] \notin pair
    <2>1. ASSUME NEW k \in 1 .. least - 1, ZoneIds[k] \in pair PROVE FALSE
      <3>1. k \in Holding /\ k < least
        BY <1>2, <1>5, <2>1
      <3> QED  BY <1>2, <1>5, <3>1
    <2> QED  BY <1>5, <2>1
  <1>7. LeftZone(pair) \in pair
    BY <1>6 DEF LeftZone
  <1>8. PICK left \in pair : left = LeftZone(pair)
    BY <1>7
  <1>9. pair # {left}
    <2>1. Cardinality({left}) = 1
      BY FS_Singleton
    <2> QED  BY <1>1, <2>1
  <1>10. \E other \in pair : other # left
    BY <1>9
  <1>11. OtherZone(pair, left) \in pair
    BY <1>10 DEF OtherZone
  <1> QED  BY <1>7, <1>8, <1>11

\* The jobs that observed a pair are active in both of its zones.
LEMMA SharedByBoth ==
  ASSUME RowInv, NEW pair \in Pairs
  PROVE  Observations(pair) \subseteq ActiveIn(LeftZone(pair)) \cap ActiveIn(OtherZone(pair, LeftZone(pair)))
  <1>1. PICK left \in pair, right \in pair : left = LeftZone(pair) /\ right = OtherZone(pair, LeftZone(pair))
    BY ZonesOfPair
  <1>2. Observations(pair) \subseteq ActiveIn(left) \cap ActiveIn(right)
    BY <1>1 DEF Observations, ActiveIn, RowInv, RowsFollowRows
  <1> QED  BY <1>1, <1>2

\* What the measures of a pair are computed from: the jobs of its zones, and those of both.
LEMMA SharesOfJobs ==
  ASSUME RowInv, NEW pair \in Pairs
  PROVE  \E s \in Nat, l \in Nat, r \in Nat :
           /\ s = Cardinality(Observations(pair)) /\ s <= l /\ s <= r
           /\ l <= Cardinality(Jobs) /\ r <= Cardinality(Jobs)
           /\ Enriched(pair).jaccard = IF l + r - s > 0 THEN roundMetric(s, l + r - s) ELSE 0
           /\ Enriched(pair).normalized = IF l * r > 0 THEN RoundedByRoot(s, l * r) ELSE 0
  <1>1. PICK left, right : left = ActiveIn(LeftZone(pair)) /\ right = ActiveIn(OtherZone(pair, LeftZone(pair)))
    OBVIOUS
  <1>2. Observations(pair) \subseteq left \cap right /\ left \subseteq Jobs /\ right \subseteq Jobs
    BY <1>1, SharedByBoth DEF ActiveIn
  <1>3. IsFiniteSet(left) /\ IsFiniteSet(right) /\ IsFiniteSet(Jobs) /\ IsFiniteSet(Observations(pair))
    BY <1>2, AssociationAssumption, FS_Subset
  <1>4. PICK s \in Nat, l \in Nat, r \in Nat :
          /\ s = Cardinality(Observations(pair)) /\ l = Cardinality(left) /\ r = Cardinality(right)
          /\ s <= l /\ s <= r /\ l <= Cardinality(Jobs) /\ r <= Cardinality(Jobs)
    <2>1. /\ Cardinality(Observations(pair)) <= Cardinality(left)
          /\ Cardinality(Observations(pair)) <= Cardinality(right)
          /\ Cardinality(left) <= Cardinality(Jobs) /\ Cardinality(right) <= Cardinality(Jobs)
      BY <1>2, <1>3, FS_Subset
    <2> QED  BY <1>3, <2>1, FS_CardinalityType
  <1>5. /\ Enriched(pair).jaccard = IF l + r - s > 0 THEN roundMetric(s, l + r - s) ELSE 0
        /\ Enriched(pair).normalized = IF l * r > 0 THEN RoundedByRoot(s, l * r) ELSE 0
    BY <1>1, <1>4 DEF Enriched
  <1> QED  BY <1>4, <1>5

\* Whenever a report is read, whatever runs are under way or were cut off, it is about
\* zones and pairs of its job, and no measure of a pair exceeds one.
THEOREM ReportsShare == Spec => []ReportsAreShares
  <1>1. ASSUME RunInv, CommandInv, RowInv PROVE ReportsAreShares
    <2>1. ASSUME NEW j \in Jobs
          PROVE  /\ \A pair \in coactive[j] : pair \subseteq active[j]
                 /\ DOMAIN JobZoneAssociations(j) \subseteq coactive[j]
                 /\ Summary(j).deployments["failed"] <= Summary(j).commands["failed"]
      <3>1. \A pair \in coactive[j] : pair \subseteq active[j]
        BY <1>1 DEF RowInv, RowsFollowRows
      <3>2. DOMAIN JobZoneAssociations(j) \subseteq coactive[j]
        BY DEF JobZoneAssociations
      <3> DEFINE Failed(statuses, S) == {c \in S : statuses[c] = "failed"}
      <3>3. "failed" # None /\ "failed" \in CommandStatuses
        BY NoneIsNew DEF CommandStatuses
      <3>4. /\ Summary(j).commands["failed"] = Cardinality(Failed(commands[j], Commands))
            /\ Summary(j).deployments["failed"] = Cardinality(Failed(deployments[j], Deploying))
        <4>1. /\ DOMAIN commands[j] = Commands /\ DOMAIN deployments[j] = Deploying
          BY <1>1 DEF RunInv, Types
        <4>2. ASSUME NEW statuses, NEW S, DOMAIN statuses = S
              PROVE  countBy(Rows(statuses), CommandStatuses)["failed"] = Cardinality(Failed(statuses, S))
          <5>1. {k \in DOMAIN Rows(statuses) : Rows(statuses)[k] = "failed"} = Failed(statuses, S)
            BY <3>3, <4>2 DEF Rows
          <5> QED  BY <3>3, <5>1 DEF countBy
        <4> HIDE DEF Failed
        <4> QED  BY <4>1, <4>2 DEF Summary
      <3>5. Failed(deployments[j], Deploying) \subseteq Failed(commands[j], Commands)
        <4> SUFFICES ASSUME NEW c \in Deploying, deployments[j][c] = "failed" PROVE commands[j][c] = "failed"
          BY AssociationAssumption
        <4>1. c \in Commands /\ commands[j][c] \in CommandStatuses \cup {None}
          BY <1>1, AssociationAssumption DEF RunInv, Types
        <4>2. /\ Severity("failed") = 3 /\ Severity("succeeded") = 2 /\ Severity("unknown") = 1
              /\ Severity("attempted") = 1 /\ Severity(None) = 0
          BY NoneIsNew DEF Severity, CommandStatuses
        <4>3. Severity(deployments[j][c]) <= Severity(commands[j][c])
          BY <1>1 DEF CommandInv, DeploymentsAreBounded
        <4> QED  BY <4>1, <4>2, <4>3 DEF CommandStatuses
      <3>6. IsFiniteSet(Failed(commands[j], Commands))
        <4>1. Failed(commands[j], Commands) \subseteq Commands
          OBVIOUS
        <4> QED  BY <4>1, ReportAssumption, FS_Subset
      <3> HIDE DEF Failed
      <3>7. Cardinality(Failed(deployments[j], Deploying)) <= Cardinality(Failed(commands[j], Commands))
        BY <3>5, <3>6, FS_Subset
      <3> QED  BY <3>1, <3>2, <3>4, <3>7
    <2>2. ASSUME NEW pair \in Stored
          PROVE  /\ Observations(pair) \subseteq
                      ActiveIn(LeftZone(pair)) \cap ActiveIn(OtherZone(pair, LeftZone(pair)))
                 /\ Enriched(pair).jaccard <= Enriched(pair).normalized
                 /\ Enriched(pair).normalized <= Scale
      <3>1. pair \in Pairs
        BY DEF Stored
      <3>2. Observations(pair) \subseteq ActiveIn(LeftZone(pair)) \cap ActiveIn(OtherZone(pair, LeftZone(pair)))
        BY <1>1, <3>1, SharedByBoth
      <3>3. PICK s \in Nat, l \in Nat, r \in Nat :
              /\ s = Cardinality(Observations(pair)) /\ s <= l /\ s <= r
              /\ l <= Cardinality(Jobs) /\ r <= Cardinality(Jobs)
              /\ Enriched(pair).jaccard = IF l + r - s > 0 THEN roundMetric(s, l + r - s) ELSE 0
              /\ Enriched(pair).normalized = IF l * r > 0 THEN RoundedByRoot(s, l * r) ELSE 0
        BY <1>1, <3>1, SharesOfJobs
      <3>4. Enriched(pair).jaccard <= Enriched(pair).normalized /\ Enriched(pair).normalized <= Scale
        BY <3>3, SharesOrdered
      <3> QED  BY <3>2, <3>4
    <2>3. \A j \in Jobs : /\ JobActivationReport(j).coactivations = coactive[j]
                          /\ JobActivationReport(j).zones = active[j]
                          /\ JobActivationReport(j).associations = JobZoneAssociations(j)
                          /\ JobActivationReport(j).summary = Summary(j)
      BY DEF JobActivationReport
    <2>4. ZoneAssociationReport(None) = [pair \in Stored |-> Enriched(pair)]
      BY DEF ZoneAssociationReport
    <2> QED  BY <2>1, <2>2, <2>3, <2>4 DEF ReportsAreShares
  <1> QED  BY <1>1, RunInvariance, CommandInvariance, RowInvariance, PTL
-----------------------------------------------------------------------------
(* What is recommended, between the runs of one process.                   *)

\* A pair has counters once a job has observed it, or its first one is about to.
InFirstHands(pair) == \E p \in Procs : at[p] \in {"old", "observe"} /\ Pair(p) = pair

EnsuredInv ==
  aborts = 0 => \A pair \in Pairs : association[pair] # None => Observed(pair) # {} \/ InFirstHands(pair)

\* A step that makes no counters, takes no observation away and leaves the hands full.
LEMMA EnsuredStep ==
  ASSUME EnsuredInv, aborts' = 0 => aborts = 0,
         \A pair \in Pairs : association'[pair] # None => association[pair] # None,
         \A pair \in Pairs, j \in Jobs : observation[pair][j] # None => observation'[pair][j] # None,
         \A p \in Procs : at[p] \in {"old", "observe"} => at'[p] \in {"old", "observe"} /\ pairs'[p] = pairs[p]
  PROVE  EnsuredInv'
  <1>1. ASSUME NEW pair \in Pairs, Observed(pair) # {} PROVE Observed(pair)' # {}
    BY <1>1 DEF Observed
  <1>2. ASSUME NEW pair \in Pairs, InFirstHands(pair) PROVE InFirstHands(pair)'
    BY <1>2 DEF InFirstHands, Pair
  <1> QED  BY <1>1, <1>2 DEF EnsuredInv

LEMMA EnsureAssociationEnsured ==
  ASSUME RunInv, EnsuredInv, NEW p \in Procs, EnsureAssociation(p) PROVE EnsuredInv'
  <1>1. PICK pair \in Pairs : pair = Pair(p)
    BY PairFacts DEF EnsureAssociation, OfPair
  <1>2. /\ at[p] = "ensure" /\ at' = [at EXCEPT ![p] = "old"]
        /\ UNCHANGED <<observation, aborts, pairs>>
        /\ \A x \in Pairs \ {pair} : association'[x] = association[x]
    BY <1>1 DEF EnsureAssociation, Deriving, Goto, runnerVars, RunInv, Types
  <1>3. at'[p] = "old" /\ \A q \in Procs \ {p} : at'[q] = at[q]
    BY <1>2 DEF RunInv, Types
  <1>4. InFirstHands(pair)'
    BY <1>1, <1>2, <1>3 DEF InFirstHands, Pair
  <1>5. ASSUME NEW x \in Pairs \ {pair}, aborts' = 0, association'[x] # None
        PROVE  Observed(x)' # {} \/ InFirstHands(x)'
    <2>1. Observed(x) # {} \/ InFirstHands(x)
      BY <1>2, <1>5 DEF EnsuredInv
    <2>2. Observed(x)' = Observed(x)
      BY <1>2 DEF Observed
    <2>3. InFirstHands(x) => InFirstHands(x)'
      BY <1>2, <1>3 DEF InFirstHands, Pair
    <2> QED  BY <2>1, <2>2, <2>3
  <1> QED  BY <1>4, <1>5 DEF EnsuredInv

LEMMA ObserveEnsured == ASSUME RunInv, EnsuredInv, NEW p \in Procs, Observe(p) PROVE EnsuredInv'
  <1>1. PICK pair \in Pairs, j \in Jobs : pair = Pair(p) /\ j = Job(p)
    BY PairFacts, DeriveFacts DEF Observe, OfPair
  <1>2. /\ at' = [at EXCEPT ![p] = "count"]
        /\ observation' = [observation EXCEPT ![pair][j] = outcome[p]]
        /\ UNCHANGED <<association, aborts, pairs>>
    BY <1>1 DEF Observe, Goto, runnerVars
  <1>3. outcome[p] # None
    BY NoneIsNew DEF RunInv, Types
  <1>4. /\ observation'[pair][j] # None
        /\ \A x \in Pairs, k \in Jobs : observation[x][k] # None => observation'[x][k] # None
    BY <1>2, <1>3 DEF RunInv, Types
  <1>5. \A q \in Procs \ {p} : at'[q] = at[q]
    BY <1>2 DEF RunInv, Types
  <1>6. j \in Observed(pair)'
    BY <1>4 DEF Observed
  <1>7. ASSUME NEW x \in Pairs \ {pair}, aborts' = 0, association'[x] # None
        PROVE  Observed(x)' # {} \/ InFirstHands(x)'
    <2>1. Observed(x) # {} \/ InFirstHands(x)
      BY <1>2, <1>7 DEF EnsuredInv
    <2>2. Observed(x) # {} => Observed(x)' # {}
      BY <1>4 DEF Observed
    <2>3. InFirstHands(x) => InFirstHands(x)'
      BY <1>1, <1>2, <1>5 DEF InFirstHands, Pair
    <2> QED  BY <2>1, <2>2, <2>3
  <1> QED  BY <1>6, <1>7 DEF EnsuredInv

LEMMA EnsuredInvariance == Spec => []EnsuredInv
  <1>1. Init => EnsuredInv
    BY DEF Init, EnsuredInv
  <1>2. ASSUME RunInv, EnsuredInv, [Next]_vars PROVE EnsuredInv'
    <2>1. CASE UNCHANGED <<derived, local, aborts>>
      BY <1>2, <2>1, EnsuredStep DEF derived, local
    <2>2. ASSUME NEW p \in Procs, Apply(p) \/ DeriveZones(p) \/ DerivePairs(p) \/ InferOutcome(p) \/ ListPairs(p)
          PROVE  EnsuredInv'
      <3>1. at[p] \notin {"old", "observe"} /\ UNCHANGED <<observation, association, aborts>>
        BY <2>2 DEF Apply, RecordJob, RecordCommand, RecordDeployment, RecordPaths, Mark, MarkNormalized, Recording,
          DeriveZones, DerivePairs, InferOutcome, ListPairs, Deriving, derived, runnerVars
      <3>2. \A q \in Procs \ {p} : at'[q] = at[q] /\ pairs'[q] = pairs[q]
        BY <1>2, <2>2 DEF Apply, RecordJob, RecordCommand, RecordDeployment, RecordPaths, Mark,
          DeriveZones, DerivePairs, InferOutcome, ListPairs, WithPairs, Goto, RunInv, Types
      <3> QED  BY <1>2, <3>1, <3>2, EnsuredStep
    <2>3. ASSUME NEW p \in Procs, ReadOld(p) PROVE EnsuredInv'
      <3>1. UNCHANGED <<observation, association, aborts, pairs>> /\ at' = [at EXCEPT ![p] = "observe"]
        BY <2>3 DEF ReadOld, Goto, derived, runnerVars
      <3>2. \A q \in Procs : at[q] \in {"old", "observe"} => at'[q] \in {"old", "observe"}
        BY <1>2, <3>1 DEF RunInv, Types
      <3> QED  BY <1>2, <3>1, <3>2, EnsuredStep
    <2>4. ASSUME NEW p \in Procs, Count(p) PROVE EnsuredInv'
      <3>1. PICK pair \in Pairs : pair = Pair(p) /\ association[pair] # None
        BY <1>2, <2>4 DEF RunInv, Ensured, Count, Deriving
      <3>2. at[p] = "count" /\ UNCHANGED <<observation, aborts>>
            /\ \A x \in Pairs \ {pair} : association'[x] = association[x]
        BY <1>2, <2>4, <3>1 DEF Count, Deriving, runnerVars, RunInv, Types
      <3>3. \A q \in Procs \ {p} : at'[q] = at[q] /\ pairs'[q] = pairs[q]
        BY <1>2, <2>4 DEF Count, WithPairs, Goto, RunInv, Types
      <3> QED  BY <1>2, <3>1, <3>2, <3>3, EnsuredStep
    <2>5. ASSUME NEW p \in Procs, Abort(p) PROVE EnsuredInv'
      <3>1. aborts' # 0
        BY <1>2, <2>5 DEF Abort, AbortRun, RunInv, Types
      <3> QED  BY <3>1 DEF EnsuredInv
    <2>6. \/ UNCHANGED <<derived, local, aborts>>
          \/ \E p \in Procs : Apply(p) \/ Derive(p) \/ Abort(p)
      BY <1>2 DEF Next, vars, Record, RecordEvent, Start, ListEvents, Return, EndRun, derived, local, runnerVars
    <2> QED  BY <1>2, <2>1, <2>2, <2>3, <2>4, <2>5, <2>6, EnsureAssociationEnsured, ObserveEnsured DEF Derive
  <1> QED  BY <1>1, <1>2, RunInvariance, PTL DEF Spec

\* The jobs that touch a pair, and came out as one of these.
Sharing(pair, results) == {j \in Jobs : pair \in PairsOf(j, normalized) /\ OutcomeOf(j, normalized) \in results}

\* The row of a pair is what counting its jobs gives, and there is none without a job.
Recounted(pair) ==
  /\ Observations(pair) = Sharing(pair, Outcomes)
  /\ pair \in Stored <=> Sharing(pair, Outcomes) # {}
  /\ pair \in Stored =>
       /\ association[pair].support = Cardinality(Sharing(pair, Outcomes))
       /\ association[pair].positive = Cardinality(Sharing(pair, {"positive"}))
       /\ association[pair].negative = Cardinality(Sharing(pair, {"negative"}))

LEMMA RestRecounts ==
  ASSUME NEW solo, Procs = {solo}, RunInv, RowInv, SoloInv(solo), EnsuredInv, RowsFollowEvents, CountersAreExact,
         running = {}, aborts = 0, NEW pair \in Pairs
  PROVE  Recounted(pair)
  <1>1. \A j \in Jobs : OutcomeOf(j, normalized) \in Outcomes
    BY DEF OutcomeOf, Infer, Outcomes
  <1>2. \A j \in Jobs : observation[pair][j] # None <=> pair \in PairsOf(j, normalized)
    BY AtRest
  <1>3. Observations(pair) = Sharing(pair, Outcomes)
    BY <1>1, <1>2 DEF Observations, Sharing
  <1> DEFINE jobs == UNION {JobsWith(pair, result) : result \in Outcomes}
  <1>4. jobs = Sharing(pair, Outcomes)
    BY DEF JobsWith, Sharing
  <1>5. /\ JobsWith(pair, "positive") = Sharing(pair, {"positive"})
        /\ JobsWith(pair, "negative") = Sharing(pair, {"negative"})
    BY DEF JobsWith, Sharing
  <1>6. /\ Support(pair) = Cardinality(jobs)
        /\ jobs # {} => /\ association[pair].positive = Cardinality(JobsWith(pair, "positive"))
                        /\ association[pair].negative = Cardinality(JobsWith(pair, "negative"))
    BY DEF CountersAreExact
  <1> HIDE DEF jobs
  <1>7. IsFiniteSet(jobs) /\ Cardinality(jobs) \in Nat /\ (Cardinality(jobs) = 0 <=> jobs = {})
    <2>1. jobs \subseteq Jobs
      BY <1>4 DEF Sharing
    <2> QED  BY <2>1, AssociationAssumption, FS_Subset, FS_CardinalityType, FS_EmptySet
  <1>8. jobs # {} => pair \in Stored
    BY <1>6, <1>7 DEF Support, Stored
  <1>9. pair \in Stored => jobs # {}
    <2>1. ~InFirstHands(pair)
      BY AtRest DEF InFirstHands
    <2>2. pair \in Stored => Observed(pair) # {}
      BY <2>1 DEF EnsuredInv, Stored
    <2> QED  BY <1>3, <1>4, <2>2 DEF Observed, Observations
  <1>10. pair \in Stored => association[pair].support = Cardinality(jobs)
    BY <1>6 DEF Support, Stored
  <1> QED  BY <1>3, <1>4, <1>5, <1>6, <1>8, <1>9, <1>10 DEF Recounted

\* A pair has two zones, and any two zones are one.
LEMMA TwoZones ==
  /\ \A a, b \in Zones : a # b => {a, b} \in Pairs
  /\ \A a : {a} \notin Pairs
  /\ \A pair \in Pairs, zone \in Zones : zone \in pair =>
       \E other \in Zones : other # zone /\ pair = {zone, other} /\ OtherZone(pair, zone) = other
  <1>1. ASSUME NEW a \in Zones, NEW b \in Zones, a # b PROVE {a, b} \in Pairs
    <2>1. IsFiniteSet({a}) /\ Cardinality({a}) = 1
      BY FS_Singleton
    <2>2. Cardinality({a} \cup {b}) = 2
      BY <1>1, <2>1, FS_AddElement
    <2>3. {a} \cup {b} = {a, b}
      OBVIOUS
    <2> QED  BY <2>2, <2>3 DEF Pairs
  <1>2. ASSUME NEW a PROVE {a} \notin Pairs
    <2>1. Cardinality({a}) = 1
      BY FS_Singleton
    <2> QED  BY <2>1 DEF Pairs
  <1>3. ASSUME NEW pair \in Pairs, NEW zone \in Zones, zone \in pair
        PROVE  \E other \in Zones : other # zone /\ pair = {zone, other} /\ OtherZone(pair, zone) = other
    <2>1. pair \subseteq Zones /\ Cardinality(pair) = 2 /\ IsFiniteSet(pair)
      BY AssociationAssumption, FS_Subset DEF Pairs
    <2>2. Cardinality(pair \ {zone}) = 1 /\ IsFiniteSet(pair \ {zone})
      BY <1>3, <2>1, FS_RemoveElement
    <2>3. PICK other : pair \ {zone} = {other}
      BY <2>2, FS_Singleton
    <2>4. other \in Zones /\ other # zone /\ pair = {zone, other}
      BY <1>3, <2>1, <2>3
    <2>5. OtherZone(pair, zone) = other
      BY <2>4 DEF OtherZone
    <2> QED  BY <2>4, <2>5
  <1> QED  BY <1>1, <1>2, <1>3

\* Of a pair, one zone leads to the other: a seed to what is none, or else the zone of
\* lower id to the higher.
LEMMA LeadsTo ==
  ASSUME NEW seeds \in SUBSET Zones, NEW pair \in Pairs, NEW target \in Zones \ seeds
  PROVE  /\ (SourceZones(pair, seeds) # {} /\ TargetZone(pair, SourceZones(pair, seeds)) = target)
              <=> \E zone \in LeadingTo(target, seeds) : zone # target /\ pair = {zone, target}
         /\ \A zone \in LeadingTo(target, seeds) :
              zone # target /\ pair = {zone, target} => SourceZones(pair, seeds) = {zone}
  <1>1. PICK left, other : /\ left \in Zones /\ other \in Zones /\ left # other /\ pair = {left, other}
                           /\ LeftZone(pair) = left /\ OtherZone(pair, left) = other
    <2>1. LeftZone(pair) \in pair /\ pair \subseteq Zones
      BY ZonesOfPair DEF Pairs
    <2> QED  BY <2>1, TwoZones
  <1>2. CASE seeds = {}
    <2>1. SourceZones(pair, seeds) = {left} /\ TargetZone(pair, {left}) = other
      BY <1>1, <1>2 DEF SourceZones, TargetZone
    <2>2. LeadingTo(target, seeds) = {zone \in Zones \ {target} : LeftZone({zone, target}) = zone}
      BY <1>2 DEF LeadingTo
    <2>3. ASSUME other = target PROVE left \in LeadingTo(target, seeds)
      BY <1>1, <2>2, <2>3
    <2>4. ASSUME NEW zone \in LeadingTo(target, seeds), zone # target, pair = {zone, target}
          PROVE  zone = left /\ other = target
      BY <1>1, <2>2, <2>4
    <2> QED  BY <1>1, <2>1, <2>3, <2>4
  <1>3. CASE seeds # {}
    <2>1. SourceZones(pair, seeds) = pair \cap seeds /\ LeadingTo(target, seeds) = seeds
      BY <1>3 DEF SourceZones, LeadingTo
    <2>2. TargetZone(pair, pair \cap seeds) = IF left \in seeds THEN other ELSE left
      BY <1>1 DEF TargetZone
    <2> QED  BY <1>1, <2>1, <2>2
  <1> QED  BY <1>2, <1>3

\* A share of the roots of at most 2 Scale jobs is not rounded to nothing.
LEMMA ShareIsResolved ==
  ASSUME NEW s \in Nat \ {0}, NEW l \in Nat, NEW r \in Nat, s <= l, s <= r, l <= 2 * Scale, r <= 2 * Scale
  PROVE  \E n \in Nat : n = RoundedByRoot(s, l * r) /\ 2 * n >= s /\ n >= 1 /\ l * r > 0
  <1>1. PICK c \in Nat : c = 2 * Scale
    BY ReportAssumption
  <1>2. PICK q \in Nat \ {0} : q = l * r /\ q <= c * c
    <2>1. 1 * 1 <= l * r /\ l * r <= c * c
      BY <1>1, LargerProducts
    <2> QED  BY <2>1
  <1>3. PICK n \in Nat : n = RoundedByRoot(s, q) /\ (2 * n + 1) * (2 * n + 1) * q > 4 * s * s * Scale * Scale
    BY <1>2, RootRounded
  <1>4. ASSUME 2 * n < s PROVE FALSE
    <2>1. PICK a \in Nat : a = 2 * n + 1 /\ a <= s
      BY <1>4
    <2>2. a * a <= s * s /\ a * a \in Nat /\ s * s \in Nat /\ c * c \in Nat
      BY <2>1, LargerProducts
    <2>3. (a * a) * q <= (s * s) * (c * c)
      BY <1>2, <2>2, LargerProducts
    <2>4. (s * s) * (c * c) = 4 * s * s * Scale * Scale
      <3>1. Scale \in Nat
        BY ReportAssumption
      <3> QED  BY <1>1, <3>1
    <2>5. PICK x \in Nat, y \in Nat : x = (a * a) * q /\ y = (s * s) * (c * c)
      OBVIOUS
    <2> QED  BY <1>3, <2>1, <2>3, <2>4, <2>5
  <1> QED  BY <1>2, <1>3, <1>4

\* The score of an association that s jobs share, p of them with success and q in failure.
LEMMA ScoreOfShare ==
  ASSUME NEW n \in Nat, NEW s \in Nat \ {0}, NEW p \in Nat, NEW q \in Nat, p + q <= s,
         NEW row, row.support = s, row.positive = p, row.negative = q, row.normalized = n
  PROVE  /\ RecommendationScore(row) \in Nat
         /\ 2 * n >= s /\ n >= 1 => (RecommendationScore(row) > 0 <=> p > 0 \/ q = 0)
  <1>1. PICK balance \in Nat : balance = s + p - q /\ 2 * p <= balance
    <2>1. s + p - q \in Nat /\ 2 * p <= s + p - q
      OBVIOUS
    <2> QED  BY <2>1
  <1>2. CASE p + q > 0
    <2>1. PICK m \in Nat : m = 2 * n * balance * p
      <3>1. 2 * n * balance * p \in Nat
        OBVIOUS
      <3> QED  BY <3>1
    <2>2. PICK k \in Nat \ {0} : k = p + q
      BY <1>2
    <2>3. RecommendationScore(row) = Floored((m + k) \div (2 * k))
      BY <1>1, <1>2, <2>1, <2>2 DEF RecommendationScore
    <2>4. (m + k) \div (2 * k) \in Nat /\ ((m + k) \div (2 * k) > 0 <=> m >= k)
      OBVIOUS
    <2>5. RecommendationScore(row) = (m + k) \div (2 * k)
      BY <2>3, <2>4 DEF Floored
    <2>6. CASE p = 0
      <3>1. m = 0
        BY <2>1, <2>6
      <3> QED  BY <1>2, <2>2, <2>4, <2>5, <2>6, <3>1
    <2>7. CASE p # 0
      <3>1. ASSUME 2 * n >= s PROVE m >= k
        <4>1. s * 1 <= (2 * n) * balance
          <5>1. 1 <= balance
            BY <1>1, <2>7
          <5> QED  BY <3>1, <5>1, LargerProducts
        <4>2. ((2 * n) * balance) * 1 <= ((2 * n) * balance) * p
          <5>1. (2 * n) * balance \in Nat
            OBVIOUS
          <5> QED  BY <2>7, <5>1, LargerProducts
        <4>3. PICK x \in Nat : x = (2 * n) * balance
          OBVIOUS
        <4> QED  BY <2>1, <2>2, <4>1, <4>2, <4>3
      <3> QED  BY <2>4, <2>5, <2>7, <3>1
    <2> QED  BY <2>6, <2>7
  <1>3. CASE p + q = 0
    <2>1. p = 0 /\ q = 0 /\ balance = s
      BY <1>1, <1>3
    <2>2. PICK m \in Nat : m = n * s
      OBVIOUS
    <2>3. RecommendationScore(row) = Floored((m + 1) \div 2)
      BY <1>1, <1>3, <2>1, <2>2 DEF RecommendationScore
    <2>4. (m + 1) \div 2 \in Nat /\ ((m + 1) \div 2 > 0 <=> m >= 1)
      OBVIOUS
    <2>5. n >= 1 => m >= 1
      <3>1. n >= 1 => 1 * 1 <= n * s
        BY LargerProducts
      <3> QED  BY <2>2, <3>1
    <2> QED  BY <2>1, <2>3, <2>4, <2>5 DEF Floored
  <1> QED  BY <1>2, <1>3

\* The jobs of a pair that came out well and those that failed are some of its jobs.
LEMMA SharingParts ==
  ASSUME NEW pair
  PROVE  \E s \in Nat, p \in Nat, q \in Nat :
           /\ s = Cardinality(Sharing(pair, Outcomes))
           /\ p = Cardinality(Sharing(pair, {"positive"})) /\ q = Cardinality(Sharing(pair, {"negative"}))
           /\ p + q <= s
           /\ s = 0 <=> Sharing(pair, Outcomes) = {}
           /\ p = 0 <=> Sharing(pair, {"positive"}) = {}
           /\ q = 0 <=> Sharing(pair, {"negative"}) = {}
  <1>1. PICK all, well, badly : /\ all = Sharing(pair, Outcomes) /\ well = Sharing(pair, {"positive"})
                                /\ badly = Sharing(pair, {"negative"})
    OBVIOUS
  <1>2. all \subseteq Jobs /\ well \subseteq all /\ badly \subseteq all /\ well \cap badly = {}
    BY <1>1 DEF Sharing, Outcomes
  <1>3. IsFiniteSet(all) /\ IsFiniteSet(well) /\ IsFiniteSet(badly)
    BY <1>2, AssociationAssumption, FS_Subset
  <1>4. PICK s \in Nat, p \in Nat, q \in Nat : s = Cardinality(all) /\ p = Cardinality(well) /\ q = Cardinality(badly)
    BY <1>3, FS_CardinalityType
  <1>5. p + q <= s
    <2>1. Cardinality(well \cup badly) = p + q
      <3>1. Cardinality(well \cap badly) = 0
        BY <1>2, FS_EmptySet
      <3>2. Cardinality(well \cup badly) = Cardinality(well) + Cardinality(badly) - Cardinality(well \cap badly)
        BY <1>3, FS_Union
      <3> QED  BY <1>4, <3>1, <3>2
    <2>2. Cardinality(well \cup badly) <= Cardinality(all)
      <3>1. well \cup badly \subseteq all
        BY <1>2
      <3> QED  BY <1>3, <3>1, FS_Subset
    <2> QED  BY <1>4, <2>1, <2>2
  <1>6. (s = 0 <=> all = {}) /\ (p = 0 <=> well = {}) /\ (q = 0 <=> badly = {})
    BY <1>3, <1>4, FS_EmptySet
  <1> QED  BY <1>1, <1>4, <1>5, <1>6

\* What the row of a pair says once its jobs are counted.
RowOf(pair, row) ==
  /\ row.support = Cardinality(Sharing(pair, Outcomes))
  /\ row.positive = Cardinality(Sharing(pair, {"positive"}))
  /\ row.negative = Cardinality(Sharing(pair, {"negative"}))
  /\ row.support \in Nat /\ row.positive \in Nat /\ row.negative \in Nat
  /\ row.unknown = row.support - row.positive - row.negative
  /\ RecommendationScore(row) \in Nat
  /\ Resolved => (RecommendationScore(row) > 0
                    <=> Sharing(pair, {"positive"}) # {} \/ Sharing(pair, {"negative"}) = {})

LEMMA RestEnriched ==
  ASSUME RowInv, NEW pair \in Pairs, Recounted(pair), pair \in Stored
  PROVE  RowOf(pair, Enriched(pair))
  <1>1. PICK s \in Nat, p \in Nat, q \in Nat :
          /\ s = Cardinality(Sharing(pair, Outcomes))
          /\ p = Cardinality(Sharing(pair, {"positive"})) /\ q = Cardinality(Sharing(pair, {"negative"}))
          /\ p + q <= s
          /\ s = 0 <=> Sharing(pair, Outcomes) = {}
          /\ p = 0 <=> Sharing(pair, {"positive"}) = {}
          /\ q = 0 <=> Sharing(pair, {"negative"}) = {}
    BY SharingParts
  <1>2. /\ association[pair].support = s /\ association[pair].positive = p /\ association[pair].negative = q
        /\ Cardinality(Observations(pair)) = s /\ s # 0
    BY <1>1 DEF Recounted
  <1>3. PICK l \in Nat, r \in Nat :
          /\ s <= l /\ s <= r /\ l <= Cardinality(Jobs) /\ r <= Cardinality(Jobs)
          /\ Enriched(pair).normalized = IF l * r > 0 THEN RoundedByRoot(s, l * r) ELSE 0
    BY <1>2, SharesOfJobs
  <1>4. PICK q2 \in Nat \ {0} : q2 = l * r
    <2>1. 1 * 1 <= l * r
      BY <1>2, <1>3, LargerProducts
    <2> QED  BY <2>1
  <1>5. PICK n \in Nat : n = RoundedByRoot(s, q2)
    BY <1>2, <1>4, RootRounded
  <1>6. PICK row : row = Enriched(pair)
    OBVIOUS
  <1>7. row.support = s /\ row.positive = p /\ row.negative = q /\ row.unknown = s - p - q
    <2>1. row.support = s /\ row.positive = p /\ row.negative = q /\ row.unknown = Floored(s - (p + q))
      BY <1>2, <1>6 DEF Enriched
    <2> QED  BY <1>1, <2>1 DEF Floored
  <1>8. row.normalized = n
    BY <1>3, <1>4, <1>5, <1>6
  <1>9. /\ RecommendationScore(row) \in Nat
        /\ 2 * n >= s /\ n >= 1 => (RecommendationScore(row) > 0 <=> p > 0 \/ q = 0)
    BY <1>1, <1>2, <1>7, <1>8, ScoreOfShare
  <1>10. Resolved => 2 * n >= s /\ n >= 1
    <2> SUFFICES ASSUME Resolved PROVE 2 * n >= s /\ n >= 1
      OBVIOUS
    <2>1. l <= 2 * Scale /\ r <= 2 * Scale
      <3>1. Cardinality(Jobs) \in Nat /\ Cardinality(Jobs) <= 2 * Scale /\ 2 * Scale \in Nat
        BY AssociationAssumption, ReportAssumption, FS_CardinalityType DEF Resolved
      <3> QED  BY <1>3, <3>1
    <2>2. PICK m \in Nat : m = RoundedByRoot(s, l * r) /\ 2 * m >= s /\ m >= 1 /\ l * r > 0
      BY <1>2, <1>3, <2>1, ShareIsResolved
    <2> QED  BY <1>4, <1>5, <2>2
  <1> QED  BY <1>1, <1>6, <1>7, <1>9, <1>10 DEF RowOf

\* The associations that lead from the seeds to a zone.
PairsTo(seeds, target) ==
  {pair \in Recommending(seeds, TRUE) : TargetZone(pair, SourceZones(pair, seeds)) = target}

\* A link is a job that shares the pair of its zone and the target.
LEMMA LinkOf ==
  ASSUME NEW target \in Zones, NEW zones \in SUBSET Zones, NEW results
  PROVE  /\ \A link \in Links(target, zones, results) :
              link[1] \in Jobs /\ link[2] \in zones /\ link = <<link[1], link[2]>>
         /\ \A j, zone : <<j, zone>> \in Links(target, zones, results)
              <=> zone \in zones /\ j \in Sharing({zone, target}, results)
         /\ IsFiniteSet(Links(target, zones, results))
  <1>1. Links(target, zones, results) \subseteq Jobs \X zones
    BY DEF Links
  <1>2. IsFiniteSet(Jobs \X zones)
    BY AssociationAssumption, FS_Subset, FS_Product
  <1>3. \A j, zone : <<j, zone>> \in Links(target, zones, results)
              <=> zone \in zones /\ j \in Sharing({zone, target}, results)
    BY DEF Links, Sharing
  <1> QED  BY <1>1, <1>2, <1>3, FS_Subset

LEMMA LinkedOf ==
  ASSUME NEW target \in Zones, NEW zones \in SUBSET Zones
  PROVE  \A zone : zone \in Linked(target, zones)
           <=> zone \in zones /\ Sharing({zone, target}, Outcomes) # {}
  <1>1. ASSUME NEW zone \in zones
        PROVE  Links(target, {zone}, Outcomes) # {} <=> Sharing({zone, target}, Outcomes) # {}
    <2>1. {zone} \in SUBSET Zones
      OBVIOUS
    <2>2. /\ \A link \in Links(target, {zone}, Outcomes) :
               link[1] \in Jobs /\ link[2] \in {zone} /\ link = <<link[1], link[2]>>
          /\ \A j, z : <<j, z>> \in Links(target, {zone}, Outcomes) <=> z \in {zone} /\ j \in Sharing({z, target}, Outcomes)
      BY <2>1, LinkOf
    <2>3. \A link \in Links(target, {zone}, Outcomes) : link[1] \in Sharing({zone, target}, Outcomes)
      BY <2>2
    <2> QED  BY <2>2, <2>3
  <1> QED  BY <1>1 DEF Linked

\* They are the pairs of the target with the zones that lead to it and share a job with it.
LEMMA LeadingPairs ==
  ASSUME \A pair \in Pairs : Recounted(pair), NEW seeds \in SUBSET Zones, NEW target \in Zones \ seeds
  PROVE  /\ \A pair : pair \in PairsTo(seeds, target)
              <=> \E zone \in Linked(target, LeadingTo(target, seeds)) : pair = {zone, target}
         /\ \A zone \in Linked(target, LeadingTo(target, seeds)) :
              /\ zone \in Zones /\ zone # target /\ {zone, target} \in Pairs \cap Stored
              /\ SourceZones({zone, target}, seeds) = {zone}
         /\ IsFiniteSet(PairsTo(seeds, target))
  <1>1. LeadingTo(target, seeds) \in SUBSET Zones
    BY DEF LeadingTo
  <1>2. \A pair : pair \in Stored => pair \in Pairs
    BY DEF Stored
  <1>3. ASSUME NEW pair
        PROVE  pair \in PairsTo(seeds, target)
                 <=> /\ pair \in Stored
                     /\ \E zone \in LeadingTo(target, seeds) : zone # target /\ pair = {zone, target}
    <2>1. pair \in PairsTo(seeds, target)
            <=> /\ pair \in Stored /\ SourceZones(pair, seeds) # {}
                /\ TargetZone(pair, SourceZones(pair, seeds)) = target
      BY DEF PairsTo, Recommending
    <2>2. pair \in Pairs =>
            ((SourceZones(pair, seeds) # {} /\ TargetZone(pair, SourceZones(pair, seeds)) = target)
               <=> \E zone \in LeadingTo(target, seeds) : zone # target /\ pair = {zone, target})
      BY LeadsTo
    <2> QED  BY <1>2, <2>1, <2>2
  <1>4. ASSUME NEW zone
        PROVE  zone \in Linked(target, LeadingTo(target, seeds))
                 <=> zone \in LeadingTo(target, seeds) /\ zone # target /\ {zone, target} \in Stored
    <2>1. zone \in Linked(target, LeadingTo(target, seeds))
            <=> zone \in LeadingTo(target, seeds) /\ Sharing({zone, target}, Outcomes) # {}
      BY <1>1, LinkedOf
    <2>2. Sharing({zone, target}, Outcomes) # {} => {zone, target} \in Pairs
      BY DEF Sharing, PairsOf
    <2>3. {zone, target} \in Pairs => zone # target
      <3>1. {target} \notin Pairs /\ (zone = target => {zone, target} = {target})
        BY TwoZones
      <3> QED  BY <3>1
    <2>4. {zone, target} \in Pairs => ({zone, target} \in Stored <=> Sharing({zone, target}, Outcomes) # {})
      BY DEF Recounted
    <2> QED  BY <1>2, <2>1, <2>2, <2>3, <2>4
  <1>5. \A pair : pair \in PairsTo(seeds, target)
          <=> \E zone \in Linked(target, LeadingTo(target, seeds)) : pair = {zone, target}
    BY <1>3, <1>4
  <1>6. ASSUME NEW zone \in Linked(target, LeadingTo(target, seeds))
        PROVE  /\ zone \in Zones /\ zone # target /\ {zone, target} \in Pairs \cap Stored
               /\ SourceZones({zone, target}, seeds) = {zone}
    <2>1. zone \in Zones /\ zone # target /\ {zone, target} \in Pairs \cap Stored
      BY <1>1, <1>2, <1>4
    <2>2. PICK pair \in Pairs : pair = {zone, target}
      BY <2>1
    <2>3. \A other \in LeadingTo(target, seeds) :
            other # target /\ pair = {other, target} => SourceZones(pair, seeds) = {other}
      BY LeadsTo
    <2> QED  BY <1>4, <2>1, <2>2, <2>3
  <1>7. IsFiniteSet(PairsTo(seeds, target))
    <2>1. PairsTo(seeds, target) \subseteq Pairs
      BY <1>2, <1>3
    <2> QED  BY <2>1, PairsFinite, FS_Subset
  <1> QED  BY <1>5, <1>6, <1>7

\* Adding up the jobs of those pairs is counting the links to the target.
LEMMA LinksAddUp ==
  ASSUME \A pair \in Pairs : Recounted(pair), NEW seeds \in SUBSET Zones, NEW target \in Zones \ seeds,
         NEW results \in SUBSET Outcomes,
         NEW counts, \A pair \in PairsTo(seeds, target) : counts[pair] = Cardinality(Sharing(pair, results))
  PROVE  SumFunctionOnSet(counts, PairsTo(seeds, target))
           = Cardinality(Links(target, LeadingTo(target, seeds), results))
  <1>1. PICK links, zones : zones = LeadingTo(target, seeds) /\ links = Links(target, zones, results)
    OBVIOUS
  <1>2. zones \in SUBSET Zones
    BY <1>1 DEF LeadingTo
  <1>3. /\ \A link \in links : link[1] \in Jobs /\ link[2] \in zones /\ link = <<link[1], link[2]>>
        /\ \A j, zone : <<j, zone>> \in links <=> zone \in zones /\ j \in Sharing({zone, target}, results)
        /\ IsFiniteSet(links)
    BY <1>1, <1>2, LinkOf
  <1>4. PICK group : group = PairsTo(seeds, target)
    OBVIOUS
  <1>5. /\ \A pair : pair \in group <=> \E zone \in Linked(target, zones) : pair = {zone, target}
        /\ \A zone \in Linked(target, zones) : zone \in Zones /\ zone # target
        /\ IsFiniteSet(group)
    <2>1. /\ \A pair : pair \in PairsTo(seeds, target)
               <=> \E zone \in Linked(target, LeadingTo(target, seeds)) : pair = {zone, target}
          /\ \A zone \in Linked(target, LeadingTo(target, seeds)) :
               /\ zone \in Zones /\ zone # target /\ {zone, target} \in Pairs \cap Stored
               /\ SourceZones({zone, target}, seeds) = {zone}
          /\ IsFiniteSet(PairsTo(seeds, target))
      BY LeadingPairs
    <2> QED  BY <1>1, <1>4, <2>1
  <1>6. \A zone : zone \in Linked(target, zones) <=> zone \in zones /\ Sharing({zone, target}, Outcomes) # {}
    BY <1>2, LinkedOf
  <1> DEFINE ones == [link \in links |-> 1]
             key == [link \in links |-> {link[2], target}]
             Of(pair) == {link \in links : key[link] = pair}
             sums == [pair \in group |-> SumFunctionOnSet(ones, Of(pair))]
  <1>7. \A link \in links : ones[link] \in Int /\ key[link] \in group
    <2>1. ASSUME NEW link \in links PROVE {link[2], target} \in group
      <3>1. link[2] \in zones /\ link[1] \in Sharing({link[2], target}, results)
        BY <1>3
      <3>2. link[1] \in Sharing({link[2], target}, Outcomes)
        BY <3>1 DEF Sharing
      <3> QED  BY <1>5, <1>6, <3>1, <3>2
    <2> QED  BY <2>1
  <1>8. ASSUME NEW pair \in group
        PROVE  SumFunctionOnSet(ones, Of(pair)) = counts[pair] /\ counts[pair] \in Int
    <2>1. PICK zone \in Linked(target, zones) : pair = {zone, target}
      BY <1>5
    <2>2. zone \in zones /\ zone # target
      BY <1>5, <1>6, <2>1
    <2>3. Of(pair) \in SUBSET links /\ IsFiniteSet(Of(pair)) /\ \A link \in Of(pair) : ones[link] = 1
      <3>1. Of(pair) \in SUBSET links
        OBVIOUS
      <3> QED  BY <1>3, <3>1, FS_Subset
    <2>4. SumFunctionOnSet(ones, Of(pair)) = Cardinality(Of(pair))
      <3> HIDE DEF ones, Of
      <3> QED  BY <2>3, SumOfOnes
    <2>5. PICK jobs : jobs = Sharing(pair, results)
      OBVIOUS
    <2>6. \A link : link \in Of(pair) <=> link = <<link[1], zone>> /\ link[1] \in jobs
      <3>1. \A link \in links : {link[2], target} = pair <=> link[2] = zone
        BY <2>1, <2>2
      <3>2. \A j : <<j, zone>> \in links <=> j \in jobs
        BY <1>3, <2>1, <2>2, <2>5
      <3> QED  BY <1>3, <3>1, <3>2
    <2> DEFINE send == [j \in jobs |-> <<j, zone>>]
    <2>7. send \in Surjection(jobs, Of(pair)) /\ send \in Injection(jobs, Of(pair))
      <3>1. \A j \in jobs : send[j] \in Of(pair)
        <4> HIDE DEF Of
        <4> QED  BY <2>6
      <3>2. \A link \in Of(pair) : link[1] \in jobs /\ send[link[1]] = link
        <4> HIDE DEF Of
        <4> QED  BY <2>6
      <3>3. \A j, k \in jobs : send[j] = send[k] => j = k
        OBVIOUS
      <3> HIDE DEF Of
      <3>4. send \in [jobs -> Of(pair)]
        BY <3>1
      <3> HIDE DEF send
      <3> QED  BY <3>2, <3>3, <3>4 DEF Surjection, Injection, IsInjective
    <2>8. IsFiniteSet(jobs)
      <3>1. jobs \subseteq Jobs
        BY <2>5 DEF Sharing
      <3> QED  BY <3>1, AssociationAssumption, FS_Subset
    <2>9. Cardinality(Of(pair)) = Cardinality(jobs) /\ Cardinality(jobs) \in Nat
      <3> HIDE DEF send, Of
      <3> QED  BY <2>7, <2>8, FS_Surjection, FS_CardinalityType
    <2>10. counts[pair] = Cardinality(jobs)
      BY <1>4, <2>5
    <2> QED  BY <2>4, <2>9, <2>10
  <1>9. SumFunctionOnSet(sums, group) = SumFunctionOnSet(ones, links)
    <2>1. (\A link \in links : ones[link] \in Int) /\ \A link \in links : key[link] \in group
      BY <1>7
    <2> HIDE DEF ones, key
    <2> QED  BY <1>3, <1>5, <2>1, SumPartition
  <1>10. SumFunctionOnSet(ones, links) = Cardinality(links)
    <2>1. \A link \in links : ones[link] = 1
      OBVIOUS
    <2> HIDE DEF ones
    <2> QED  BY <1>3, <2>1, SumOfOnes
  <1>11. SumFunctionOnSet(sums, group) = SumFunctionOnSet(counts, group)
    <2>1. \A pair \in group : counts[pair] \in Int /\ sums[pair] = counts[pair]
      BY <1>8
    <2> HIDE DEF sums
    <2> QED  BY <1>5, <2>1, SumSame
  <1> HIDE DEF sums, ones
  <1> QED  BY <1>1, <1>4, <1>9, <1>10, <1>11

\* What a recommendation says, counted once more.
Counts(r, seeds) ==
  LET links(results) == Links(r.target, LeadingTo(r.target, seeds), results)
  IN /\ r.sources = Linked(r.target, LeadingTo(r.target, seeds))
     /\ r.support = Cardinality(links(Outcomes))
     /\ r.positive = Cardinality(links({"positive"}))
     /\ r.negative = Cardinality(links({"negative"}))
     /\ r.unknown = r.support - r.positive - r.negative
     /\ r.jobs = {link[1] : link \in links(Outcomes)}

LEMMA RecommendationCounts ==
  ASSUME RowInv, \A pair \in Pairs : Recounted(pair), NEW seeds \in SUBSET Zones, NEW target \in Zones \ seeds,
         NEW r, r = Recommendation(target, PairsTo(seeds, target), seeds)
  PROVE  r.target = target /\ Counts(r, seeds) /\ r.score \in Int /\ r.support \in Int
  <1>1. PICK zones, group : zones = LeadingTo(target, seeds) /\ group = PairsTo(seeds, target)
    OBVIOUS
  <1>2. /\ \A pair : pair \in group <=> \E zone \in Linked(target, zones) : pair = {zone, target}
        /\ \A zone \in Linked(target, zones) :
             /\ zone \in Zones /\ zone # target /\ {zone, target} \in Pairs \cap Stored
             /\ SourceZones({zone, target}, seeds) = {zone}
        /\ IsFiniteSet(group)
    <2>1. /\ \A pair : pair \in PairsTo(seeds, target)
               <=> \E zone \in Linked(target, LeadingTo(target, seeds)) : pair = {zone, target}
          /\ \A zone \in Linked(target, LeadingTo(target, seeds)) :
               /\ zone \in Zones /\ zone # target /\ {zone, target} \in Pairs \cap Stored
               /\ SourceZones({zone, target}, seeds) = {zone}
          /\ IsFiniteSet(PairsTo(seeds, target))
      BY LeadingPairs
    <2> QED  BY <1>1, <2>1
  <1>3. ASSUME NEW pair \in group
        PROVE  \E zone \in Linked(target, zones) :
                 /\ zone \in Zones /\ pair = {zone, target} /\ pair \in Pairs /\ pair \in Stored
                 /\ SourceZones(pair, seeds) = {zone}
    <2>1. PICK zone \in Linked(target, zones) : pair = {zone, target}
      BY <1>2
    <2> QED  BY <1>2, <2>1
  <1> DEFINE supports == [pair \in group |-> Enriched(pair).support]
             positives == [pair \in group |-> Enriched(pair).positive]
             negatives == [pair \in group |-> Enriched(pair).negative]
             unknowns == [pair \in group |-> Enriched(pair).unknown]
             scores == [pair \in group |-> RecommendationScore(Enriched(pair))]
             others == [pair \in group |-> supports[pair] - negatives[pair]]
             Sum(f) == SumFunctionOnSet(f, group)
  <1>4. ASSUME NEW pair \in group PROVE RowOf(pair, Enriched(pair))
    BY <1>3, <1>4, RestEnriched
  <1>5. \A pair \in group :
          /\ supports[pair] \in Int /\ supports[pair] = Cardinality(Sharing(pair, Outcomes))
          /\ positives[pair] \in Int /\ positives[pair] = Cardinality(Sharing(pair, {"positive"}))
          /\ negatives[pair] \in Int /\ negatives[pair] = Cardinality(Sharing(pair, {"negative"}))
          /\ unknowns[pair] = supports[pair] - positives[pair] - negatives[pair]
          /\ scores[pair] \in Int
    BY <1>4 DEF RowOf
  <1>6. others = [pair \in group |-> supports[pair] - negatives[pair]]
    OBVIOUS
  <1>7. /\ Total(group, "support") = Sum(supports) /\ Total(group, "positive") = Sum(positives)
        /\ Total(group, "negative") = Sum(negatives) /\ Total(group, "unknown") = Sum(unknowns)
        /\ TotalScore(group) = Sum(scores)
    BY DEF Total, TotalScore
  <1> HIDE DEF supports, positives, negatives, unknowns, scores, others
  <1>8. /\ Sum(supports) \in Int /\ Sum(positives) \in Int /\ Sum(negatives) \in Int /\ Sum(scores) \in Int
    BY <1>2, <1>5, SumType
  <1>9. Sum(unknowns) = Sum(supports) - Sum(positives) - Sum(negatives)
    <2>1. \A pair \in group : negatives[pair] \in Int /\ supports[pair] \in Int
                              /\ others[pair] = supports[pair] - negatives[pair]
      BY <1>5, <1>6
    <2>2. SumFunctionOnSet(others, group) = SumFunctionOnSet(supports, group) - SumFunctionOnSet(negatives, group)
      BY <1>2, <2>1, SumMinus
    <2>3. \A pair \in group : positives[pair] \in Int /\ others[pair] \in Int
                              /\ unknowns[pair] = others[pair] - positives[pair]
      <3>1. ASSUME NEW pair \in group
            PROVE  positives[pair] \in Int /\ others[pair] \in Int /\ unknowns[pair] = others[pair] - positives[pair]
        <4>1. PICK a \in Int, b \in Int, c \in Int : a = supports[pair] /\ b = positives[pair] /\ c = negatives[pair]
          BY <1>5
        <4> QED  BY <1>5, <2>1, <4>1
      <3> QED  BY <3>1
    <2>4. SumFunctionOnSet(unknowns, group) = SumFunctionOnSet(others, group) - SumFunctionOnSet(positives, group)
      BY <1>2, <2>3, SumMinus
    <2> QED  BY <1>8, <2>2, <2>4
  <1>10. /\ Sum(supports) = Cardinality(Links(target, zones, Outcomes))
         /\ Sum(positives) = Cardinality(Links(target, zones, {"positive"}))
         /\ Sum(negatives) = Cardinality(Links(target, zones, {"negative"}))
    <2>1. Outcomes \in SUBSET Outcomes /\ {"positive"} \in SUBSET Outcomes /\ {"negative"} \in SUBSET Outcomes
      BY DEF Outcomes
    <2>2. \A pair \in PairsTo(seeds, target) :
            /\ supports[pair] = Cardinality(Sharing(pair, Outcomes))
            /\ positives[pair] = Cardinality(Sharing(pair, {"positive"}))
            /\ negatives[pair] = Cardinality(Sharing(pair, {"negative"}))
      BY <1>1, <1>5
    <2>3. SumFunctionOnSet(supports, PairsTo(seeds, target))
            = Cardinality(Links(target, LeadingTo(target, seeds), Outcomes))
      BY <2>1, <2>2, LinksAddUp
    <2>4. SumFunctionOnSet(positives, PairsTo(seeds, target))
            = Cardinality(Links(target, LeadingTo(target, seeds), {"positive"}))
      BY <2>1, <2>2, LinksAddUp
    <2>5. SumFunctionOnSet(negatives, PairsTo(seeds, target))
            = Cardinality(Links(target, LeadingTo(target, seeds), {"negative"}))
      BY <2>1, <2>2, LinksAddUp
    <2> QED  BY <1>1, <2>3, <2>4, <2>5
  <1>11. UNION {SourceZones(pair, seeds) : pair \in group} = Linked(target, zones)
    <2>1. \A pair \in group : \E zone \in Linked(target, zones) : SourceZones(pair, seeds) = {zone}
      BY <1>3
    <2>2. \A zone \in Linked(target, zones) : \E pair \in group : SourceZones(pair, seeds) = {zone}
      BY <1>2
    <2> QED  BY <2>1, <2>2
  <1>12. UNION {Observations(pair) : pair \in group} = {link[1] : link \in Links(target, zones, Outcomes)}
    <2>1. zones \in SUBSET Zones
      BY <1>1 DEF LeadingTo
    <2>2. \A pair \in group : Observations(pair) = Sharing(pair, Outcomes)
      BY <1>3 DEF Recounted
    <2>3. /\ \A link \in Links(target, zones, Outcomes) :
               link[1] \in Jobs /\ link[2] \in zones /\ link = <<link[1], link[2]>>
          /\ \A j, zone : <<j, zone>> \in Links(target, zones, Outcomes)
               <=> zone \in zones /\ j \in Sharing({zone, target}, Outcomes)
      BY <2>1, LinkOf
    <2>4. \A zone : zone \in Linked(target, zones) <=> zone \in zones /\ Sharing({zone, target}, Outcomes) # {}
      BY <2>1, LinkedOf
    <2>5. ASSUME NEW pair \in group, NEW j \in Observations(pair)
          PROVE  \E link \in Links(target, zones, Outcomes) : j = link[1]
      <3>1. PICK zone \in Linked(target, zones) : pair = {zone, target}
        BY <1>2
      <3>2. <<j, zone>> \in Links(target, zones, Outcomes) /\ <<j, zone>>[1] = j
        BY <2>2, <2>3, <2>4, <2>5, <3>1
      <3> QED  BY <3>2
    <2>6. ASSUME NEW link \in Links(target, zones, Outcomes)
          PROVE  \E pair \in group : link[1] \in Observations(pair)
      <3>1. link[2] \in zones /\ link[1] \in Sharing({link[2], target}, Outcomes)
        BY <2>3
      <3>2. {link[2], target} \in group
        BY <1>2, <2>4, <3>1
      <3> QED  BY <2>2, <3>1, <3>2
    <2> QED  BY <2>5, <2>6
  <1>13. /\ r.target = target /\ r.sources = UNION {SourceZones(pair, seeds) : pair \in group}
         /\ r.score = TotalScore(group) /\ r.support = Total(group, "support")
         /\ r.positive = Total(group, "positive")
         /\ r.negative = (Total(group, "positive") + Total(group, "negative")) - Total(group, "positive")
         /\ r.unknown = Total(group, "unknown") /\ r.jobs = UNION {Observations(pair) : pair \in group}
    <2>1. r = Recommendation(target, group, seeds)
      BY <1>1
    <2> QED  BY <2>1 DEF Recommendation
  <1>14. r.negative = Sum(negatives)
    BY <1>7, <1>8, <1>13
  <1>15. PICK a \in Int, b \in Int, c \in Int : a = Sum(supports) /\ b = Sum(positives) /\ c = Sum(negatives)
    BY <1>8
  <1>16. r.support = a /\ r.positive = b /\ r.negative = c /\ r.unknown = a - b - c /\ r.score \in Int
    BY <1>7, <1>8, <1>9, <1>13, <1>14, <1>15
  <1> HIDE DEF Sum
  <1>17. r.unknown = r.support - r.positive - r.negative /\ r.support \in Int
    BY <1>16
  <1>18. /\ r.support = Cardinality(Links(r.target, LeadingTo(r.target, seeds), Outcomes))
         /\ r.positive = Cardinality(Links(r.target, LeadingTo(r.target, seeds), {"positive"}))
         /\ r.negative = Cardinality(Links(r.target, LeadingTo(r.target, seeds), {"negative"}))
    BY <1>1, <1>10, <1>13, <1>15, <1>16
  <1>19. /\ r.sources = Linked(r.target, LeadingTo(r.target, seeds))
         /\ r.jobs = {link[1] : link \in Links(r.target, LeadingTo(r.target, seeds), Outcomes)}
    BY <1>1, <1>11, <1>12, <1>13
  <1> QED  BY <1>13, <1>16, <1>17, <1>18, <1>19 DEF Counts

\* Whatever recommends a zone leads to it.
LEMMA TargetsOf ==
  ASSUME NEW seeds \in SUBSET Zones, NEW any \in BOOLEAN
  PROVE  /\ {r.target : r \in Recommendations(seeds, any)}
              = {TargetZone(pair, SourceZones(pair, seeds)) : pair \in Recommending(seeds, any)}
         /\ \A pair \in Recommending(seeds, any) :
              /\ TargetZone(pair, SourceZones(pair, seeds)) \in Zones \ seeds
              /\ pair \in PairsTo(seeds, TargetZone(pair, SourceZones(pair, seeds)))
  <1> DEFINE Target(pair) == TargetZone(pair, SourceZones(pair, seeds))
             linking == Recommending(seeds, any)
             targets == {Target(pair) : pair \in linking}
             Of(target) == Recommendation(target, {pair \in linking : Target(pair) = target}, seeds)
  <1>1. Recommendations(seeds, any) = {Of(target) : target \in targets}
    BY DEF Recommendations
  <1>2. \A target : Of(target).target = target
    BY DEF Recommendation
  <1>3. {r.target : r \in Recommendations(seeds, any)} = targets
    <2> HIDE DEF Of, targets
    <2> QED  BY <1>1, <1>2
  <1>4. ASSUME NEW pair \in linking
        PROVE  Target(pair) \in Zones \ seeds /\ pair \in PairsTo(seeds, Target(pair))
    <2>1. pair \in Stored /\ SourceZones(pair, seeds) # {} /\ Target(pair) \notin seeds
      BY <1>4 DEF Recommending
    <2>2. pair \in Pairs /\ pair \subseteq Zones
      BY <2>1 DEF Stored, Pairs
    <2>3. Target(pair) \in pair
      BY <2>2, ZonesOfPair DEF TargetZone
    <2>4. pair \in Recommending(seeds, TRUE)
      BY <2>1 DEF Recommending
    <2> QED  BY <2>1, <2>2, <2>3, <2>4 DEF PairsTo
  <1> QED  BY <1>3, <1>4

\* All of them are one for each target.
LEMMA AllRecommended ==
  ASSUME NEW seeds \in SUBSET Zones
  PROVE  \A r : r \in Recommendations(seeds, TRUE)
           <=> \E target \in Zones \ seeds :
                 PairsTo(seeds, target) # {} /\ r = Recommendation(target, PairsTo(seeds, target), seeds)
  <1> DEFINE Target(pair) == TargetZone(pair, SourceZones(pair, seeds))
             linking == Recommending(seeds, TRUE)
  <1>1. \A target : {pair \in linking : Target(pair) = target} = PairsTo(seeds, target)
    BY DEF PairsTo
  <1>2. Recommendations(seeds, TRUE)
          = {Recommendation(target, {pair \in linking : Target(pair) = target}, seeds) :
               target \in {Target(pair) : pair \in linking}}
    BY DEF Recommendations
  <1>3. Recommendations(seeds, TRUE)
          = {Recommendation(target, PairsTo(seeds, target), seeds) : target \in {Target(pair) : pair \in linking}}
    BY <1>1, <1>2
  <1>4. \A target : target \in {Target(pair) : pair \in linking}
          <=> target \in Zones \ seeds /\ PairsTo(seeds, target) # {}
    <2>1. \A pair \in linking : Target(pair) \in Zones \ seeds /\ pair \in PairsTo(seeds, Target(pair))
      BY TargetsOf
    <2>2. \A target : \A pair \in PairsTo(seeds, target) : pair \in linking /\ Target(pair) = target
      BY DEF PairsTo
    <2> QED  BY <2>1, <2>2
  <1> QED  BY <1>3, <1>4

\* The recommended zones are those that share a job with one that leads to them; and but
\* for the associations that score nothing, those with a success or without a failure.
LEMMA RecommendedZones ==
  ASSUME RowInv, \A pair \in Pairs : Recounted(pair), NEW seeds \in SUBSET Zones
  PROVE  /\ {r.target : r \in Recommendations(seeds, TRUE)}
              = {z \in Zones \ seeds : Linked(z, LeadingTo(z, seeds)) # {}}
         /\ Resolved => {r.target : r \in Recommendations(seeds, FALSE)} =
              {z \in Zones \ seeds : \E zone \in Linked(z, LeadingTo(z, seeds)) :
                 \/ Links(z, {zone}, {"positive"}) # {}
                 \/ Links(z, {zone}, {"negative"}) = {}}
  <1>1. ASSUME NEW z \in Zones \ seeds
        PROVE  /\ \A pair : pair \in PairsTo(seeds, z)
                    <=> \E zone \in Linked(z, LeadingTo(z, seeds)) : pair = {zone, z}
               /\ \A zone \in Linked(z, LeadingTo(z, seeds)) :
                    zone \in Zones /\ {zone, z} \in Pairs /\ {zone, z} \in Stored
    <2>1. /\ \A pair : pair \in PairsTo(seeds, z)
               <=> \E zone \in Linked(z, LeadingTo(z, seeds)) : pair = {zone, z}
          /\ \A zone \in Linked(z, LeadingTo(z, seeds)) :
               /\ zone \in Zones /\ zone # z /\ {zone, z} \in Pairs \cap Stored
               /\ SourceZones({zone, z}, seeds) = {zone}
          /\ IsFiniteSet(PairsTo(seeds, z))
      BY LeadingPairs
    <2> QED  BY <2>1
  <1>2. \A z, any : any \in BOOLEAN =>
          (z \in {r.target : r \in Recommendations(seeds, any)}
             <=> z \in Zones \ seeds /\ PairsTo(seeds, z) \cap Recommending(seeds, any) # {})
    <2> SUFFICES ASSUME NEW z, NEW any \in BOOLEAN
                 PROVE  z \in {r.target : r \in Recommendations(seeds, any)}
                          <=> z \in Zones \ seeds /\ PairsTo(seeds, z) \cap Recommending(seeds, any) # {}
      OBVIOUS
    <2>1. /\ {r.target : r \in Recommendations(seeds, any)}
               = {TargetZone(pair, SourceZones(pair, seeds)) : pair \in Recommending(seeds, any)}
          /\ \A pair \in Recommending(seeds, any) :
               /\ TargetZone(pair, SourceZones(pair, seeds)) \in Zones \ seeds
               /\ pair \in PairsTo(seeds, TargetZone(pair, SourceZones(pair, seeds)))
      BY TargetsOf
    <2>2. \A pair \in PairsTo(seeds, z) : TargetZone(pair, SourceZones(pair, seeds)) = z
      BY DEF PairsTo
    <2> QED  BY <2>1, <2>2
  <1>3. {r.target : r \in Recommendations(seeds, TRUE)}
          = {z \in Zones \ seeds : Linked(z, LeadingTo(z, seeds)) # {}}
    <2>1. \A z : PairsTo(seeds, z) \subseteq Recommending(seeds, TRUE)
      BY DEF PairsTo
    <2>2. \A z \in Zones \ seeds : PairsTo(seeds, z) # {} <=> Linked(z, LeadingTo(z, seeds)) # {}
      BY <1>1
    <2>3. \A z : z \in {r.target : r \in Recommendations(seeds, TRUE)}
            <=> z \in Zones \ seeds /\ Linked(z, LeadingTo(z, seeds)) # {}
      BY <1>2, <2>1, <2>2
    <2> QED  BY <2>3
  <1>4. ASSUME Resolved, NEW z \in Zones \ seeds
        PROVE  PairsTo(seeds, z) \cap Recommending(seeds, FALSE) # {}
                 <=> \E zone \in Linked(z, LeadingTo(z, seeds)) :
                       Links(z, {zone}, {"positive"}) # {} \/ Links(z, {zone}, {"negative"}) = {}
    <2>1. ASSUME NEW zone \in Linked(z, LeadingTo(z, seeds))
          PROVE  {zone, z} \in Recommending(seeds, FALSE)
                   <=> Links(z, {zone}, {"positive"}) # {} \/ Links(z, {zone}, {"negative"}) = {}
      <3>1. PICK pair \in Pairs : pair = {zone, z} /\ pair \in Stored /\ pair \in PairsTo(seeds, z)
        BY <1>1
      <3>2. RowOf(pair, Enriched(pair))
        BY <3>1, RestEnriched
      <3>3. pair \in Recommending(seeds, FALSE) <=> RecommendationScore(Enriched(pair)) > 0
        BY <3>1 DEF PairsTo, Recommending
      <3>4. ASSUME NEW results PROVE Links(z, {zone}, results) # {} <=> Sharing(pair, results) # {}
        <4>1. {zone} \in SUBSET Zones
          BY <1>1
        <4>2. /\ \A link \in Links(z, {zone}, results) :
                   link[1] \in Jobs /\ link[2] \in {zone} /\ link = <<link[1], link[2]>>
              /\ \A j, other : <<j, other>> \in Links(z, {zone}, results)
                   <=> other \in {zone} /\ j \in Sharing({other, z}, results)
          BY <4>1, LinkOf
        <4>3. ASSUME NEW link \in Links(z, {zone}, results) PROVE link[1] \in Sharing(pair, results)
          <5>1. link[2] = zone /\ <<link[1], link[2]>> \in Links(z, {zone}, results)
            BY <4>2
          <5> QED  BY <3>1, <4>2, <5>1
        <4>4. \A j \in Sharing(pair, results) : <<j, zone>> \in Links(z, {zone}, results)
          BY <3>1, <4>2
        <4> QED  BY <4>3, <4>4
      <3> QED  BY <1>4, <3>1, <3>2, <3>3, <3>4 DEF RowOf
    <2>2. \A pair : pair \in PairsTo(seeds, z)
            <=> \E zone \in Linked(z, LeadingTo(z, seeds)) : pair = {zone, z}
      BY <1>1
    <2>3. ASSUME NEW pair \in PairsTo(seeds, z) \cap Recommending(seeds, FALSE)
          PROVE  \E zone \in Linked(z, LeadingTo(z, seeds)) : {zone, z} \in Recommending(seeds, FALSE)
      <3>1. PICK zone \in Linked(z, LeadingTo(z, seeds)) : pair = {zone, z}
        BY <2>2
      <3> QED  BY <3>1
    <2>4. ASSUME NEW zone \in Linked(z, LeadingTo(z, seeds)), {zone, z} \in Recommending(seeds, FALSE)
          PROVE  PairsTo(seeds, z) \cap Recommending(seeds, FALSE) # {}
      <3>1. PICK pair : pair = {zone, z}
        OBVIOUS
      <3>2. pair \in PairsTo(seeds, z) /\ pair \in Recommending(seeds, FALSE)
        BY <2>2, <2>4, <3>1
      <3> QED  BY <3>2
    <2> QED  BY <2>1, <2>3, <2>4
  <1>5. ASSUME Resolved
        PROVE  {r.target : r \in Recommendations(seeds, FALSE)} =
                 {z \in Zones \ seeds : \E zone \in Linked(z, LeadingTo(z, seeds)) :
                    \/ Links(z, {zone}, {"positive"}) # {}
                    \/ Links(z, {zone}, {"negative"}) = {}}
    <2>1. \A z : z \in {r.target : r \in Recommendations(seeds, FALSE)}
            <=> z \in Zones \ seeds /\ \E zone \in Linked(z, LeadingTo(z, seeds)) :
                  Links(z, {zone}, {"positive"}) # {} \/ Links(z, {zone}, {"negative"}) = {}
      BY <1>2, <1>4, <1>5
    <2> QED  BY <2>1
  <1> QED  BY <1>3, <1>5

\* Among recommendations of different targets, one precedes the other.
LEMMA PrecedesOrders ==
  ASSUME NEW all, \A r \in all : r.target \in Zones /\ r.score \in Int /\ r.support \in Int,
         \A r, q \in all : r.target = q.target => r = q
  PROVE  IsOrder(all, {pick \in all \X all : Precedes(pick[1], pick[2])})
  <1> DEFINE before(a, b) == \E i, k \in DOMAIN ZoneIds : i < k /\ ZoneIds[i] = a.target /\ ZoneIds[k] = b.target
             less == {pick \in all \X all : Precedes(pick[1], pick[2])}
  <1>1. /\ DOMAIN ZoneIds \subseteq Int
        /\ \A zone \in Zones : \E i \in DOMAIN ZoneIds : ZoneIds[i] = zone
        /\ \A i, k \in DOMAIN ZoneIds : ZoneIds[i] = ZoneIds[k] => i = k
    BY ReportAssumption DEF Range, IsInjective
  <1>2. \A a, b \in all : <<a, b>> \in less <=> Precedes(a, b)
    OBVIOUS
  <1>3. \A a, b \in all :
          Precedes(a, b) <=> \/ a.score > b.score
                             \/ a.score = b.score /\ a.support > b.support
                             \/ a.score = b.score /\ a.support = b.support /\ before(a, b)
    BY DEF Precedes
  <1>4. /\ \A a, b \in all : a # b => before(a, b) \/ before(b, a)
        /\ \A a, b, c \in all : before(a, b) /\ before(b, c) => before(a, c)
        /\ \A a \in all : ~before(a, a)
    <2>1. ASSUME NEW a \in all, NEW b \in all, a # b PROVE before(a, b) \/ before(b, a)
      <3>1. PICK i \in DOMAIN ZoneIds, k \in DOMAIN ZoneIds : ZoneIds[i] = a.target /\ ZoneIds[k] = b.target
        BY <1>1
      <3>2. i # k
        BY <2>1, <3>1
      <3> QED  BY <1>1, <3>1, <3>2
    <2>2. ASSUME NEW a \in all, NEW b \in all, NEW c \in all, before(a, b), before(b, c) PROVE before(a, c)
      <3>1. PICK i \in DOMAIN ZoneIds, k \in DOMAIN ZoneIds : i < k /\ ZoneIds[i] = a.target /\ ZoneIds[k] = b.target
        BY <2>2
      <3>2. PICK m \in DOMAIN ZoneIds, n \in DOMAIN ZoneIds : m < n /\ ZoneIds[m] = b.target /\ ZoneIds[n] = c.target
        BY <2>2
      <3>3. k = m /\ i < n
        BY <1>1, <3>1, <3>2
      <3> QED  BY <3>1, <3>2, <3>3
    <2>3. ASSUME NEW a \in all, before(a, a) PROVE FALSE
      BY <1>1, <2>3
    <2> QED  BY <2>1, <2>2, <2>3
  <1> HIDE DEF before, less
  <1> QED  BY <1>2, <1>3, <1>4 DEF IsOrder, less

\* No recommendation that was left out scores more than one that was kept.
NoneBetter(r, best, limit) == Len(best) = limit /\ \A k \in DOMAIN best : best[k].score >= r.score

LEMMA BestAreBest ==
  ASSUME NEW all, IsFiniteSet(all), \A r \in all : r.target \in Zones /\ r.score \in Int /\ r.support \in Int,
         \A r, q \in all : r.target = q.target => r = q,
         NEW listed, listed = Ranked(all), NEW limit \in Nat,
         NEW best, best = SubSeq(listed, 1, IF limit < Len(listed) THEN limit ELSE Len(listed)),
         NEW r \in all \ Range(best)
  PROVE  NoneBetter(r, best, limit)
  <1>0. PICK n \in Nat : n = Cardinality(all)
    BY FS_CardinalityType
  <1> DEFINE less == {pick \in all \X all : Precedes(pick[1], pick[2])}
  <1>1. IsOrder(all, less)
    BY PrecedesOrders
  <1>2. \A a, b \in all : <<a, b>> \in less <=> Precedes(a, b)
    OBVIOUS
  <1> HIDE DEF less
  <1>3. PICK s \in [1 .. n -> all] : IsListed(s, less)
    BY <1>0, <1>1, ListingExists
  <1>4. \A i, k \in DOMAIN s : i < k => Precedes(s[i], s[k])
    BY <1>2, <1>3 DEF IsListed
  <1>5. listed \in [1 .. n -> all] /\ \A i, k \in DOMAIN listed : i < k => Precedes(listed[i], listed[k])
    BY <1>0, <1>3, <1>4 DEF Ranked
  <1>6. IsListed(listed, less)
    BY <1>2, <1>5 DEF IsListed
  <1>7. \A x \in all : \E i \in 1 .. n : listed[i] = x
    BY <1>0, <1>1, <1>5, <1>6, ListingHasAll
  <1>8. listed \in Seq(all) /\ Len(listed) = n
    BY <1>5
  <1>9. PICK m \in 0 .. n : m = IF limit < n THEN limit ELSE n
    OBVIOUS
  <1>10. Len(best) = m /\ DOMAIN best = 1 .. m /\ \A k \in 1 .. m : best[k] = listed[k]
    BY <1>8, <1>9
  <1>11. PICK i \in 1 .. n : listed[i] = r
    BY <1>7
  <1>12. i > m
    <2>1. i \in 1 .. m => r \in Range(best)
      BY <1>10, <1>11 DEF Range
    <2> QED  BY <2>1
  <1>13. Len(best) = limit
    BY <1>9, <1>10, <1>12
  <1>14. ASSUME NEW k \in DOMAIN best PROVE best[k].score >= r.score
    <2>1. k \in 1 .. n /\ k < i /\ best[k] = listed[k] /\ listed[k] \in all
      <3>1. k \in 1 .. m
        BY <1>10
      <3>2. k \in 1 .. n /\ k < i
        BY <1>12, <3>1
      <3> QED  BY <1>5, <1>10, <3>1, <3>2
    <2>2. Precedes(listed[k], r)
      BY <1>5, <1>11, <2>1
    <2>3. listed[k].score \in Int /\ r.score \in Int
      BY <2>1
    <2> QED  BY <2>1, <2>2, <2>3 DEF Precedes
  <1> QED  BY <1>13, <1>14 DEF NoneBetter

\* What is recommended after the runs of a process that works alone is what the jobs say,
\* counted anew, and the best of it comes first.
THEOREM RecommendationsAreRecounted ==
  ASSUME NEW solo, Procs = {solo}
  PROVE  Spec => []RecommendationsRecount
  <1>1. solo \in Procs
    OBVIOUS
  <1>2. Init => SoloInv(solo)
    BY <1>1, InitSolo
  <1>3. RunInv /\ RunInv' /\ CommandInv /\ RowInv /\ SoloInv(solo) /\ [Next]_vars => SoloInv(solo)'
    BY <1>1, SoloStep
  <1>4. Spec => []CountersAreExact
    BY SoloCountersAreExact
  <1>5. ASSUME RunInv, RowInv, SoloInv(solo), EnsuredInv, RowsFollowEvents, CountersAreExact
        PROVE  RecommendationsRecount
    <2> SUFFICES ASSUME running = {}, aborts = 0, NEW seeds \in SUBSET Zones
                 PROVE  /\ {r.target : r \in Recommendations(seeds, TRUE)}
                             = {z \in Zones \ seeds : Linked(z, LeadingTo(z, seeds)) # {}}
                        /\ \A r \in Recommendations(seeds, TRUE) : Counts(r, seeds)
                        /\ Resolved => {r.target : r \in Recommendations(seeds, FALSE)} =
                             {z \in Zones \ seeds : \E zone \in Linked(z, LeadingTo(z, seeds)) :
                                \/ Links(z, {zone}, {"positive"}) # {}
                                \/ Links(z, {zone}, {"negative"}) = {}}
                        /\ \A limit \in 1 .. 2 :
                             \A r \in Recommendations(seeds, TRUE) \ Range(Best(seeds, TRUE, limit)) :
                               /\ Len(Best(seeds, TRUE, limit)) = limit
                               /\ \A k \in DOMAIN Best(seeds, TRUE, limit) :
                                    Best(seeds, TRUE, limit)[k].score >= r.score
      BY DEF RecommendationsRecount, Counts
    <2>1. \A pair \in Pairs : Recounted(pair)
      BY <1>5, RestRecounts
    <2>2. PICK all : all = Recommendations(seeds, TRUE)
      OBVIOUS
    <2>3. \A r : r \in all
            <=> \E target \in Zones \ seeds :
                  PairsTo(seeds, target) # {} /\ r = Recommendation(target, PairsTo(seeds, target), seeds)
      BY <2>2, AllRecommended
    <2>4. ASSUME NEW r \in all
          PROVE  /\ r.target \in Zones /\ Counts(r, seeds) /\ r.score \in Int /\ r.support \in Int
                 /\ r = Recommendation(r.target, PairsTo(seeds, r.target), seeds)
      <3>1. PICK target \in Zones \ seeds : r = Recommendation(target, PairsTo(seeds, target), seeds)
        BY <2>3
      <3>2. r.target = target /\ Counts(r, seeds) /\ r.score \in Int /\ r.support \in Int
        BY <1>5, <2>1, <3>1, RecommendationCounts
      <3> QED  BY <3>1, <3>2
    <2>5. \A r, q \in all : r.target = q.target => r = q
      BY <2>4
    <2>6. IsFiniteSet(all)
      <3> DEFINE targetOf == [r \in all |-> r.target]
      <3>1. targetOf \in [all -> Zones] /\ \A r, q \in all : targetOf[r] = targetOf[q] => r = q
        BY <2>4, <2>5
      <3>2. targetOf \in Injection(all, Zones)
        <4> HIDE DEF targetOf
        <4> QED  BY <3>1 DEF Injection, IsInjective
      <3> HIDE DEF targetOf
      <3> QED  BY <3>2, AssociationAssumption, FS_Injection
    <2>7. ASSUME NEW limit \in 1 .. 2, NEW r \in all \ Range(Best(seeds, TRUE, limit))
          PROVE  /\ Len(Best(seeds, TRUE, limit)) = limit
                 /\ \A k \in DOMAIN Best(seeds, TRUE, limit) : Best(seeds, TRUE, limit)[k].score >= r.score
      <3>1. PICK listed : listed = Ranked(all)
        OBVIOUS
      <3>2. PICK best : best = Best(seeds, TRUE, limit)
        OBVIOUS
      <3>3. best = SubSeq(listed, 1, IF limit < Len(listed) THEN limit ELSE Len(listed))
        BY <2>2, <3>1, <3>2 DEF Best
      <3>4. limit \in Nat
        OBVIOUS
      <3>5. r \in all \ Range(best)
        BY <3>2
      <3>6. \A q \in all : q.target \in Zones /\ q.score \in Int /\ q.support \in Int
        BY <2>4
      <3>7. NoneBetter(r, best, limit)
        BY <2>5, <2>6, <3>1, <3>3, <3>4, <3>5, <3>6, BestAreBest
      <3> QED  BY <3>2, <3>7 DEF NoneBetter
    <2>8. /\ {r.target : r \in Recommendations(seeds, TRUE)}
               = {z \in Zones \ seeds : Linked(z, LeadingTo(z, seeds)) # {}}
          /\ Resolved => {r.target : r \in Recommendations(seeds, FALSE)} =
               {z \in Zones \ seeds : \E zone \in Linked(z, LeadingTo(z, seeds)) :
                  \/ Links(z, {zone}, {"positive"}) # {}
                  \/ Links(z, {zone}, {"negative"}) = {}}
      BY <1>5, <2>1, RecommendedZones
    <2> QED  BY <2>2, <2>4, <2>7, <2>8
  <1> QED  BY <1>2, <1>3, <1>4, <1>5, RunInvariance, CommandInvariance, RowInvariance, EnsuredInvariance, RowsFollow,
             PTL DEF Spec
=============================================================================
