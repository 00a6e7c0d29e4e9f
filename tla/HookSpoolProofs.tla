-------------------------- MODULE HookSpoolProofs --------------------------
(***************************************************************************)
(* Proofs about HookSpool for any packets, any contents, any number of     *)
(* drainers and any number of failures: a packet that is being worked on   *)
(* has one owner, one that reached processed/ is in the ledger, prompts    *)
(* are numbered without a gap, and the spool implements PacketDelivery.    *)
(*   SpoolInv    what a drainer has left to do, and has done               *)
(*   NumberInv   the prompts of a session, and the index about to be taken *)
(*   SentInv     the packets that may have an event                        *)
(*   DamageInv   what each failure has paid for                            *)
(***************************************************************************)
EXTENDS HookSpool, SequenceTheorems, FiniteSetTheorems, TLAPS

Types ==
  /\ loc \in [Packets -> Places]
  /\ events \subseteq Packets
  /\ sessions \in [Sessions -> {"none", "open", "ended"}]
  /\ DOMAIN prompts = Sessions
  /\ prompts = [s \in Sessions |-> prompts[s]]
  /\ todo \in [Drainers -> Seq(Packets)]
  /\ held \in [Drainers -> Packets \cup {None}]
  /\ DOMAIN work = Drainers
  /\ work = [d \in Drainers |-> work[d]]
  /\ DOMAIN index = Drainers
  /\ index = [d \in Drainers |-> index[d]]

HasEvent(f) == f \in events
HasSession(f) == HasEvent(f) /\ sessions[Content[f].session] # "none"

\* The statements a drainer has left for a file, with what the ones before them wrote.
PromptLeft(f, left) ==
  \/ left = <<"event", "session", "count", "insert", "finish">>
  \/ left = <<"session", "count", "insert", "finish">> /\ HasEvent(f)
  \/ left = <<"count", "insert", "finish">> /\ HasSession(f)
  \/ left = <<"insert", "finish">> /\ HasSession(f)

StartLeft(f, left) ==
  \/ left = <<"event", "session", "finish">>
  \/ left = <<"session", "finish">> /\ HasEvent(f)

EndLeft(f, left) ==
  \/ left = <<"event", "session", "end", "finish">>
  \/ left = <<"session", "end", "finish">> /\ HasEvent(f)
  \/ left = <<"end", "finish">> /\ HasEvent(f)

Left(f, left) ==
  \/ left = <<"parse">>
  \/ left = <<"requeue">>
  \/ left = <<"finish">> /\ Persisted(f)
  \/ Content[f].kind = "prompt" /\ PromptLeft(f, left)
  \/ Content[f].kind = "start" /\ StartLeft(f, left)
  \/ Content[f].kind = "end" /\ EndLeft(f, left)
  \/ Content[f].kind \in {"tool", "incomplete"} /\ left = <<"event", "finish">>

InProgress ==
  \A d \in Drainers : IF held[d] = None THEN work[d] = <<>> ELSE Left(held[d], work[d])

\* The inductive invariant.
SpoolInv == Types /\ OneOwner /\ InProgress /\ ProcessedIsPersisted

\* What no step takes out of the ledger.
LedgerGrows ==
  /\ events \subseteq events'
  /\ \A s \in Sessions :
       /\ sessions[s] # "none" => sessions'[s] # "none"
       /\ sessions[s] = "ended" => sessions'[s] = "ended"
       /\ \A i \in DOMAIN prompts[s] : i \in DOMAIN prompts'[s] /\ prompts'[s][i] = prompts[s][i]

-----------------------------------------------------------------------------
\* A packet that is in the ledger stays there while the ledger grows.
LEMMA PersistedStays ==
  ASSUME LedgerGrows, NEW f \in Packets, Persisted(f)
  PROVE  Persisted(f)'
  <1>1. Content[f].session \in Sessions
    BY SpoolAssumption
  <1>2. ASSUME PromptRows(f) # {} PROVE PromptRows(f)' # {}
    <2>1. PICK i \in DOMAIN prompts[Content[f].session] : prompts[Content[f].session][i] = f
      BY <1>2 DEF PromptRows
    <2>2. i \in DOMAIN prompts'[Content[f].session] /\ prompts'[Content[f].session][i] = f
      BY <1>1, <2>1 DEF LedgerGrows
    <2> QED  BY <2>2 DEF PromptRows
  <1> QED  BY <1>1, <1>2 DEF LedgerGrows, Persisted

\* The statements a drainer has left keep their meaning while the ledger grows.
LEMMA LeftStays ==
  ASSUME LedgerGrows, NEW f \in Packets, NEW left, Left(f, left)
  PROVE  Left(f, left)'
  <1>1. Content[f].session \in Sessions
    BY SpoolAssumption
  <1>2. (HasEvent(f) => HasEvent(f)') /\ (HasSession(f) => HasSession(f)')
    BY <1>1 DEF LedgerGrows, HasEvent, HasSession
  <1>3. Persisted(f) => Persisted(f)'
    BY PersistedStays
  <1> QED  BY <1>2, <1>3 DEF Left, PromptLeft, StartLeft, EndLeft

\* A drainer that does something holds a file, and its next statement says what is left.
LEMMA DoingLeft ==
  ASSUME SpoolInv, NEW d \in Drainers, NEW statement, Doing(d, statement)
  PROVE  /\ held[d] \in Packets /\ held[d] # None
         /\ Left(held[d], work[d])
         /\ Content[held[d]] \in [kind: PacketKinds, session: Sessions]
         /\ Head(work[d]) = statement
  <1>1. held[d] # None /\ Left(held[d], work[d])
    BY DEF SpoolInv, InProgress, Doing
  <1>2. held[d] \in Packets
    BY <1>1 DEF SpoolInv, Types
  <1> QED  BY <1>1, <1>2, SpoolAssumption DEF Doing

\* What a drainer has left depends on the file and the statements alone.
LEMMA SameLeft ==
  ASSUME NEW d \in Drainers, NEW f, NEW left, Left(f, left)', held'[d] = f, work'[d] = left
  PROVE  Left(held[d], work[d])'
  BY DEF Left, PromptLeft, StartLeft, EndLeft, HasEvent, HasSession, Persisted, PromptRows

\* What is kept by a step that leaves alone the files that others work on, lets the
\* ledger grow and puts this drainer in a state it may be in.
LEMMA StepOf ==
  ASSUME SpoolInv, Types', LedgerGrows, NEW d \in Drainers,
         \A other \in Drainers \ {d} : held'[other] = held[other] /\ work'[other] = work[other],
         (IF held[d] = None THEN work[d] = <<>> ELSE Left(held[d], work[d]))',
         held'[d] # None => loc'[held'[d]] = "processing" /\ held'[d] \in {held[d]} \cup Listed,
         \A f \in Packets : f # held[d] /\ loc[f] = "processing" => loc'[f] = loc[f],
         \A f \in Packets : loc'[f] = "processed" => loc[f] = "processed" \/ Persisted(f)
  PROVE  SpoolInv'
  <1>1. InProgress'
    <2> SUFFICES ASSUME NEW e \in Drainers
                 PROVE  (IF held[e] = None THEN work[e] = <<>> ELSE Left(held[e], work[e]))'
      BY DEF InProgress
    <2>1. CASE e = d
      BY <2>1
    <2>2. CASE e # d
      <3>1. held'[e] = held[e] /\ work'[e] = work[e]
        BY <2>2
      <3>2. IF held[e] = None THEN work[e] = <<>> ELSE Left(held[e], work[e])
        BY DEF SpoolInv, InProgress
      <3>3. ASSUME held[e] # None PROVE Left(held[e], work[e])'
        <4>1. held[e] \in Packets
          BY <3>3 DEF SpoolInv, Types
        <4>2. PICK f \in Packets, left \in {work[e]} : f = held[e] /\ Left(f, left)
          BY <3>2, <3>3, <4>1
        <4>3. Left(f, left)'
          BY <4>2, LeftStays
        <4> QED  BY <3>1, <4>2, <4>3, SameLeft
      <3> QED  BY <3>1, <3>2, <3>3
    <2> QED  BY <2>1, <2>2
  <1>2. OneOwner'
    <2>1. \A e \in Drainers : held[e] # None =>
            /\ held[e] \in Packets /\ loc[held[e]] = "processing"
            /\ \A other \in Drainers \ {e} : held[other] # held[e]
      BY DEF SpoolInv, Types, OneOwner
    <2>2. \A e \in Drainers \ {d} : held[e] # None => loc'[held[e]] = "processing" /\ held'[d] # held[e]
      BY <2>1 DEF Listed
    <2> QED  BY <2>1, <2>2 DEF OneOwner
  <1>3. ProcessedIsPersisted'
    <2> SUFFICES ASSUME NEW f \in Packets, loc'[f] = "processed" PROVE Persisted(f)'
      BY DEF ProcessedIsPersisted
    <2>1. Persisted(f)
      BY DEF SpoolInv, ProcessedIsPersisted
    <2> QED  BY <2>1, PersistedStays
  <1> QED  BY <1>1, <1>2, <1>3 DEF SpoolInv

\* A step in which no drainer takes, leaves or works on a file.
LEMMA IdleStep ==
  ASSUME SpoolInv, Types', UNCHANGED <<events, sessions, prompts, held, work>>,
         \A f \in Packets : loc[f] = "processing" => loc'[f] = "processing",
         \A f \in Packets : loc'[f] = "processed" => loc[f] = "processed"
  PROVE  SpoolInv'
  <1>1. InProgress'
    BY DEF SpoolInv, InProgress, Left, PromptLeft, StartLeft, EndLeft, HasEvent, HasSession,
           Persisted, PromptRows
  <1>2. OneOwner'
    BY DEF SpoolInv, Types, OneOwner
  <1>3. ProcessedIsPersisted'
    BY DEF SpoolInv, ProcessedIsPersisted, Persisted, PromptRows
  <1> QED  BY <1>1, <1>2, <1>3 DEF SpoolInv

\* A step in which a drainer goes on with its file.
LEMMA WorkStep ==
  ASSUME SpoolInv, Types', LedgerGrows, NEW d \in Drainers, NEW f \in Packets, f = held[d],
         NEW left, Left(f, left)', UNCHANGED <<held, loc>>, work' = [work EXCEPT ![d] = left]
  PROVE  SpoolInv'
  <1>1. work'[d] = left /\ held'[d] = f /\ \A other \in Drainers \ {d} : work'[other] = work[other]
    BY DEF SpoolInv, Types
  <1>2. Left(held[d], work[d])'
    BY <1>1, SameLeft
  <1>3. f # None
    BY SpoolAssumption
  <1>4. loc[f] = "processing"
    BY <1>3 DEF SpoolInv, OneOwner
  <1>5. (IF held[d] = None THEN work[d] = <<>> ELSE Left(held[d], work[d]))'
    BY <1>1, <1>2, <1>3
  <1> QED  BY <1>1, <1>4, <1>5, StepOf

\* A step in which a drainer lets go of its file.
LEMMA DropStep ==
  ASSUME SpoolInv, Types', UNCHANGED ledger, NEW d \in Drainers,
         held' = [held EXCEPT ![d] = None], work' = [work EXCEPT ![d] = <<>>],
         \A f \in Packets : f # held[d] => loc'[f] = loc[f],
         \A f \in Packets : loc'[f] = "processed" => loc[f] = "processed" \/ Persisted(f)
  PROVE  SpoolInv'
  <1>1. LedgerGrows
    BY DEF ledger, LedgerGrows
  <1>2. /\ held'[d] = None /\ work'[d] = <<>>
        /\ \A other \in Drainers \ {d} : held'[other] = held[other] /\ work'[other] = work[other]
    BY DEF SpoolInv, Types
  <1>3. (IF held[d] = None THEN work[d] = <<>> ELSE Left(held[d], work[d]))'
    BY <1>2
  <1> QED  BY <1>1, <1>2, <1>3, StepOf

-----------------------------------------------------------------------------
(* The hook processes.                                                     *)

LEMMA WriteTmpStep == ASSUME SpoolInv, NEW f \in Packets, WriteTmp(f) PROVE SpoolInv'
  <1>1. Types'
    BY DEF SpoolInv, Types, WriteTmp, ledger, Places
  <1> QED  BY <1>1, IdleStep DEF SpoolInv, Types, WriteTmp, ledger

LEMMA PublishStep == ASSUME SpoolInv, NEW f \in Packets, Publish(f) PROVE SpoolInv'
  <1>1. Types'
    BY DEF SpoolInv, Types, Publish, ledger, Places
  <1> QED  BY <1>1, IdleStep DEF SpoolInv, Types, Publish, ledger

(* The drainers, file by file.                                             *)

LEMMA StartDrainStep == ASSUME SpoolInv, NEW d \in Drainers, StartDrain(d) PROVE SpoolInv'
  <1>1. PICK files \in [1..Cardinality(Listed) -> Listed] :
          todo' = [todo EXCEPT ![d] = SubSeq(files, 1, IF Len(files) < Limit THEN Len(files) ELSE Limit)]
    BY DEF StartDrain
  <1> DEFINE n == Cardinality(Listed)
             first == IF Len(files) < Limit THEN Len(files) ELSE Limit
  <1>2. n \in Nat
    BY SpoolAssumption, FS_Subset, FS_CardinalityType DEF Listed
  <1>3. files \in Seq(Packets) /\ Len(files) = n
    <2>1. files \in [1..n -> Packets]
      <3>1. Listed \subseteq Packets
        BY DEF Listed
      <3> QED  BY <1>1, <3>1
    <2> HIDE DEF n
    <2>2. files \in Seq(Packets)
      BY <1>2, <2>1, SeqDef
    <2> QED  BY <1>2, <2>1, <2>2, LenProperties
  <1>4. first \in Nat /\ first <= n
    BY <1>2, <1>3, SpoolAssumption
  <1>5. \A i \in 1..first : files[i] \in Packets
    BY <1>2, <1>3, <1>4 DEF Listed
  <1>6. SubSeq(files, 1, first) \in Seq(Packets)
    <2> HIDE DEF first
    <2> QED  BY <1>4, <1>5, SubSeqProperties
  <1>7. Types'
    BY <1>1, <1>6 DEF SpoolInv, Types, StartDrain, ledger
  <1> QED  BY <1>7, IdleStep DEF StartDrain, ledger

LEMMA SkipStep == ASSUME SpoolInv, NEW d \in Drainers, Skip(d) PROVE SpoolInv'
  <1>1. Tail(todo[d]) \in Seq(Packets)
    BY HeadTailProperties DEF SpoolInv, Types, Skip
  <1>2. Types'
    BY <1>1 DEF SpoolInv, Types, Skip, ledger
  <1> QED  BY <1>2, IdleStep DEF Skip, ledger

LEMMA ClaimStep == ASSUME SpoolInv, NEW d \in Drainers, Claim(d) PROVE SpoolInv'
  <1> DEFINE f == Head(todo[d])
  <1>1. f \in Packets /\ Tail(todo[d]) \in Seq(Packets)
    BY HeadTailProperties DEF SpoolInv, Types, Claim
  <1> HIDE DEF f
  <1>2. /\ loc[f] = "incoming" /\ held[d] = None
        /\ loc' = [loc EXCEPT ![f] = "processing"]
        /\ held' = [held EXCEPT ![d] = f]
        /\ work' = [work EXCEPT ![d] = <<"parse">>]
        /\ todo' = [todo EXCEPT ![d] = Tail(@)]
        /\ UNCHANGED <<events, sessions, prompts, index>>
    BY DEF Claim, CanClaim, ledger, f
  <1>3. Types'
    BY <1>1, <1>2 DEF SpoolInv, Types, Places
  <1>4. LedgerGrows
    BY <1>2 DEF LedgerGrows
  <1>5. /\ held'[d] = f /\ work'[d] = <<"parse">> /\ loc'[f] = "processing"
        /\ \A other \in Drainers \ {d} : held'[other] = held[other] /\ work'[other] = work[other]
        /\ \A g \in Packets : g # f => loc'[g] = loc[g]
    BY <1>1, <1>2 DEF SpoolInv, Types
  <1>6. Left(held[d], work[d])'
    BY <1>5 DEF Left
  <1>7. (IF held[d] = None THEN work[d] = <<>> ELSE Left(held[d], work[d]))'
    BY <1>1, <1>5, <1>6, SpoolAssumption
  <1>8. /\ held'[d] \in {held[d]} \cup Listed
        /\ \A g \in Packets : g # held[d] /\ loc[g] = "processing" => loc'[g] = loc[g]
        /\ \A g \in Packets : loc'[g] = "processed" => loc[g] = "processed" \/ Persisted(g)
    BY <1>1, <1>2, <1>5 DEF Listed
  <1> QED  BY <1>3, <1>4, <1>5, <1>7, <1>8, StepOf

\* What a drainer has left after each statement.
LEMMA LeftAfter ==
  ASSUME NEW f \in Packets, NEW now, NEW left, Left(f, now), left = Tail(now)
  PROVE  /\ Head(now) = "event" =>
              \/ Content[f].kind = "prompt" /\ left = <<"session", "count", "insert", "finish">>
              \/ Content[f].kind = "start" /\ left = <<"session", "finish">>
              \/ Content[f].kind = "end" /\ left = <<"session", "end", "finish">>
              \/ Content[f].kind \in {"tool", "incomplete"} /\ left = <<"finish">>
         /\ Head(now) = "session" =>
              /\ HasEvent(f)
              /\ \/ Content[f].kind = "prompt" /\ left = <<"count", "insert", "finish">>
                 \/ Content[f].kind = "start" /\ left = <<"finish">>
                 \/ Content[f].kind = "end" /\ left = <<"end", "finish">>
         /\ Head(now) = "end" => HasEvent(f) /\ Content[f].kind = "end" /\ left = <<"finish">>
         /\ Head(now) = "count" =>
              HasSession(f) /\ Content[f].kind = "prompt" /\ left = <<"insert", "finish">>
         /\ Head(now) = "insert" =>
              HasSession(f) /\ Content[f].kind = "prompt" /\ left = <<"finish">>
  <1>1. CASE now = <<"parse">> \/ now = <<"requeue">> \/ now = <<"finish">>
    BY <1>1
  <1>2. CASE Content[f].kind = "prompt" /\ PromptLeft(f, now)
    <2>1. CASE now = <<"event", "session", "count", "insert", "finish">>
      BY <1>2, <2>1
    <2>2. CASE now = <<"session", "count", "insert", "finish">> /\ HasEvent(f)
      BY <1>2, <2>2
    <2>3. CASE now = <<"count", "insert", "finish">> /\ HasSession(f)
      BY <1>2, <2>3
    <2>4. CASE now = <<"insert", "finish">> /\ HasSession(f)
      BY <1>2, <2>4
    <2> QED  BY <1>2, <2>1, <2>2, <2>3, <2>4 DEF PromptLeft
  <1>3. CASE Content[f].kind = "start" /\ StartLeft(f, now)
    <2>1. CASE now = <<"event", "session", "finish">>
      BY <1>3, <2>1
    <2>2. CASE now = <<"session", "finish">> /\ HasEvent(f)
      BY <1>3, <2>2
    <2> QED  BY <1>3, <2>1, <2>2 DEF StartLeft
  <1>4. CASE Content[f].kind = "end" /\ EndLeft(f, now)
    <2>1. CASE now = <<"event", "session", "end", "finish">>
      BY <1>4, <2>1
    <2>2. CASE now = <<"session", "end", "finish">> /\ HasEvent(f)
      BY <1>4, <2>2
    <2>3. CASE now = <<"end", "finish">> /\ HasEvent(f)
      BY <1>4, <2>3
    <2> QED  BY <1>4, <2>1, <2>2, <2>3 DEF EndLeft
  <1>5. CASE Content[f].kind \in {"tool", "incomplete"} /\ now = <<"event", "finish">>
    BY <1>5
  <1> QED  BY <1>1, <1>2, <1>3, <1>4, <1>5 DEF Left

(* The drainers, statement by statement.                                   *)

LEMMA ParseStep == ASSUME SpoolInv, NEW d \in Drainers, Parse(d) PROVE SpoolInv'
  <1>1. held[d] \in Packets /\ Content[held[d]].kind \in PacketKinds \ {"malformed"}
    BY DoingLeft DEF Parse, Packet
  <1>2. PICK f \in Packets, left \in {Persist(Content[held[d]].kind)} : f = held[d]
    BY <1>1
  <1>3. left = Persist(Content[f].kind) /\ Content[f].kind \in PacketKinds \ {"malformed"}
    BY <1>1, <1>2
  <1>4. Left(f, left)'
    BY <1>3 DEF Left, PromptLeft, StartLeft, EndLeft, Persist, PacketKinds
  <1>5. /\ work' = [work EXCEPT ![d] = left]
        /\ UNCHANGED <<held, loc, events, sessions, prompts, todo, index>>
    BY <1>2, <1>3 DEF Parse, Packet, ledger
  <1>6. Types'
    BY <1>5 DEF SpoolInv, Types
  <1>7. LedgerGrows
    BY <1>5 DEF LedgerGrows
  <1> QED  BY <1>2, <1>4, <1>5, <1>6, <1>7, WorkStep

LEMMA IsolateStep == ASSUME SpoolInv, NEW d \in Drainers, Isolate(d) PROVE SpoolInv'
  <1>1. Types'
    BY DEF SpoolInv, Types, Isolate, Drop, ledger, Places
  <1> QED  BY <1>1, DropStep DEF SpoolInv, Types, Isolate, Drop, ledger

LEMMA ReadFailsStep == ASSUME SpoolInv, NEW d \in Drainers, ReadFails(d) PROVE SpoolInv'
  <1>1. Types'
    BY DEF SpoolInv, Types, ReadFails, Drop, ledger, Places
  <1> QED  BY <1>1, DropStep DEF SpoolInv, Types, ReadFails, Drop, ledger

LEMMA MoveFailsStep == ASSUME SpoolInv, NEW d \in Drainers, MoveFails(d) PROVE SpoolInv'
  <1>1. Types'
    BY DEF SpoolInv, Types, MoveFails, Drop, ledger
  <1> QED  BY <1>1, DropStep DEF SpoolInv, Types, MoveFails, Drop, ledger

LEMMA RequeueStep == ASSUME SpoolInv, NEW d \in Drainers, Requeue(d) PROVE SpoolInv'
  <1>1. Types'
    BY DEF SpoolInv, Types, Requeue, Drop, ledger, Places
  <1> QED  BY <1>1, DropStep DEF SpoolInv, Types, Requeue, Drop, ledger

\* A drainer that comes to the last rename has persisted its packet.
LEMMA FinishStep == ASSUME SpoolInv, NEW d \in Drainers, Finish(d) PROVE SpoolInv'
  <1>1. Types'
    BY DEF SpoolInv, Types, Finish, Drop, ledger, Places
  <1>2. Left(held[d], work[d]) /\ Head(work[d]) = "finish"
    BY DoingLeft DEF Finish
  <1>3. Persisted(held[d])
    BY <1>2 DEF Left, PromptLeft, StartLeft, EndLeft
  <1> QED  BY <1>1, <1>3, DropStep DEF SpoolInv, Types, Finish, Drop, ledger

LEMMA CrashStep == ASSUME SpoolInv, NEW d \in Drainers, Crash(d) PROVE SpoolInv'
  <1>1. Types'
    <2>1. <<>> \in Seq(Packets)
      BY EmptySeq
    <2> QED  BY <2>1 DEF SpoolInv, Types, Crash, ledger
  <1> QED  BY <1>1, DropStep DEF SpoolInv, Types, Crash, ledger

\* A step into the catch block.
LEMMA CatchStep ==
  ASSUME SpoolInv, NEW d \in Drainers, held[d] \in Packets, Catch(d),
         UNCHANGED <<loc, events, sessions, prompts, index>>
  PROVE  SpoolInv'
  <1>1. Types'
    BY DEF SpoolInv, Types, Catch
  <1>2. LedgerGrows
    BY DEF LedgerGrows
  <1>3. Left(held[d], <<"requeue">>)'
    BY DEF Left
  <1>4. PICK f \in Packets : f = held[d] /\ Left(f, <<"requeue">>)'
    BY DEF Left
  <1> QED  BY <1>1, <1>2, <1>4, WorkStep DEF Catch

LEMMA ThrowStep == ASSUME SpoolInv, NEW d \in Drainers, Throw(d) PROVE SpoolInv'
  <1>1. held[d] \in Packets
    BY DEF SpoolInv, InProgress, Types, Throw
  <1> QED  BY <1>1, CatchStep DEF Throw, ledger

LEMMA RecordEventStep == ASSUME SpoolInv, NEW d \in Drainers, RecordEvent(d) PROVE SpoolInv'
  <1>1. PICK f \in Packets, left \in {Tail(work[d])} : f = held[d]
    BY DoingLeft DEF RecordEvent
  <1>2. /\ Left(f, work[d]) /\ left = Tail(work[d]) /\ Head(work[d]) = "event"
        /\ Content[f].kind \in PacketKinds
    BY <1>1, DoingLeft DEF RecordEvent
  <1>3. CASE Content[f].kind = "incomplete"
    BY <1>1, <1>3, CatchStep DEF RecordEvent, Packet
  <1>4. CASE Content[f].kind # "incomplete"
    <2>1. /\ events' = events \cup {f}
          /\ work' = [work EXCEPT ![d] = left]
          /\ UNCHANGED <<loc, sessions, prompts, todo, held, index>>
      BY <1>1, <1>4 DEF RecordEvent, Packet, Advance
    <2>2. Types'
      BY <2>1 DEF SpoolInv, Types
    <2>3. LedgerGrows
      BY <2>1 DEF LedgerGrows
    <2>4. Left(f, left)'
      BY <1>2, <1>4, <2>1, LeftAfter DEF Left, PromptLeft, StartLeft, EndLeft, HasEvent, Persisted
    <2> QED  BY <1>1, <2>1, <2>2, <2>3, <2>4, WorkStep
  <1> QED  BY <1>3, <1>4

LEMMA OpenSessionStep == ASSUME SpoolInv, NEW d \in Drainers, OpenSession(d) PROVE SpoolInv'
  <1>1. PICK f \in Packets, left \in {Tail(work[d])} : f = held[d]
    BY DoingLeft DEF OpenSession
  <1> DEFINE s == Content[f].session
  <1>2. Left(f, work[d]) /\ left = Tail(work[d]) /\ Head(work[d]) = "session" /\ s \in Sessions
    BY <1>1, DoingLeft DEF OpenSession
  <1>3. /\ sessions' = [sessions EXCEPT ![s] = Opened(@)]
        /\ work' = [work EXCEPT ![d] = left]
        /\ UNCHANGED <<loc, events, prompts, todo, held, index>>
    BY <1>1 DEF OpenSession, Packet, Advance
  <1>4. Types'
    BY <1>2, <1>3 DEF SpoolInv, Types, Opened
  <1>5. sessions'[s] # "none"
    BY <1>2, <1>3 DEF SpoolInv, Types, Opened
  <1>6. LedgerGrows
    BY <1>2, <1>3 DEF SpoolInv, Types, LedgerGrows, Opened
  <1>7. Left(f, left)'
    BY <1>2, <1>3, <1>5, LeftAfter
       DEF Left, PromptLeft, StartLeft, EndLeft, HasEvent, HasSession, Persisted
  <1> QED  BY <1>1, <1>3, <1>4, <1>6, <1>7, WorkStep

LEMMA EndSessionStep == ASSUME SpoolInv, NEW d \in Drainers, EndSession(d) PROVE SpoolInv'
  <1>1. PICK f \in Packets, left \in {Tail(work[d])} : f = held[d]
    BY DoingLeft DEF EndSession
  <1> DEFINE s == Content[f].session
  <1>2. Left(f, work[d]) /\ left = Tail(work[d]) /\ Head(work[d]) = "end" /\ s \in Sessions
    BY <1>1, DoingLeft DEF EndSession
  <1>3. /\ sessions' = [sessions EXCEPT ![s] = "ended"]
        /\ work' = [work EXCEPT ![d] = left]
        /\ UNCHANGED <<loc, events, prompts, todo, held, index>>
    BY <1>1 DEF EndSession, Packet, Advance
  <1>4. Types'
    BY <1>2, <1>3 DEF SpoolInv, Types
  <1>5. sessions'[s] = "ended"
    BY <1>2, <1>3 DEF SpoolInv, Types
  <1>6. LedgerGrows
    BY <1>2, <1>3 DEF SpoolInv, Types, LedgerGrows
  <1>7. Left(f, left)'
    BY <1>2, <1>3, <1>5, LeftAfter
       DEF Left, PromptLeft, StartLeft, EndLeft, HasEvent, HasSession, Persisted
  <1> QED  BY <1>1, <1>3, <1>4, <1>6, <1>7, WorkStep

LEMMA CountPromptsStep == ASSUME SpoolInv, NEW d \in Drainers, CountPrompts(d) PROVE SpoolInv'
  <1>1. PICK f \in Packets, left \in {Tail(work[d])} : f = held[d]
    BY DoingLeft DEF CountPrompts
  <1>2. Left(f, work[d]) /\ left = Tail(work[d]) /\ Head(work[d]) = "count"
    BY <1>1, DoingLeft DEF CountPrompts
  <1> DEFINE counted == nextPromptIndex(Packet(d).session)
  <1>3. /\ index' = [index EXCEPT ![d] = counted]
        /\ work' = [work EXCEPT ![d] = left]
        /\ UNCHANGED <<loc, events, sessions, prompts, todo, held>>
    BY <1>1 DEF CountPrompts, Advance, ledger
  <1> HIDE DEF counted
  <1>4. Types'
    BY <1>3 DEF SpoolInv, Types
  <1>5. LedgerGrows
    BY <1>3 DEF LedgerGrows
  <1>6. Left(f, left)'
    BY <1>2, <1>3, LeftAfter DEF Left, PromptLeft, StartLeft, EndLeft, HasEvent, HasSession
  <1> QED  BY <1>1, <1>3, <1>4, <1>5, <1>6, WorkStep

\* The insert takes an index that no prompt of the session has, so it replaces none.
LEMMA InsertPromptStep == ASSUME SpoolInv, NEW d \in Drainers, InsertPrompt(d) PROVE SpoolInv'
  <1>1. PICK f \in Packets, left \in {Tail(work[d])} : f = held[d]
    BY DoingLeft DEF InsertPrompt
  <1> DEFINE s == Content[f].session
             i == index[d]
             rows == [j \in DOMAIN prompts[s] \cup {i} |-> IF j = i THEN f ELSE prompts[s][j]]
  <1>2. Left(f, work[d]) /\ left = Tail(work[d]) /\ Head(work[d]) = "insert" /\ s \in Sessions
    BY <1>1, DoingLeft DEF InsertPrompt
  <1>3. CASE PromptIdTaken(d)
    BY <1>1, <1>3, CatchStep DEF InsertPrompt
  <1>4. CASE ~PromptIdTaken(d)
    <2>1. /\ prompts' = [prompts EXCEPT ![s] = rows]
          /\ work' = [work EXCEPT ![d] = left]
          /\ UNCHANGED <<loc, events, sessions, todo, held, index>>
      BY <1>1, <1>4 DEF InsertPrompt, Packet, Advance
    <2>2. i \notin DOMAIN prompts[s]
      BY <1>1, <1>4 DEF PromptIdTaken, Packet
    <2>3. Types'
      <3> HIDE DEF rows
      <3> QED  BY <2>1 DEF SpoolInv, Types
    <2>4. prompts'[s] = rows /\ \A t \in Sessions : t # s => prompts'[t] = prompts[t]
      BY <1>2, <2>1 DEF SpoolInv, Types
    <2>5. LedgerGrows
      BY <1>2, <2>1, <2>2, <2>4 DEF LedgerGrows
    <2>6. PromptRows(f)' # {}
      <3>1. i \in DOMAIN prompts'[s] /\ prompts'[s][i] = f
        BY <2>4
      <3> QED  BY <3>1 DEF PromptRows
    <2>7. HasSession(f) /\ Content[f].kind = "prompt" /\ left = <<"finish">>
      <3> HIDE DEF rows, i, s
      <3>1. PICK now \in {work[d]} : Left(f, now) /\ left = Tail(now) /\ Head(now) = "insert"
        BY <1>2
      <3> QED  BY <3>1, LeftAfter
    <2>8. Persisted(f)'
      BY <2>1, <2>6, <2>7 DEF Persisted, HasSession, HasEvent
    <2>9. Left(f, left)'
      BY <2>7, <2>8 DEF Left
    <2> QED  BY <1>1, <2>1, <2>3, <2>5, <2>9, WorkStep
  <1> QED  BY <1>3, <1>4

-----------------------------------------------------------------------------
LEMMA InitSpoolInv == Init => SpoolInv
  <1> SUFFICES ASSUME Init PROVE SpoolInv
    OBVIOUS
  <1>1. Types
    <2>1. <<>> \in Seq(Packets)
      BY EmptySeq
    <2> QED  BY <2>1 DEF Init, Types, Places
  <1> QED  BY <1>1 DEF Init, SpoolInv, OneOwner, InProgress, ProcessedIsPersisted

LEMMA NextSpoolInv == SpoolInv /\ [Next]_vars => SpoolInv'
  <1> SUFFICES ASSUME SpoolInv, [Next]_vars PROVE SpoolInv'
    OBVIOUS
  <1>1. ASSUME NEW f \in Packets, WriteTmp(f) \/ Publish(f) PROVE SpoolInv'
    BY <1>1, WriteTmpStep, PublishStep
  <1>2. ASSUME NEW d \in Drainers, Drain(d) PROVE SpoolInv'
    BY <1>2, StartDrainStep, ClaimStep, SkipStep, ParseStep, IsolateStep, RecordEventStep,
       OpenSessionStep, EndSessionStep, CountPromptsStep, InsertPromptStep, FinishStep,
       RequeueStep DEF Drain
  <1>3. ASSUME NEW d \in Drainers, Throw(d) \/ ReadFails(d) \/ MoveFails(d) \/ Crash(d)
        PROVE  SpoolInv'
    BY <1>3, ThrowStep, ReadFailsStep, MoveFailsStep, CrashStep
  <1>4. CASE UNCHANGED vars
    <2>1. UNCHANGED <<loc, events, sessions, prompts, todo, held, work, index>>
      BY <1>4 DEF vars, ledger
    <2>2. Types'
      BY <2>1 DEF SpoolInv, Types
    <2> QED  BY <2>1, <2>2, IdleStep
  <1> QED  BY <1>1, <1>2, <1>3, <1>4 DEF Next

\* The inductive invariant holds in every reachable state.
THEOREM SpoolInvariance == Spec => []SpoolInv
  BY InitSpoolInv, NextSpoolInv, PTL DEF Spec

\* No two drainers ever work on the same packet, whatever their listings said when
\* they were made (the claim by rename in drainJsonSpoolPackets).
THEOREM PacketsHaveOneOwner == Spec => []OneOwner
  <1>1. SpoolInv => OneOwner
    BY DEF SpoolInv
  <1> QED  BY <1>1, SpoolInvariance, PTL

\* What a packet in processed/ says is in the ledger and stays there, through
\* failures, crashes and retries of any packet (persistHookObservation before the
\* rename to processed/, and the upserts that take nothing back).
THEOREM ProcessedStaysPersisted == Spec => []ProcessedIsPersisted
  <1>1. SpoolInv => ProcessedIsPersisted
    BY DEF SpoolInv
  <1> QED  BY <1>1, SpoolInvariance, PTL
-----------------------------------------------------------------------------
(* The numbers of prompts, and what TypeOK says beyond Types.              *)

Rows(s) == Cardinality(DOMAIN prompts[s])
Numbered(s) == Rows(s) \in Nat /\ DOMAIN prompts[s] = 0 .. (Rows(s) - 1)

\* A drainer that is about to insert a prompt has read an index that is at most the next one.
Indexed(d) ==
  Doing(d, "insert") => \E s \in Sessions : s = Packet(d).session /\ index[d] <= Rows(s)

NumberInv ==
  /\ index \in [Drainers -> Nat]
  /\ throws \in 0 .. MaxThrows /\ crashes \in 0 .. MaxCrashes
  /\ \A s \in Sessions : Numbered(s) /\ \A i \in DOMAIN prompts[s] : prompts[s][i] \in Packets
  /\ \A d \in Drainers : Indexed(d)

LEMMA NumberSet ==
  ASSUME NEW n \in Nat
  PROVE  Cardinality(0 .. (n - 1)) = n /\ (0 .. (n - 1)) \cup {n} = 0 .. n /\ n \notin 0 .. (n - 1)
  <1>1. Cardinality(0 .. (n - 1)) = n
    <2>1. CASE n = 0
      <3>1. 0 .. (n - 1) = {}
        BY <2>1
      <3> QED  BY <2>1, <3>1, FS_EmptySet
    <2>2. CASE n # 0
      <3>1. 0 <= n - 1 /\ n - 1 \in Int /\ (n - 1) - 0 + 1 = n
        BY <2>2
      <3> QED  BY <3>1, FS_Interval
    <2> QED  BY <2>1, <2>2
  <1> QED  BY <1>1

\* A step that inserts no prompt, and in which a drainer comes to its insert, if at all, with
\* an index that it has just read.
LEMMA NumberStep ==
  ASSUME SpoolInv, NumberInv, UNCHANGED prompts, NEW d \in Drainers,
         index' \in [Drainers -> Nat], throws' \in 0 .. MaxThrows, crashes' \in 0 .. MaxCrashes,
         \A other \in Drainers \ {d} :
           held'[other] = held[other] /\ work'[other] = work[other] /\ index'[other] = index[other],
         Indexed(d)'
  PROVE  NumberInv'
  <1>1. \A s \in Sessions : Rows(s)' = Rows(s)
    BY DEF Rows
  <1>2. \A s \in Sessions : Numbered(s)' /\ \A i \in DOMAIN prompts'[s] : prompts'[s][i] \in Packets
    BY <1>1 DEF NumberInv, Numbered
  <1>3. ASSUME NEW other \in Drainers \ {d} PROVE Indexed(other)'
    <2>1. Indexed(other)
      BY DEF NumberInv
    <2> QED  BY <1>1, <2>1 DEF Indexed, Doing, Packet
  <1> QED  BY <1>2, <1>3 DEF NumberInv

\* A drainer whose next statement is not the insert.
LEMMA NotInserting ==
  ASSUME NEW d \in Drainers, work'[d] = <<>> \/ Head(work'[d]) # "insert"
  PROVE  Indexed(d)'
  BY DEF Indexed, Doing

\* After every statement but the count, the next statement is not the insert.
LEMMA OnlyCountPrecedesInsert ==
  ASSUME SpoolInv, NEW d \in Drainers, NEW statement \in {"event", "session", "end", "insert"},
         Doing(d, statement)
  PROVE  Tail(work[d]) # <<>> /\ Head(Tail(work[d])) # "insert"
  <1>1. PICK f \in Packets, now \in {work[d]} : f = held[d] /\ Left(f, now) /\ Head(now) = statement
    BY DoingLeft
  <1>2. PICK left : left = Tail(now)
    OBVIOUS
  <1>3. \/ left \in {<<"session", "count", "insert", "finish">>, <<"session", "finish">>}
        \/ left \in {<<"session", "end", "finish">>, <<"finish">>}
        \/ left \in {<<"count", "insert", "finish">>, <<"end", "finish">>}
    BY <1>1, <1>2, LeftAfter
  <1>4. left # <<>> /\ Head(left) # "insert"
    BY <1>3
  <1> QED  BY <1>1, <1>2, <1>4

LEMMA CountPromptsNumbers ==
  ASSUME SpoolInv, NumberInv, NEW d \in Drainers, CountPrompts(d) PROVE NumberInv'
  <1>1. PICK s \in Sessions : s = Packet(d).session
    BY DoingLeft DEF CountPrompts, Packet
  <1>2. /\ index' = [index EXCEPT ![d] = Rows(s)] /\ Rows(s) \in Nat
        /\ UNCHANGED <<prompts, held, throws, crashes>>
        /\ \A other \in Drainers \ {d} : work'[other] = work[other]
    BY <1>1 DEF CountPrompts, nextPromptIndex, Rows, Advance, ledger, NumberInv, Numbered, SpoolInv, Types
  <1>3. Indexed(d)'
    <2>1. s = Packet(d)' .session /\ index'[d] = Rows(s) /\ Rows(s)' = Rows(s)
      BY <1>1, <1>2 DEF Packet, Rows, NumberInv
    <2> QED  BY <1>2, <2>1 DEF Indexed
  <1> QED  BY <1>2, <1>3, NumberStep DEF NumberInv

LEMMA InsertPromptNumbers ==
  ASSUME SpoolInv, NumberInv, NEW d \in Drainers, InsertPrompt(d) PROVE NumberInv'
  <1>1. PICK f \in Packets : f = held[d]
    BY DoingLeft DEF InsertPrompt
  <1>2. PICK s \in Sessions, i \in Nat : s = Content[f].session /\ i = index[d]
    BY <1>1, DoingLeft DEF InsertPrompt, NumberInv
  <1>3. UNCHANGED <<held, index, throws, crashes>> /\ Doing(d, "insert")
    BY DEF InsertPrompt, Catch, Advance
  <1>4. /\ work'[d] = <<>> \/ Head(work'[d]) # "insert"
        /\ \A other \in Drainers \ {d} : work'[other] = work[other]
    <2>1. PICK left : work' = [work EXCEPT ![d] = left] /\ (left = <<"requeue">> \/ left = Tail(work[d]))
      BY DEF InsertPrompt, Catch, Advance
    <2>2. left = <<>> \/ Head(left) # "insert"
      BY <1>3, <2>1, OnlyCountPrecedesInsert
    <2> QED  BY <2>1, <2>2 DEF SpoolInv, Types
  <1>5. CASE UNCHANGED prompts
    BY <1>3, <1>4, <1>5, NotInserting, NumberStep DEF NumberInv
  <1>6. CASE ~PromptIdTaken(d)
    <2> DEFINE rows == [k \in DOMAIN prompts[s] \cup {i} |-> IF k = i THEN f ELSE prompts[s][k]]
    <2>1. prompts' = [prompts EXCEPT ![s] = rows] /\ i \notin DOMAIN prompts[s]
      BY <1>1, <1>2, <1>6 DEF InsertPrompt, Packet, PromptIdTaken
    <2>2. i <= Rows(s) /\ Numbered(s)
      BY <1>1, <1>2, <1>3 DEF NumberInv, Indexed, Packet
    <2>3. i = Rows(s)
      BY <2>1, <2>2 DEF Numbered
    <2>4. prompts'[s] = rows /\ \A t \in Sessions : t # s => prompts'[t] = prompts[t]
      BY <2>1 DEF SpoolInv, Types
    <2>5. DOMAIN prompts'[s] = 0 .. i
      <3>1. DOMAIN prompts'[s] = (0 .. (i - 1)) \cup {i}
        BY <2>2, <2>3, <2>4 DEF Numbered
      <3> QED  BY <3>1, NumberSet
    <2>6. Rows(s)' = i + 1
      <3>1. 0 .. i = 0 .. ((i + 1) - 1) /\ i + 1 \in Nat
        OBVIOUS
      <3> QED  BY <2>5, <3>1, NumberSet DEF Rows
    <2>7. \A t \in Sessions : Rows(t)' >= Rows(t) /\ Rows(t) \in Nat /\ Rows(t)' \in Nat
      <3>1. \A t \in Sessions : t # s => Rows(t)' = Rows(t)
        BY <2>4 DEF Rows
      <3>2. \A t \in Sessions : Rows(t) \in Nat
        BY DEF NumberInv, Numbered
      <3> QED  BY <2>3, <2>6, <3>1, <3>2
    <2>8. ASSUME NEW t \in Sessions
          PROVE  Numbered(t)' /\ \A k \in DOMAIN prompts'[t] : prompts'[t][k] \in Packets
      <3>1. CASE t = s
        <4>1. Numbered(s)'
          BY <2>5, <2>6, <2>7 DEF Numbered
        <4>2. \A k \in DOMAIN prompts'[s] : prompts'[s][k] \in Packets
          BY <2>4 DEF NumberInv
        <4> QED  BY <3>1, <4>1, <4>2
      <3>2. CASE t # s
        <4>1. prompts'[t] = prompts[t] /\ Rows(t)' = Rows(t)
          BY <2>4, <3>2 DEF Rows
        <4> QED  BY <4>1 DEF NumberInv, Numbered
      <3> QED  BY <3>1, <3>2
    <2>9. ASSUME NEW e \in Drainers PROVE Indexed(e)'
      <3>1. CASE e = d
        BY <1>4, <3>1, NotInserting
      <3>2. CASE e # d
        <4> SUFFICES ASSUME Doing(e, "insert")'
                     PROVE  \E t \in Sessions : t = Packet(e)'.session /\ index'[e] <= Rows(t)'
          BY DEF Indexed
        <4>1. Doing(e, "insert")
          BY <1>4, <3>2 DEF Doing
        <4>2. PICK t \in Sessions : t = Packet(e).session /\ index[e] <= Rows(t)
          BY <4>1 DEF NumberInv, Indexed
        <4>3. index'[e] = index[e] /\ index[e] \in Nat /\ t = Packet(e)'.session
          BY <1>3, <4>2 DEF Packet, NumberInv
        <4> QED  BY <2>7, <4>2, <4>3
      <3> QED  BY <3>1, <3>2
    <2> QED  BY <1>3, <2>8, <2>9 DEF NumberInv
  <1> QED  BY <1>5, <1>6 DEF InsertPrompt

\* The other steps of a drainer.
LEMMA DrainNumbers ==
  ASSUME SpoolInv, NumberInv, NEW d \in Drainers,
         (Drain(d) /\ ~CountPrompts(d) /\ ~InsertPrompt(d)) \/ Throw(d) \/ ReadFails(d) \/ MoveFails(d) \/ Crash(d)
  PROVE  NumberInv'
  <1>1. UNCHANGED <<prompts, index>>
    BY DEF Drain, StartDrain, Claim, Skip, Parse, Isolate, RecordEvent, OpenSession, EndSession, Finish, Requeue,
      Throw, ReadFails, MoveFails, Crash, ledger
  <1>2. throws' \in 0 .. MaxThrows /\ crashes' \in 0 .. MaxCrashes
    BY SpoolAssumption DEF NumberInv, Drain, StartDrain, Claim, Skip, Parse, Isolate, RecordEvent, OpenSession,
      EndSession, Finish, Requeue, Throw, ReadFails, MoveFails, Crash
  <1>3. \A other \in Drainers \ {d} : held'[other] = held[other] /\ work'[other] = work[other]
    BY DEF SpoolInv, Types, Drain, StartDrain, Claim, Skip, Parse, Isolate, RecordEvent, OpenSession, EndSession,
      Finish, Requeue, Throw, ReadFails, MoveFails, Crash, Drop, Advance, Catch, ledger
  <1>4. Indexed(d)'
    <2>1. CASE StartDrain(d) \/ Skip(d)
      BY <2>1 DEF StartDrain, Skip, SpoolInv, InProgress, Indexed, Doing
    <2>2. CASE Claim(d) \/ Isolate(d) \/ Finish(d) \/ Requeue(d) \/ Throw(d) \/ ReadFails(d) \/ MoveFails(d) \/ Crash(d)
      <3>1. PICK left \in {<<>>, <<"parse">>, <<"requeue">>} : work' = [work EXCEPT ![d] = left]
        BY <2>2 DEF Claim, Isolate, Finish, Requeue, Throw, ReadFails, MoveFails, Crash, Drop, Catch
      <3>2. work'[d] = left
        BY <3>1 DEF SpoolInv, Types
      <3> QED  BY <3>2, NotInserting
    <2>3. CASE Parse(d)
      <3>1. PICK left \in {Persist(Packet(d).kind)} : work' = [work EXCEPT ![d] = left]
        BY <2>3 DEF Parse
      <3>2. left # <<>> /\ Head(left) = "event"
        BY <3>1 DEF Persist
      <3> QED  BY <3>1, <3>2, NotInserting DEF SpoolInv, Types
    <2>4. CASE RecordEvent(d) \/ OpenSession(d) \/ EndSession(d)
      <3>1. PICK left : work' = [work EXCEPT ![d] = left] /\ (left = <<"requeue">> \/ left = Tail(work[d]))
        BY <2>4 DEF RecordEvent, OpenSession, EndSession, Catch, Advance
      <3>2. PICK statement \in {"event", "session", "end"} : Doing(d, statement)
        BY <2>4 DEF RecordEvent, OpenSession, EndSession
      <3>3. Head(Tail(work[d])) # "insert"
        BY <3>2, OnlyCountPrecedesInsert
      <3>4. Head(left) # "insert"
        <4>1. Head(<<"requeue">>) = "requeue"
          OBVIOUS
        <4> QED  BY <3>1, <3>3, <4>1, Zenon
      <3> QED  BY <3>1, <3>4, NotInserting DEF SpoolInv, Types
    <2> QED  BY <2>1, <2>2, <2>3, <2>4 DEF Drain
  <1> QED  BY <1>1, <1>2, <1>3, <1>4, NumberStep DEF NumberInv

LEMMA NumberInvariance == Spec => []NumberInv
  <1>1. Init => NumberInv
    <2> SUFFICES ASSUME Init PROVE NumberInv
      OBVIOUS
    <2>1. ASSUME NEW s \in Sessions PROVE Numbered(s) /\ \A i \in DOMAIN prompts[s] : prompts[s][i] \in Packets
      <3>1. DOMAIN prompts[s] = {} /\ 0 .. (0 - 1) = {}
        BY DEF Init
      <3> QED  BY <3>1, FS_EmptySet DEF Numbered, Rows
    <2> QED  BY <2>1, SpoolAssumption DEF Init, NumberInv, Indexed, Doing
  <1>2. ASSUME SpoolInv, NumberInv, [Next]_vars PROVE NumberInv'
    <2>1. CASE UNCHANGED vars \/ \E f \in Packets : WriteTmp(f) \/ Publish(f)
      <3>1. UNCHANGED <<prompts, held, work, index, throws, crashes>>
        BY <2>1 DEF vars, WriteTmp, Publish, ledger
      <3> QED  BY <1>2, <3>1 DEF NumberInv, Numbered, Rows, Indexed, Doing, Packet
    <2>2. ASSUME NEW d \in Drainers, Drain(d) \/ Throw(d) \/ ReadFails(d) \/ MoveFails(d) \/ Crash(d)
          PROVE  NumberInv'
      BY <1>2, <2>2, CountPromptsNumbers, InsertPromptNumbers, DrainNumbers
    <2> QED  BY <1>2, <2>1, <2>2 DEF Next
  <1> QED  BY <1>1, <1>2, SpoolInvariance, PTL DEF Spec

\* The prompts of a session are numbered without a gap, although any number of drainers count
\* and insert in two statements (nextPromptIndex and the primary key of session_prompts).
THEOREM PromptNumbersHaveNoGap == Spec => []PromptsAreNumbered
  <1>1. NumberInv => PromptsAreNumbered
    BY DEF NumberInv, Numbered, Rows, PromptsAreNumbered
  <1> QED  BY <1>1, NumberInvariance, PTL

LEMMA StatementLists ==
  /\ <<"parse">> \in Seq(Statements)
  /\ <<"requeue">> \in Seq(Statements)
  /\ <<"finish">> \in Seq(Statements)
  /\ <<"event", "finish">> \in Seq(Statements)
  /\ <<"event", "session", "count", "insert", "finish">> \in Seq(Statements)
  /\ <<"session", "count", "insert", "finish">> \in Seq(Statements)
  /\ <<"count", "insert", "finish">> \in Seq(Statements)
  /\ <<"insert", "finish">> \in Seq(Statements)
  /\ <<"event", "session", "finish">> \in Seq(Statements)
  /\ <<"session", "finish">> \in Seq(Statements)
  /\ <<"event", "session", "end", "finish">> \in Seq(Statements)
  /\ <<"session", "end", "finish">> \in Seq(Statements)
  /\ <<"end", "finish">> \in Seq(Statements)
  BY DEF Statements

\* A file is in one place, rows name packets that exist, and a drainer holds one file.
THEOREM SpoolTypes == Spec => []TypeOK
  <1>1. ASSUME SpoolInv, NumberInv PROVE TypeOK
    <2>1. \A s \in Sessions : DOMAIN prompts[s] \subseteq Nat /\ Range(prompts[s]) \subseteq Packets
      BY <1>1 DEF NumberInv, Numbered, Range
    <2>2. work \in [Drainers -> Seq(Statements)]
      <3>1. ASSUME NEW d \in Drainers PROVE work[d] \in Seq(Statements)
        <4>1. work[d] = <<>> \/ \E f : Left(f, work[d])
          BY <1>1 DEF SpoolInv, InProgress
        <4>2. ASSUME NEW f, NEW left, Left(f, left) PROVE left \in Seq(Statements)
          <5>1. CASE left = <<"parse">> \/ left = <<"requeue">> \/ left = <<"finish">> \/ left = <<"event", "finish">>
            BY <5>1, StatementLists, Zenon
          <5>2. CASE PromptLeft(f, left)
            BY <5>2, StatementLists, Zenon DEF PromptLeft
          <5>3. CASE StartLeft(f, left) \/ EndLeft(f, left)
            BY <5>3, StatementLists, Zenon DEF StartLeft, EndLeft
          <5> QED  BY <4>2, <5>1, <5>2, <5>3 DEF Left
        <4> QED  BY <4>1, <4>2, EmptySeq
      <3> QED  BY <1>1, <3>1 DEF SpoolInv, Types
    <2> QED  BY <1>1, <2>1, <2>2 DEF SpoolInv, Types, NumberInv, TypeOK
  <1> QED  BY <1>1, SpoolInvariance, NumberInvariance, PTL
-----------------------------------------------------------------------------
(* The spool implements the delivery of packets.                           *)

\* Only packets that were published and parse have an event.
SentInv ==
  \A f \in events : loc[f] \notin {"unwritten", "tmp"} /\ Content[f].kind \notin {"malformed", "incomplete"}

\* The place a packet goes to in a step that moves it.
Moves(f, from, to) == loc[f] \in from /\ loc' = [loc EXCEPT ![f] = to] /\ UNCHANGED ledger

LEMMA NextMoves ==
  ASSUME SpoolInv, [Next]_vars
  PROVE  \/ UNCHANGED <<loc, ledger>>
         \/ \E f \in Packets :
              \/ Moves(f, {"unwritten"}, "tmp") \/ Moves(f, {"tmp"}, "incoming")
              \/ Moves(f, {"incoming"}, "processing") \/ Moves(f, {"processing"}, "incoming")
              \/ Moves(f, {"processing"}, "failed")
              \/ Moves(f, {"processing"}, "processed") /\ Persisted(f)
         \/ UNCHANGED loc /\ LedgerGrows /\ \/ UNCHANGED events
                                            \/ \E f \in Packets : /\ events' = events \cup {f}
                                                                  /\ loc[f] = "processing"
                                                                  /\ Content[f].kind \notin {"malformed", "incomplete"}
  <1>1. CASE UNCHANGED vars
    BY <1>1 DEF vars
  <1>2. CASE \E f \in Packets : WriteTmp(f) \/ Publish(f)
    BY <1>2 DEF WriteTmp, Publish, Moves, ledger
  <1>3. ASSUME NEW d \in Drainers, StartDrain(d) \/ Skip(d) \/ Parse(d) \/ Throw(d) \/ MoveFails(d) \/ Crash(d)
               \/ CountPrompts(d)
        PROVE  UNCHANGED <<loc, ledger>>
    BY <1>3 DEF StartDrain, Skip, Parse, Throw, MoveFails, Crash, CountPrompts
  <1>4. ASSUME NEW d \in Drainers, Claim(d) PROVE \E f \in Packets : Moves(f, {"incoming"}, "processing")
    <2>1. Head(todo[d]) \in Packets
      BY <1>4, HeadTailProperties DEF SpoolInv, Types, Claim
    <2> QED  BY <1>4, <2>1 DEF Claim, CanClaim, Moves
  <1>5. ASSUME NEW d \in Drainers, Isolate(d) \/ ReadFails(d) \/ Finish(d) \/ Requeue(d)
        PROVE  \E f \in Packets :
                 \/ Moves(f, {"processing"}, "incoming") \/ Moves(f, {"processing"}, "failed")
                 \/ Moves(f, {"processing"}, "processed") /\ Persisted(f)
    <2>1. PICK statement \in {"parse", "finish", "requeue"} :
            Doing(d, statement) /\ (Finish(d) => statement = "finish")
      BY <1>5 DEF Isolate, ReadFails, Finish, Requeue
    <2>2. PICK f \in Packets, now \in {work[d]} :
            f = held[d] /\ f # None /\ Left(f, now) /\ Head(now) = statement
      BY <2>1, DoingLeft
    <2>3. loc[f] = "processing"
      BY <2>2 DEF SpoolInv, OneOwner
    <2>4. statement = "finish" => Persisted(f)
      BY <2>2 DEF Left, PromptLeft, StartLeft, EndLeft
    <2>5. /\ Finish(d) => Moves(f, {"processing"}, "processed") /\ Persisted(f)
          /\ Requeue(d) => Moves(f, {"processing"}, "incoming")
          /\ Isolate(d) \/ ReadFails(d) => Moves(f, {"processing"}, "failed")
      BY <2>1, <2>2, <2>3, <2>4 DEF Isolate, ReadFails, Finish, Requeue, Moves
    <2> QED  BY <1>5, <2>5
  <1>6. ASSUME NEW d \in Drainers, RecordEvent(d)
        PROVE  UNCHANGED loc /\ LedgerGrows /\ \/ UNCHANGED events
                                               \/ \E f \in Packets : /\ events' = events \cup {f}
                                                                     /\ loc[f] = "processing"
                                                                     /\ Content[f].kind \notin {"malformed", "incomplete"}
    <2>1. PICK f \in Packets, now \in {work[d]} :
            f = held[d] /\ f # None /\ Left(f, now) /\ Head(now) = "event"
      BY <1>6, DoingLeft DEF RecordEvent
    <2>2. Content[f].kind # "malformed"
      BY <2>1 DEF Left
    <2>3. loc[f] = "processing"
      BY <2>1 DEF SpoolInv, OneOwner
    <2>4. /\ UNCHANGED <<loc, sessions, prompts>>
          /\ UNCHANGED events \/ (events' = events \cup {f} /\ Content[f].kind # "incomplete")
      BY <1>6, <2>1 DEF RecordEvent, Packet
    <2> QED  BY <2>2, <2>3, <2>4 DEF LedgerGrows
  <1>7. ASSUME NEW d \in Drainers, OpenSession(d) \/ EndSession(d) \/ InsertPrompt(d)
        PROVE  UNCHANGED <<loc, events>> /\ LedgerGrows
    <2>1. UNCHANGED <<loc, events>>
      BY <1>7 DEF OpenSession, EndSession, InsertPrompt
    <2>2. PICK s \in Sessions : s = Packet(d).session
      BY <1>7, DoingLeft DEF OpenSession, EndSession, InsertPrompt, Packet
    <2>3. CASE OpenSession(d)
      BY <2>1, <2>2, <2>3 DEF OpenSession, Opened, LedgerGrows, SpoolInv, Types
    <2>4. CASE EndSession(d)
      BY <2>1, <2>2, <2>4 DEF EndSession, LedgerGrows, SpoolInv, Types
    <2>5. CASE InsertPrompt(d)
      <3>1. CASE UNCHANGED prompts
        BY <2>1, <2>5, <3>1 DEF InsertPrompt, LedgerGrows
      <3>2. CASE ~PromptIdTaken(d)
        <4> DEFINE i == index[d]
                   rows == [j \in DOMAIN prompts[s] \cup {i} |-> IF j = i THEN held[d] ELSE prompts[s][j]]
        <4>1. prompts' = [prompts EXCEPT ![s] = rows] /\ i \notin DOMAIN prompts[s] /\ UNCHANGED sessions
          BY <2>2, <2>5, <3>2 DEF InsertPrompt, PromptIdTaken
        <4>2. prompts'[s] = rows /\ \A t \in Sessions : t # s => prompts'[t] = prompts[t]
          BY <4>1 DEF SpoolInv, Types
        <4> QED  BY <2>1, <4>1, <4>2 DEF LedgerGrows
      <3> QED  BY <2>5, <3>1, <3>2 DEF InsertPrompt
    <2> QED  BY <1>7, <2>1, <2>3, <2>4, <2>5
  <1> QED  BY <1>1, <1>2, <1>3, <1>4, <1>5, <1>6, <1>7 DEF Next, Drain

LEMMA SentInvariance == Spec => []SentInv
  <1>1. Init => SentInv
    BY DEF Init, SentInv
  <1>2. ASSUME SpoolInv, SentInv, [Next]_vars PROVE SentInv'
    <2>1. CASE UNCHANGED <<loc, ledger>>
      BY <1>2, <2>1 DEF SentInv, ledger
    <2>2. CASE UNCHANGED loc /\ \/ UNCHANGED events
                                \/ \E f \in Packets : /\ events' = events \cup {f}
                                                      /\ loc[f] = "processing"
                                                      /\ Content[f].kind \notin {"malformed", "incomplete"}
      BY <1>2, <2>2 DEF SentInv
    <2>3. ASSUME NEW f \in Packets,
                 \/ Moves(f, {"unwritten"}, "tmp") \/ Moves(f, {"tmp"}, "incoming")
                 \/ Moves(f, {"incoming"}, "processing") \/ Moves(f, {"processing"}, "incoming")
                 \/ Moves(f, {"processing"}, "failed") \/ Moves(f, {"processing"}, "processed")
          PROVE  SentInv'
      BY <1>2, <2>3 DEF SentInv, Moves, ledger, SpoolInv, Types
    <2> QED  BY <1>2, <2>1, <2>2, <2>3, NextMoves
  <1> QED  BY <1>1, <1>2, SpoolInvariance, PTL DEF Spec

Delivered == {f \in Packets : Persisted(f)}
Unparseable == {f \in Packets : Content[f].kind = "malformed"}

LEMMA StageOfPlace ==
  /\ StageAt("unwritten") = "unsent" /\ StageAt("tmp") = "unsent"
  /\ StageAt("incoming") = "pending" /\ StageAt("processing") = "pending"
  /\ StageAt("processed") = "settled" /\ StageAt("failed") = "rejected"
  BY DEF StageAt

\* A move of a packet from a place to another, as the abstract specification sees it.
LEMMA MoveRefines ==
  ASSUME SpoolInv, NEW f \in Packets, NEW place \in Places, NEW to \in Places, Moves(f, {place}, to)
  PROVE  /\ Delivered' = Delivered
         /\ StageAt(place) = StageAt(to) => Stage' = Stage
         /\ Delivery!Move(f, StageAt(place), StageAt(to))
  <1>1. loc[f] = place /\ loc' = [loc EXCEPT ![f] = to] /\ UNCHANGED <<events, sessions, prompts>>
    BY DEF Moves, ledger
  <1>2. Delivered' = Delivered
    BY <1>1 DEF Delivered, Persisted, PromptRows
  <1>3. Stage[f] = StageAt(place) /\ Stage' = [Stage EXCEPT ![f] = StageAt(to)]
    BY <1>1 DEF Stage, SpoolInv, Types
  <1>4. StageAt(place) = StageAt(to) => Stage' = Stage
    BY <1>3 DEF Stage
  <1> QED  BY <1>2, <1>3, <1>4 DEF Delivery!Move, Delivered

\* A write to the ledger delivers what it completes.
LEMMA WriteRefines ==
  ASSUME SpoolInv, SentInv', UNCHANGED loc, LedgerGrows
  PROVE  UNCHANGED <<Stage, Delivered>> \/ Delivery!Next
  <1> DEFINE batch == Delivered' \ Delivered
  <1>1. Stage' = Stage
    BY DEF Stage
  <1>2. Delivered' = Delivered \cup batch
    <2>1. \A f \in Packets : Persisted(f) => Persisted(f)'
      BY PersistedStays
    <2> QED  BY <2>1 DEF Delivered
  <1>3. ASSUME NEW f \in batch PROVE Stage[f] \in {"pending", "rejected"} /\ f \notin Unparseable
    <2>1. f \in Packets /\ f \in events' /\ ~Persisted(f)
      BY DEF Delivered, Persisted
    <2>2. loc[f] \in Places /\ loc[f] \notin {"unwritten", "tmp", "processed"}
      BY <2>1 DEF SentInv, SpoolInv, Types, ProcessedIsPersisted
    <2>3. Stage[f] \in {"pending", "rejected"}
      BY <2>1, <2>2, StageOfPlace DEF Stage, Places
    <2>4. f \notin Unparseable
      BY <2>1 DEF SentInv, Unparseable
    <2> QED  BY <2>3, <2>4
  <1>4. CASE batch = {}
    BY <1>1, <1>2, <1>4
  <1>5. CASE batch # {}
    <2>1. Delivery!Deliver(batch)
      BY <1>1, <1>2, <1>3, <1>5 DEF Delivery!Deliver, Delivered, Unparseable
    <2>2. batch \in SUBSET Packets
      BY DEF Delivered
    <2> HIDE DEF batch
    <2> QED  BY <2>1, <2>2 DEF Delivery!Next
  <1> QED  BY <1>4, <1>5

LEMMA StepDelivers ==
  ASSUME SpoolInv, SentInv', [Next]_vars
  PROVE  Delivery!Next \/ UNCHANGED <<Stage, Delivered>>
  <1>1. CASE UNCHANGED <<loc, ledger>>
    BY <1>1 DEF Stage, Delivered, Persisted, PromptRows, ledger
  <1>2. ASSUME NEW f \in Packets,
               \/ Moves(f, {"unwritten"}, "tmp") \/ Moves(f, {"tmp"}, "incoming")
               \/ Moves(f, {"incoming"}, "processing") \/ Moves(f, {"processing"}, "incoming")
               \/ Moves(f, {"processing"}, "failed")
               \/ Moves(f, {"processing"}, "processed") /\ Persisted(f)
        PROVE  Delivery!Next \/ UNCHANGED <<Stage, Delivered>>
    <2>1. CASE Moves(f, {"unwritten"}, "tmp")
      BY <2>1, MoveRefines, StageOfPlace DEF Places
    <2>2. CASE Moves(f, {"tmp"}, "incoming")
      <3>1. Delivery!Send(f)
        BY <2>2, MoveRefines, StageOfPlace DEF Places, Delivery!Send
      <3> QED  BY <3>1 DEF Delivery!Next
    <2>3. CASE Moves(f, {"incoming"}, "processing")
      BY <2>3, MoveRefines, StageOfPlace DEF Places
    <2>4. CASE Moves(f, {"processing"}, "incoming")
      BY <2>4, MoveRefines, StageOfPlace DEF Places
    <2>5. CASE Moves(f, {"processing"}, "failed")
      <3>1. Delivery!Reject(f)
        BY <2>5, MoveRefines, StageOfPlace DEF Places, Delivery!Reject
      <3> QED  BY <3>1 DEF Delivery!Next
    <2>6. CASE Moves(f, {"processing"}, "processed") /\ Persisted(f)
      <3>1. Delivery!Settle(f)
        BY <2>6, MoveRefines, StageOfPlace DEF Places, Delivery!Settle
      <3> QED  BY <3>1 DEF Delivery!Next
    <2> QED  BY <1>2, <2>1, <2>2, <2>3, <2>4, <2>5, <2>6
  <1>3. CASE UNCHANGED loc /\ LedgerGrows
    BY <1>3, WriteRefines
  <1> QED  BY <1>1, <1>2, <1>3, NextMoves

\* Racing drainers that claim, fail, crash and retry deliver each packet before it is settled,
\* settle and reject none twice, and never deliver what does not parse.
THEOREM SpoolDelivers == Spec => ImplementsDelivery
  <1>1. Init => Delivery!Init
    BY StageOfPlace DEF Init, Delivery!Init, Stage, Persisted
  <1>2. SpoolInv /\ SentInv' /\ [Next]_vars => [Delivery!Next]_<<Stage, Delivered>>
    BY StepDelivers
  <1>3. Spec => Delivery!Spec
    BY <1>1, <1>2, SpoolInvariance, SentInvariance, PTL DEF Spec, Delivery!Spec, Delivered
  <1> QED  BY <1>3 DEF ImplementsDelivery
-----------------------------------------------------------------------------
(* What failures cost.                                                     *)

Recorded == {f \in Packets : PromptRows(f) # {}}
Lost == {f \in Packets : Content[f].kind # "malformed" /\ (loc[f] = "failed" \/ Stuck(f))}

\* The recorded prompts that may be recorded again: each of them has cost a failure.
AtRisk == {f \in Recorded : loc[f] = "incoming" \/ \E d \in Drainers : held[d] = f /\ work[d] # <<"finish">>}

DamageInv ==
  /\ IsFiniteSet(PromptRecords)
  /\ Recorded \subseteq events
  /\ Cardinality(PromptRecords) + Cardinality(AtRisk) <= Cardinality(Recorded) + throws
  /\ Cardinality(Lost) <= throws + crashes

LEMMA DamageTypes ==
  ASSUME DamageInv, NumberInv
  PROVE  /\ IsFiniteSet(Recorded) /\ Cardinality(Recorded) \in Nat
         /\ IsFiniteSet(AtRisk) /\ Cardinality(AtRisk) \in Nat
         /\ IsFiniteSet(Lost) /\ Cardinality(Lost) \in Nat
         /\ Cardinality(PromptRecords) \in Nat
         /\ throws \in Nat /\ crashes \in Nat
  <1>1. Recorded \subseteq Packets /\ AtRisk \subseteq Packets /\ Lost \subseteq Packets
    BY DEF Recorded, AtRisk, Lost
  <1>2. IsFiniteSet(Recorded) /\ IsFiniteSet(AtRisk) /\ IsFiniteSet(Lost)
    BY <1>1, SpoolAssumption, FS_Subset
  <1>3. Cardinality(Recorded) \in Nat /\ Cardinality(AtRisk) \in Nat /\ Cardinality(Lost) \in Nat
    BY <1>2, FS_CardinalityType
  <1>4. Cardinality(PromptRecords) \in Nat
    BY FS_CardinalityType DEF DamageInv
  <1>5. throws \in Nat /\ crashes \in Nat
    BY SpoolAssumption DEF NumberInv
  <1> QED  BY <1>2, <1>3, <1>4, <1>5

LEMMA OneMore ==
  ASSUME NEW S, IsFiniteSet(S), NEW x, NEW T, T \subseteq S \cup {x}
  PROVE  IsFiniteSet(T) /\ Cardinality(T) \in Nat /\ Cardinality(S) \in Nat /\ Cardinality(T) <= Cardinality(S) + 1
  <1>1. /\ IsFiniteSet(S \cup {x}) /\ Cardinality(S) \in Nat
        /\ Cardinality(S \cup {x}) = IF x \in S THEN Cardinality(S) ELSE Cardinality(S) + 1
    BY FS_AddElement, FS_CardinalityType
  <1>2. IsFiniteSet(T) /\ Cardinality(T) <= Cardinality(S \cup {x}) /\ Cardinality(T) \in Nat
    BY <1>1, FS_Subset, FS_CardinalityType
  <1> QED  BY <1>1, <1>2

LEMMA SamePrompts ==
  ASSUME UNCHANGED prompts
  PROVE  Recorded' = Recorded /\ PromptRecords' = PromptRecords
  BY DEF Recorded, PromptRecords, PromptRows

\* A step that neither fails nor records a prompt.
LEMMA QuietStep ==
  ASSUME DamageInv, NumberInv, UNCHANGED <<prompts, throws, crashes>>, events \subseteq events',
         AtRisk' \subseteq AtRisk, Lost' \subseteq Lost
  PROVE  DamageInv'
  <1>1. Cardinality(AtRisk') <= Cardinality(AtRisk) /\ Cardinality(AtRisk') \in Nat
    BY DamageTypes, FS_Subset, FS_CardinalityType
  <1>2. Cardinality(Lost') <= Cardinality(Lost) /\ Cardinality(Lost') \in Nat
    BY DamageTypes, FS_Subset, FS_CardinalityType
  <1>3. Cardinality(PromptRecords) + Cardinality(AtRisk') <= Cardinality(Recorded) + throws
    BY <1>1, DamageTypes DEF DamageInv
  <1>4. Cardinality(Lost') <= throws + crashes
    BY <1>2, DamageTypes DEF DamageInv
  <1> QED  BY <1>3, <1>4, SamePrompts DEF DamageInv

\* A step that fails, for one packet.
LEMMA FailingStep ==
  ASSUME DamageInv, NumberInv, UNCHANGED <<prompts, events>>, NEW f,
         AtRisk' \subseteq AtRisk \cup {f}, Lost' \subseteq Lost \cup {f},
         \/ throws' = throws + 1 /\ crashes' = crashes
         \/ throws' = throws /\ crashes' = crashes + 1 /\ AtRisk' \subseteq AtRisk
  PROVE  DamageInv'
  <1>1. Cardinality(AtRisk') <= Cardinality(AtRisk) + 1 /\ Cardinality(AtRisk') \in Nat
    BY DamageTypes, OneMore
  <1>2. Cardinality(Lost') <= Cardinality(Lost) + 1 /\ Cardinality(Lost') \in Nat
    BY DamageTypes, OneMore
  <1>3. AtRisk' \subseteq AtRisk => Cardinality(AtRisk') <= Cardinality(AtRisk)
    BY DamageTypes, FS_Subset
  <1>4. Cardinality(PromptRecords) + Cardinality(AtRisk') <= Cardinality(Recorded) + throws'
    BY <1>1, <1>3, DamageTypes DEF DamageInv
  <1>5. Cardinality(Lost') <= throws' + crashes'
    BY <1>2, DamageTypes DEF DamageInv
  <1> QED  BY <1>4, <1>5, SamePrompts DEF DamageInv

\* Who holds a file, once one drainer has done something.
LEMMA HooksDamage ==
  ASSUME SpoolInv, SentInv, NumberInv, DamageInv, NEW f \in Packets, WriteTmp(f) \/ Publish(f)
  PROVE  DamageInv'
  <1>1. PICK from \in {"unwritten", "tmp"}, to \in {"tmp", "incoming"} :
          /\ loc[f] = from /\ loc' = [loc EXCEPT ![f] = to]
          /\ UNCHANGED <<events, prompts, held, work, throws, crashes>>
    BY DEF WriteTmp, Publish, ledger
  <1>2. /\ loc'[f] = to /\ \A g \in Packets : g # f => loc'[g] = loc[g]
        /\ f \notin Recorded
    BY <1>1 DEF SpoolInv, Types, SentInv, DamageInv
  <1>3. AtRisk' \subseteq AtRisk
    BY <1>1, <1>2, SamePrompts DEF AtRisk, Recorded
  <1>4. Lost' \subseteq Lost
    BY <1>1, <1>2 DEF Lost, Stuck
  <1> QED  BY <1>1, <1>3, <1>4, QuietStep

LEMMA StartDrainDamage ==
  ASSUME SpoolInv, NumberInv, DamageInv, NEW d \in Drainers, StartDrain(d) \/ Skip(d) PROVE DamageInv'
  <1>1. UNCHANGED <<loc, events, prompts, held, work, throws, crashes>>
    BY DEF StartDrain, Skip, ledger
  <1> QED  BY <1>1, SamePrompts, QuietStep DEF AtRisk, Lost, Stuck

LEMMA ClaimDamage ==
  ASSUME SpoolInv, NumberInv, DamageInv, NEW d \in Drainers, Claim(d) PROVE DamageInv'
  <1>1. PICK f \in Packets : f = Head(todo[d])
    BY HeadTailProperties DEF SpoolInv, Types, Claim
  <1>2. /\ loc[f] = "incoming" /\ held[d] = None
        /\ loc' = [loc EXCEPT ![f] = "processing"] /\ held' = [held EXCEPT ![d] = f]
        /\ work' = [work EXCEPT ![d] = <<"parse">>]
        /\ UNCHANGED <<events, prompts, throws, crashes>>
    BY <1>1 DEF Claim, CanClaim, ledger
  <1>3. /\ held'[d] = f /\ loc'[f] = "processing" /\ \A g \in Packets : g # f => loc'[g] = loc[g]
        /\ \A e \in Drainers \ {d} : held'[e] = held[e] /\ work'[e] = work[e]
    BY <1>2 DEF SpoolInv, Types
  <1>4. AtRisk' \subseteq AtRisk
    BY <1>2, <1>3, SamePrompts DEF AtRisk
  <1>5. Lost' \subseteq Lost
    <2>1. ~Stuck(f)' /\ loc'[f] # "failed"
      BY <1>3 DEF Stuck
    <2>2. \A g \in Packets \ {f} : Stuck(g)' => Stuck(g)
      BY <1>2, <1>3, SpoolAssumption DEF Stuck
    <2> QED  BY <1>3, <2>1, <2>2 DEF Lost
  <1> QED  BY <1>2, <1>4, <1>5, QuietStep

\* A drainer that goes on with its file, unless it comes back from its last rename.
LEMMA GoOnDamage ==
  ASSUME SpoolInv, NumberInv, DamageInv, UNCHANGED <<loc, prompts, held, throws, crashes>>,
         events \subseteq events', NEW d \in Drainers, work[d] # <<"finish">>,
         \A e \in Drainers \ {d} : work'[e] = work[e]
  PROVE  DamageInv'
  <1>1. AtRisk' \subseteq AtRisk
    BY SamePrompts DEF AtRisk
  <1>2. Lost' \subseteq Lost
    BY DEF Lost, Stuck
  <1> QED  BY <1>1, <1>2, QuietStep

LEMMA StatementsDamage ==
  ASSUME SpoolInv, NumberInv, DamageInv, NEW d \in Drainers,
         Parse(d) \/ RecordEvent(d) \/ OpenSession(d) \/ EndSession(d) \/ CountPrompts(d)
         \/ (InsertPrompt(d) /\ PromptIdTaken(d))
  PROVE  DamageInv'
  <1>1. /\ UNCHANGED <<loc, prompts, held, throws, crashes>> /\ events \subseteq events'
        /\ \A e \in Drainers \ {d} : work'[e] = work[e]
    <2>1. CASE Parse(d)
      BY <2>1 DEF Parse, ledger, SpoolInv, Types
    <2>2. CASE RecordEvent(d)
      BY <2>2 DEF RecordEvent, Catch, Advance, SpoolInv, Types
    <2>3. CASE OpenSession(d) \/ EndSession(d)
      BY <2>3 DEF OpenSession, EndSession, Advance, SpoolInv, Types
    <2>4. CASE CountPrompts(d)
      BY <2>4 DEF CountPrompts, Advance, ledger, SpoolInv, Types
    <2>5. CASE InsertPrompt(d) /\ PromptIdTaken(d)
      BY <2>5 DEF InsertPrompt, Catch, SpoolInv, Types
    <2> QED  BY <2>1, <2>2, <2>3, <2>4, <2>5
  <1>2. PICK statement \in {"parse", "event", "session", "end", "count", "insert"} : Head(work[d]) = statement
    BY DEF Parse, RecordEvent, OpenSession, EndSession, CountPrompts, InsertPrompt, Doing
  <1>3. work[d] # <<"finish">>
    BY <1>2
  <1> QED  BY <1>1, <1>3, GoOnDamage

\* A drainer that lets go of a file that it moves.
LEMMA LetGoDamage ==
  ASSUME SpoolInv, NumberInv, DamageInv, NEW d \in Drainers, Isolate(d) \/ Finish(d) \/ Requeue(d)
  PROVE  DamageInv'
  <1>1. PICK f \in Packets : f = held[d] /\ f # None
    BY DoingLeft DEF Isolate, Finish, Requeue
  <1>2. PICK to \in {"failed", "processed", "incoming"} :
          /\ loc' = [loc EXCEPT ![f] = to] /\ held' = [held EXCEPT ![d] = None]
          /\ work' = [work EXCEPT ![d] = <<>>] /\ UNCHANGED <<events, prompts, throws, crashes>>
          /\ to = "failed" => Content[f].kind = "malformed"
          /\ to = "incoming" => Head(work[d]) = "requeue"
    BY <1>1 DEF Isolate, Finish, Requeue, Drop, Packet, Doing, ledger
  <1>3. /\ held'[d] = None /\ loc'[f] = to /\ \A g \in Packets : g # f => loc'[g] = loc[g]
        /\ \A e \in Drainers \ {d} : held'[e] = held[e] /\ work'[e] = work[e]
    BY <1>2 DEF SpoolInv, Types
  <1>4. to = "incoming" => work[d] # <<"finish">>
    BY <1>2
  <1>5. AtRisk' \subseteq AtRisk
    <2>1. ASSUME NEW g \in Recorded \ {f}, g \in AtRisk' PROVE g \in AtRisk
      BY <1>2, <1>3, <2>1, SamePrompts, SpoolAssumption DEF AtRisk, Recorded
    <2>2. ASSUME f \in AtRisk' PROVE f \in AtRisk
      <3>1. f \in Recorded
        BY <1>2, <2>2, SamePrompts DEF AtRisk
      <3>2. CASE loc'[f] = "incoming"
        BY <1>1, <1>3, <1>4, <3>1, <3>2 DEF AtRisk
      <3>3. CASE \E e \in Drainers : held'[e] = f /\ work'[e] # <<"finish">>
        BY <1>1, <1>3, <3>1, <3>3 DEF AtRisk
      <3> QED  BY <2>2, <3>2, <3>3 DEF AtRisk
    <2>3. AtRisk' \subseteq Recorded
      BY <1>2, SamePrompts DEF AtRisk
    <2> QED  BY <2>1, <2>2, <2>3
  <1>6. Lost' \subseteq Lost
    <2>1. ASSUME NEW g \in Packets \ {f}, Stuck(g)' PROVE Stuck(g)
      BY <1>1, <1>3, <2>1 DEF Stuck
    <2>2. ~Stuck(f)'
      BY <1>2, <1>3 DEF Stuck
    <2> QED  BY <1>2, <1>3, <2>1, <2>2 DEF Lost
  <1> QED  BY <1>2, <1>5, <1>6, QuietStep

LEMMA FailuresDamage ==
  ASSUME SpoolInv, NumberInv, DamageInv, NEW d \in Drainers,
         Throw(d) \/ ReadFails(d) \/ MoveFails(d) \/ Crash(d)
  PROVE  DamageInv'
  <1>1. PICK f : f = held[d]
    OBVIOUS
  <1>2. /\ \A g \in Packets : g # f => loc'[g] = loc[g]
        /\ loc'[f] # "incoming" \/ loc'[f] = loc[f] \/ f \notin Packets
        /\ \A e \in Drainers \ {d} : held'[e] = held[e] /\ work'[e] = work[e]
        /\ held'[d] \in {f, None} /\ UNCHANGED <<prompts, events>>
    BY <1>1 DEF Throw, ReadFails, MoveFails, Crash, Drop, Catch, SpoolInv, Types, ledger
  <1>3. \/ throws' = throws + 1 /\ crashes' = crashes
        \/ throws' = throws /\ crashes' = crashes + 1 /\ held'[d] = None
    BY DEF Throw, ReadFails, MoveFails, Crash, SpoolInv, Types
  <1>4. AtRisk' \subseteq AtRisk \cup {f}
    BY <1>2, SpoolAssumption, SamePrompts DEF AtRisk, Recorded
  <1>5. held'[d] = None => AtRisk' \subseteq AtRisk
    <2> SUFFICES ASSUME held'[d] = None, NEW g \in Packets, g \in AtRisk' PROVE g \in AtRisk
      BY DEF AtRisk, Recorded
    <2>1. g \in Recorded
      BY <1>2, SamePrompts DEF AtRisk
    <2>2. CASE loc'[g] = "incoming"
      BY <1>2, <2>1, <2>2 DEF AtRisk
    <2>3. CASE \E e \in Drainers : held'[e] = g /\ work'[e] # <<"finish">>
      <3>1. g # None
        BY SpoolAssumption
      <3> QED  BY <1>2, <2>1, <2>3, <3>1 DEF AtRisk
    <2> QED  BY <2>2, <2>3 DEF AtRisk
  <1>6. Lost' \subseteq Lost \cup {f}
    BY <1>1, <1>2 DEF Lost, Stuck
  <1> QED  BY <1>2, <1>3, <1>4, <1>5, <1>6, FailingStep

\* After the insert, only the rename is left.
LEMMA InsertIsNextToLast ==
  ASSUME NEW f \in Packets, NEW now, Left(f, now), Head(now) = "insert"
  PROVE  HasSession(f) /\ Tail(now) = <<"finish">>
  <1>1. CASE Content[f].kind = "prompt" /\ PromptLeft(f, now)
    <2>1. CASE now = <<"insert", "finish">> /\ HasSession(f)
      BY <2>1
    <2>2. CASE now = <<"count", "insert", "finish">>
      BY <2>2
    <2>3. CASE now = <<"session", "count", "insert", "finish">>
      BY <2>3
    <2>4. CASE now = <<"event", "session", "count", "insert", "finish">>
      BY <2>4
    <2> QED  BY <1>1, <2>1, <2>2, <2>3, <2>4 DEF PromptLeft
  <1>2. CASE StartLeft(f, now) \/ EndLeft(f, now)
    BY <1>2 DEF StartLeft, EndLeft
  <1>3. CASE now \in {<<"parse">>, <<"requeue">>, <<"finish">>}
    BY <1>3
  <1>4. CASE now = <<"event", "finish">>
    BY <1>4
  <1> QED  BY <1>1, <1>2, <1>3, <1>4 DEF Left

LEMMA InsertPromptDamage ==
  ASSUME SpoolInv, NumberInv, DamageInv, NEW d \in Drainers, InsertPrompt(d), ~PromptIdTaken(d)
  PROVE  DamageInv'
  <1>1. PICK f \in Packets, now \in {work[d]} : f = held[d] /\ f # None /\ Left(f, now) /\ Head(now) = "insert"
    BY DoingLeft DEF InsertPrompt
  <1>2. PICK s \in Sessions, i \in Nat : s = Content[f].session /\ i = index[d]
    BY <1>1, DoingLeft DEF InsertPrompt, NumberInv
  <1>3. HasSession(f) /\ Tail(now) = <<"finish">> /\ now # <<"finish">>
    <2>1. now # <<"finish">>
      BY <1>1
    <2> QED  BY <1>1, <2>1, InsertIsNextToLast
  <1>4. /\ work' = [work EXCEPT ![d] = <<"finish">>] /\ i \notin DOMAIN prompts[s]
        /\ prompts' = [prompts EXCEPT ![s] =
                         [k \in DOMAIN prompts[s] \cup {i} |-> IF k = i THEN f ELSE prompts[s][k]]]
        /\ UNCHANGED <<loc, events, held, throws, crashes>>
    BY <1>1, <1>2, <1>3 DEF InsertPrompt, Packet, PromptIdTaken, Advance
  <1>5. /\ \A t \in Sessions : t # s => prompts'[t] = prompts[t]
        /\ DOMAIN prompts'[s] = DOMAIN prompts[s] \cup {i} /\ prompts'[s][i] = f
        /\ \A k \in DOMAIN prompts[s] : prompts'[s][k] = prompts[s][k]
    BY <1>4 DEF SpoolInv, Types
  <1>6. /\ PromptRows(f)' = PromptRows(f) \cup {i} /\ i \notin PromptRows(f)
        /\ \A g \in Packets \ {f} : PromptRows(g)' = PromptRows(g)
    <2>1. \A g \in Packets : Content[g].session \in Sessions
      BY SpoolAssumption
    <2> QED  BY <1>2, <1>4, <1>5, <2>1 DEF PromptRows
  <1>7. PromptRecords' = PromptRecords \cup {<<f, i>>} /\ <<f, i>> \notin PromptRecords
    BY <1>6 DEF PromptRecords
  <1>8. IsFiniteSet(PromptRecords') /\ Cardinality(PromptRecords') = Cardinality(PromptRecords) + 1
    BY <1>7, FS_AddElement DEF DamageInv
  <1>9. Recorded' = Recorded \cup {f} /\ Recorded' \subseteq events'
    <2>1. Recorded' = Recorded \cup {f}
      BY <1>6 DEF Recorded
    <2> QED  BY <1>3, <1>4, <2>1 DEF DamageInv, HasSession, HasEvent
  <1>10. loc[f] = "processing" /\ \A e \in Drainers \ {d} : held[e] # f
    BY <1>1 DEF SpoolInv, OneOwner
  <1>11. AtRisk' = AtRisk \ {f}
    <2>1. work'[d] = <<"finish">> /\ \A e \in Drainers \ {d} : work'[e] = work[e]
      BY <1>4 DEF SpoolInv, Types
    <2>2. ASSUME NEW g \in Packets \ {f} PROVE g \in AtRisk' <=> g \in AtRisk
      BY <1>1, <1>4, <1>9, <2>1, <2>2 DEF AtRisk
    <2>3. f \notin AtRisk'
      BY <1>4, <1>10, <2>1 DEF AtRisk
    <2> QED  BY <2>2, <2>3 DEF AtRisk, Recorded
  <1>12. Cardinality(PromptRecords') + Cardinality(AtRisk') <= Cardinality(Recorded') + throws
    <2>1. CASE f \in Recorded
      <3>1. f \in AtRisk
        BY <1>1, <1>3, <2>1 DEF AtRisk
      <3>2. Cardinality(AtRisk') = Cardinality(AtRisk) - 1
        BY <1>11, <3>1, DamageTypes, FS_RemoveElement
      <3>3. Recorded' = Recorded
        BY <1>9, <2>1
      <3> QED  BY <1>8, <3>2, <3>3, DamageTypes DEF DamageInv
    <2>2. CASE f \notin Recorded
      <3>1. AtRisk' = AtRisk
        BY <1>11, <2>2 DEF AtRisk
      <3>2. Cardinality(Recorded') = Cardinality(Recorded) + 1
        BY <1>9, <2>2, DamageTypes, FS_AddElement
      <3> QED  BY <1>8, <3>1, <3>2, DamageTypes DEF DamageInv
    <2> QED  BY <2>1, <2>2
  <1>13. Lost' = Lost
    BY <1>4 DEF Lost, Stuck
  <1> QED  BY <1>4, <1>8, <1>9, <1>12, <1>13 DEF DamageInv

LEMMA DamageInvariance == Spec => []DamageInv
  <1>1. Init => DamageInv
    <2> SUFFICES ASSUME Init PROVE DamageInv
      OBVIOUS
    <2>1. \A f \in Packets : PromptRows(f) = {}
      <3>1. \A f \in Packets : Content[f].session \in Sessions
        BY SpoolAssumption
      <3> QED  BY <3>1 DEF Init, PromptRows
    <2>2. PromptRecords = {} /\ Recorded = {} /\ AtRisk = {} /\ Lost = {}
      BY <2>1 DEF Init, PromptRecords, Recorded, AtRisk, Lost, Stuck
    <2> QED  BY <2>2, FS_EmptySet DEF Init, DamageInv
  <1>2. ASSUME SpoolInv, SentInv, NumberInv, DamageInv, [Next]_vars PROVE DamageInv'
    <2>1. CASE UNCHANGED vars
      BY <1>2, <2>1, SamePrompts, QuietStep DEF vars, ledger, AtRisk, Lost, Stuck
    <2>2. ASSUME NEW f \in Packets, WriteTmp(f) \/ Publish(f) PROVE DamageInv'
      BY <1>2, <2>2, HooksDamage
    <2>3. ASSUME NEW d \in Drainers, Drain(d) PROVE DamageInv'
      BY <1>2, <2>3, StartDrainDamage, ClaimDamage, StatementsDamage, InsertPromptDamage, LetGoDamage DEF Drain
    <2>4. ASSUME NEW d \in Drainers, Throw(d) \/ ReadFails(d) \/ MoveFails(d) \/ Crash(d) PROVE DamageInv'
      BY <1>2, <2>4, FailuresDamage
    <2> QED  BY <1>2, <2>1, <2>2, <2>3, <2>4 DEF Next
  <1> QED  BY <1>1, <1>2, SpoolInvariance, SentInvariance, NumberInvariance, PTL DEF Spec

\* However drainers race, each prompt recorded twice and each packet lost has cost a failure
\* of its own (the catch block of drainJsonSpoolPackets, and the renames).
THEOREM DamageIsPaidFor == Spec => []DamageNeedsFailures
  <1>1. ASSUME NumberInv, DamageInv PROVE DamageNeedsFailures
    <2>1. Cardinality(PromptRecords) <= Cardinality(Recorded) + throws
      BY <1>1, DamageTypes DEF DamageInv
    <2> QED  BY <1>1, <2>1 DEF DamageInv, DamageNeedsFailures, Recorded, Lost
  <1> QED  BY <1>1, NumberInvariance, DamageInvariance, PTL
=============================================================================
