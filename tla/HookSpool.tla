----------------------------- MODULE HookSpool -----------------------------
(***************************************************************************)
(* The hook spool: hook processes write observations as files              *)
(* (writeJsonSpoolPacket), and drainers move the files through the spool's *)
(* directories while they persist them in the ledger                       *)
(* (drainJsonSpoolPackets in src/src/hooks/spool.ts with                   *)
(* persistHookObservation in src/src/hooks/runtime.ts).                    *)
(*                                                                         *)
(* Any number of drainers run at once: every Stop hook starts one.  They   *)
(* share nothing but the directories and the ledger.  rename is atomic;    *)
(* persisting a packet is a row of separate statements, and a drainer may  *)
(* throw at any of them or die between any two.                            *)
(***************************************************************************)
EXTENDS Naturals, Sequences, FiniteSets, SequencesExt

CONSTANTS Packets,    \* packet files, numbered in the order of their names
          Sessions,
          Drainers,
          Content,    \* what each packet says
          Limit,      \* files a drain works through (1000 by default)
          MaxThrows,  \* bound on the statements and renames that throw
          MaxCrashes, \* bound on the drainers that die
          None

\* What the adapters put in a packet: a prompt boundary (of a user prompt or a Stop)
\* comes with its session, an end of session does not, a tool use has neither.  An
\* incomplete packet parses but lacks a field that recordHookEvent requires.
PacketKinds == {"tool", "start", "prompt", "end", "incomplete", "malformed"}

ASSUME SpoolAssumption ==
  /\ Packets \subseteq Nat /\ IsFiniteSet(Packets)
  /\ Content \in [Packets -> [kind: PacketKinds, session: Sessions]]
  /\ Limit \in Nat \ {0} /\ MaxThrows \in Nat /\ MaxCrashes \in Nat
  /\ None \notin Packets

VARIABLES loc,      \* where each packet file is
          events,   \* rows of hook_events
          sessions, \* rows of agent_sessions
          prompts,  \* rows of session_prompts: per session, prompt_index to packet
          todo,     \* the files a drainer has listed and not yet reached
          held,     \* the file it has moved to processing/
          work,     \* the statements it still has to run for that file
          index,    \* the prompt index it has read
          throws, crashes

ledger == <<events, sessions, prompts>>
vars == <<loc, ledger, todo, held, work, index, throws, crashes>>

Places == {"unwritten", "tmp", "incoming", "processing", "processed", "failed"}
Statements == {"parse", "event", "session", "end", "count", "insert", "finish", "requeue"}

\* A packet file is in one place, rows name packets that exist, prompt indexes do
\* not go below 0 (nextPromptIndex counts rows), and a drainer holds one file.
TypeOK ==
  /\ loc \in [Packets -> Places]
  /\ events \subseteq Packets
  /\ sessions \in [Sessions -> {"none", "open", "ended"}]
  /\ \A s \in Sessions : DOMAIN prompts[s] \subseteq Nat /\ Range(prompts[s]) \subseteq Packets
  /\ todo \in [Drainers -> Seq(Packets)]
  /\ held \in [Drainers -> Packets \cup {None}]
  /\ work \in [Drainers -> Seq(Statements)]
  /\ index \in [Drainers -> Nat]
  /\ throws \in 0..MaxThrows /\ crashes \in 0..MaxCrashes

Init ==
  /\ loc = [f \in Packets |-> "unwritten"]
  /\ events = {}
  /\ sessions = [s \in Sessions |-> "none"]
  /\ prompts = [s \in Sessions |-> <<>>]
  /\ todo = [d \in Drainers |-> <<>>]
  /\ held = [d \in Drainers |-> None]
  /\ work = [d \in Drainers |-> <<>>]
  /\ index = [d \in Drainers |-> 0]
  /\ throws = 0
  /\ crashes = 0

-----------------------------------------------------------------------------
\* A hook process: the packet is written under a name that no drainer lists, then renamed.
WriteTmp(f) ==
  /\ loc[f] = "unwritten"
  /\ loc' = [loc EXCEPT ![f] = "tmp"]
  /\ UNCHANGED <<ledger, todo, held, work, index, throws, crashes>>

Publish(f) ==
  /\ loc[f] = "tmp"
  /\ loc' = [loc EXCEPT ![f] = "incoming"]
  /\ UNCHANGED <<ledger, todo, held, work, index, throws, crashes>>

-----------------------------------------------------------------------------
\* readdir of incoming/, without the .tmp files.
Listed == {f \in Packets : loc[f] = "incoming"}

StartDrain(d) ==
  /\ todo[d] = <<>> /\ held[d] = None
  /\ Listed # {}
  /\ \E files \in [1..Cardinality(Listed) -> Listed] :
       /\ \A i, j \in DOMAIN files : i < j => files[i] < files[j]
       /\ todo' = [todo EXCEPT ![d] =
                     SubSeq(files, 1, IF Len(files) < Limit THEN Len(files) ELSE Limit)]
  /\ UNCHANGED <<loc, ledger, held, work, index, throws, crashes>>

\* A claim that does not notice that another drainer has moved the file.
CanClaimTaken(f) == loc[f] \in {"incoming", "processing"}

CanClaim(f) == loc[f] = "incoming"

\* The next listed file is renamed into processing/.
Claim(d) ==
  /\ held[d] = None /\ todo[d] # <<>>
  /\ LET f == Head(todo[d])
     IN /\ CanClaim(f)
        /\ loc' = [loc EXCEPT ![f] = "processing"]
        /\ held' = [held EXCEPT ![d] = f]
  /\ todo' = [todo EXCEPT ![d] = Tail(@)]
  /\ work' = [work EXCEPT ![d] = <<"parse">>]
  /\ UNCHANGED <<ledger, index, throws, crashes>>

\* The rename fails, as another drainer has taken the file.
Skip(d) ==
  /\ held[d] = None /\ todo[d] # <<>>
  /\ ~CanClaim(Head(todo[d]))
  /\ todo' = [todo EXCEPT ![d] = Tail(@)]
  /\ UNCHANGED <<loc, ledger, held, work, index, throws, crashes>>

-----------------------------------------------------------------------------
Doing(d, statement) == work[d] # <<>> /\ Head(work[d]) = statement
Packet(d) == Content[held[d]]

\* The drainer is done with its file.
Drop(d) ==
  /\ held' = [held EXCEPT ![d] = None]
  /\ work' = [work EXCEPT ![d] = <<>>]
  /\ UNCHANGED todo

Advance(d) == work' = [work EXCEPT ![d] = Tail(@)] /\ UNCHANGED <<todo, held>>

\* A catch block that lets the packet count as processed.
CatchAsDone(d) == work' = [work EXCEPT ![d] = <<"finish">>] /\ UNCHANGED <<todo, held>>

\* The catch block.
Catch(d) == work' = [work EXCEPT ![d] = <<"requeue">>] /\ UNCHANGED <<todo, held>>

\* The statements of persistHookObservation, then the rename to processed/.  (The
\* ensureSession of a prompt finds what the packet's own session upsert left.)
Persist(kind) ==
  CASE kind = "prompt" -> <<"event", "session", "count", "insert", "finish">>
    [] kind = "start"  -> <<"event", "session", "finish">>
    [] kind = "end"    -> <<"event", "session", "end", "finish">>
    [] OTHER           -> <<"event", "finish">>

Parse(d) ==
  /\ Doing(d, "parse")
  /\ Packet(d).kind # "malformed"
  /\ work' = [work EXCEPT ![d] = Persist(Packet(d).kind)]
  /\ UNCHANGED <<loc, ledger, todo, held, index, throws, crashes>>

\* A packet that does not parse goes to failed/.
Isolate(d) ==
  /\ Doing(d, "parse")
  /\ Packet(d).kind = "malformed"
  /\ loc' = [loc EXCEPT ![held[d]] = "failed"]
  /\ Drop(d)
  /\ UNCHANGED <<ledger, index, throws, crashes>>

\* recordHookEvent: an upsert that throws when a required field is missing.
RecordEvent(d) ==
  /\ Doing(d, "event")
  /\ IF Packet(d).kind = "incomplete"
     THEN Catch(d) /\ UNCHANGED events
     ELSE events' = events \cup {held[d]} /\ Advance(d)
  /\ UNCHANGED <<loc, sessions, prompts, index, throws, crashes>>

\* What recordSessionStarted makes of a session: the upsert leaves ended_at alone.
Opened(s) == IF s = "none" THEN "open" ELSE s

\* recordSessionStarted, or the ensureSession of recordSessionEnded.
OpenSession(d) ==
  /\ Doing(d, "session")
  /\ sessions' = [sessions EXCEPT ![Packet(d).session] = Opened(@)]
  /\ Advance(d)
  /\ UNCHANGED <<loc, events, prompts, index, throws, crashes>>

EndSession(d) ==
  /\ Doing(d, "end")
  /\ sessions' = [sessions EXCEPT ![Packet(d).session] = "ended"]
  /\ Advance(d)
  /\ UNCHANGED <<loc, events, prompts, index, throws, crashes>>

\* Other ways to number a session's prompts: by the last one, and from one.
LastPromptIndex(s) == Cardinality(DOMAIN prompts[s]) - 1
PromptNumber(s) == Cardinality(DOMAIN prompts[s]) + 1

\* The number of prompts the session has.
nextPromptIndex(s) == Cardinality(DOMAIN prompts[s])

CountPrompts(d) ==
  /\ Doing(d, "count")
  /\ index' = [index EXCEPT ![d] = nextPromptIndex(Packet(d).session)]
  /\ Advance(d)
  /\ UNCHANGED <<loc, ledger, throws, crashes>>

\* The insert without its primary key: a late prompt replaces an earlier one.
PromptIdTakenNever(d) == FALSE

\* prompt_id, the primary key, is made of the session and the index.
PromptIdTaken(d) == index[d] \in DOMAIN prompts[Packet(d).session]

InsertPrompt(d) ==
  /\ Doing(d, "insert")
  /\ IF PromptIdTaken(d)
     THEN Catch(d) /\ UNCHANGED prompts
     ELSE /\ prompts' = [prompts EXCEPT ![Packet(d).session] =
                           [i \in DOMAIN @ \cup {index[d]} |-> IF i = index[d] THEN held[d] ELSE @[i]]]
          /\ Advance(d)
  /\ UNCHANGED <<loc, events, sessions, index, throws, crashes>>

\* The rename to processed/.
Finish(d) ==
  /\ Doing(d, "finish")
  /\ loc' = [loc EXCEPT ![held[d]] = "processed"]
  /\ Drop(d)
  /\ UNCHANGED <<ledger, index, throws, crashes>>

\* A catch block that forgets to move the file back.
RequeueNowhere(d) ==
  /\ Doing(d, "requeue")
  /\ Drop(d)
  /\ UNCHANGED <<loc, ledger, index, throws, crashes>>

\* A catch block around the loop: the first failing packet ends the drain.
RequeueAndStop(d) ==
  /\ Doing(d, "requeue")
  /\ loc' = [loc EXCEPT ![held[d]] = "incoming"]
  /\ held' = [held EXCEPT ![d] = None]
  /\ work' = [work EXCEPT ![d] = <<>>]
  /\ todo' = [todo EXCEPT ![d] = <<>>]
  /\ UNCHANGED <<ledger, index, throws, crashes>>

\* The catch block moves the file back for a later drain, and the loop goes on.
Requeue(d) ==
  /\ Doing(d, "requeue")
  /\ loc' = [loc EXCEPT ![held[d]] = "incoming"]
  /\ Drop(d)
  /\ UNCHANGED <<ledger, index, throws, crashes>>

-----------------------------------------------------------------------------
\* A statement or the rename to processed/ throws (a locked database, a full disk).
Throw(d) ==
  /\ throws < MaxThrows
  /\ work[d] # <<>> /\ Head(work[d]) \notin {"parse", "requeue"}
  /\ throws' = throws + 1
  /\ Catch(d)
  /\ UNCHANGED <<loc, ledger, index, crashes>>

\* The file cannot be read, which is treated as one that does not parse.
ReadFails(d) ==
  /\ throws < MaxThrows
  /\ Doing(d, "parse")
  /\ throws' = throws + 1
  /\ loc' = [loc EXCEPT ![held[d]] = "failed"]
  /\ Drop(d)
  /\ UNCHANGED <<ledger, index, crashes>>

\* The move back, or the move to failed/, fails: the file stays in processing/.
MoveFails(d) ==
  /\ throws < MaxThrows
  /\ Doing(d, "requeue") \/ (Doing(d, "parse") /\ Packet(d).kind = "malformed")
  /\ throws' = throws + 1
  /\ Drop(d)
  /\ UNCHANGED <<loc, ledger, index, crashes>>

Crash(d) ==
  /\ crashes < MaxCrashes
  /\ held[d] # None \/ todo[d] # <<>>
  /\ crashes' = crashes + 1
  /\ held' = [held EXCEPT ![d] = None]
  /\ todo' = [todo EXCEPT ![d] = <<>>]
  /\ work' = [work EXCEPT ![d] = <<>>]
  /\ UNCHANGED <<loc, ledger, index, throws>>

Drain(d) ==
  \/ StartDrain(d) \/ Claim(d) \/ Skip(d) \/ Parse(d) \/ Isolate(d)
  \/ RecordEvent(d) \/ OpenSession(d) \/ EndSession(d) \/ CountPrompts(d) \/ InsertPrompt(d)
  \/ Finish(d) \/ Requeue(d)

Next ==
  \/ \E f \in Packets : WriteTmp(f) \/ Publish(f)
  \/ \E d \in Drainers : Drain(d) \/ Throw(d) \/ ReadFails(d) \/ MoveFails(d) \/ Crash(d)

Spec == Init /\ [][Next]_vars

\* A drainer that was started goes on unless it dies, and there is always another Stop hook.
FairSpec == Spec /\ \A d \in Drainers : WF_vars(Drain(d))

-----------------------------------------------------------------------------
PromptRows(f) == {i \in DOMAIN prompts[Content[f].session] : prompts[Content[f].session][i] = f}

\* No two drainers work on the same packet, however their listings overlapped: a
\* packet being worked on is in processing/ and has one owner.
OneOwner ==
  \A d \in Drainers : held[d] # None =>
    /\ loc[held[d]] = "processing"
    /\ \A other \in Drainers \ {d} : held[other] # held[d]

\* What a packet says is in the ledger.
Persisted(f) ==
  /\ f \in events
  /\ Content[f].kind \in {"start", "prompt"} => sessions[Content[f].session] # "none"
  /\ Content[f].kind = "end" => sessions[Content[f].session] = "ended"
  /\ Content[f].kind = "prompt" => PromptRows(f) # {}

\* A packet reaches processed/ only with everything it says in the ledger, and
\* nothing that another drainer or a retry does afterwards takes it out again.
ProcessedIsPersisted == \A f \in Packets : loc[f] = "processed" => Persisted(f)

\* The prompts of a session are numbered without a gap, although drainers count
\* and insert in two statements.
PromptsAreNumbered ==
  \A s \in Sessions : DOMAIN prompts[s] = 0..(Cardinality(DOMAIN prompts[s]) - 1)

\* A file that no drainer will ever look at again.
Stuck(f) == loc[f] = "processing" /\ \A d \in Drainers : held[d] # f

\* The rows of session_prompts, each with the packet that it was made of.
PromptRecords == UNION {{f} \X PromptRows(f) : f \in Packets}

\* Racing drainers do no damage of their own.  A prompt is recorded twice only when a
\* drain of its packet threw after the first time; a packet that parses ends up in
\* failed/, or stuck, only through a failure of its own, one failure losing at most one.
DamageNeedsFailures ==
  /\ Cardinality(PromptRecords) <= Cardinality({f \in Packets : PromptRows(f) # {}}) + throws
  /\ Cardinality({f \in Packets : Content[f].kind # "malformed" /\ (loc[f] = "failed" \/ Stuck(f))})
       <= throws + crashes

\* Every published packet is eventually processed or isolated, also behind a
\* packet that is put back every time, unless a drainer leaves it stuck.
EveryPacketSettles ==
  \A f \in Packets :
    (loc[f] = "incoming" /\ Content[f].kind # "incomplete")
      ~> (loc[f] \in {"processed", "failed"} \/ Stuck(f))

StageAt(place) ==
  CASE place \in {"unwritten", "tmp"}       -> "unsent"
    [] place \in {"incoming", "processing"} -> "pending"
    [] place = "processed"                  -> "settled"
    [] place = "failed"                     -> "rejected"

Stage == [f \in Packets |-> StageAt(loc[f])]

\* The spool delivers every packet at least once before it settles it.
Delivery == INSTANCE PacketDelivery WITH
  Malformed <- {f \in Packets : Content[f].kind = "malformed"},
  stage <- Stage,
  delivered <- {f \in Packets : Persisted(f)}

ImplementsDelivery == Delivery!Spec
=============================================================================
