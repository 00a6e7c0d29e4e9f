--------------------------- MODULE TelemetryOutbox ---------------------------
(***************************************************************************)
(* The outbox of another agent's events, and the consumers and the server  *)
(* that bring them into hook_events (src/src/telemetry/outbox.ts,          *)
(* server.ts).  A consumer reads its cursor and the file, and only then    *)
(* begins the transaction that records the lines and moves the cursor;     *)
(* two consumers of one id may therefore have read the same lines, and the *)
(* one that commits last decides where the cursor stands.                  *)
(*                                                                         *)
(* The outbox is the lines that end in a newline: what follows the last    *)
(* newline is not read.  An offset is a number of lines.                   *)
(***************************************************************************)
EXTENDS Naturals, Sequences, FiniteSets, SequencesExt

CONSTANTS Events,          \* event ids, numbered in the order sqlite compares them
          Consumers,       \* processes that consume the outbox under one consumer id
          Limit,           \* lines of a batch (1000 by default)
          Scripts,         \* the sequences of lines that another agent may write
          MaxPosts,        \* bound: events that arrive by the server or a hook
          MaxTruncations,  \* bound: times the outbox is emptied
          MaxFaults        \* bound: steps that throw and processes that die

ASSUME OutboxAssumption ==
  /\ Events \subseteq Nat \ {0} /\ IsFiniteSet(Events)
  /\ Scripts \subseteq Seq([event : Events \cup {0}, malformed : BOOLEAN])
  /\ Limit \in Nat \ {0} /\ MaxPosts \in Nat /\ MaxTruncations \in Nat /\ MaxFaults \in Nat

VARIABLES outbox,      \* the file
          unwritten,   \* the lines that are still to come
          createdAt,   \* hook_events: the time a row was inserted, 0 without a row
          clock,       \* the time of the last insert, in milliseconds that had an insert
          cursor,      \* telemetry_cursors
          batch,       \* what each consumer has read
          posts,       \* count of events that came by another way
          truncations, \* history: times the file was emptied
          faults       \* count of steps that threw and processes that died

ledgerVars == <<createdAt, clock>>
counts == <<posts, truncations, faults>>
outboxVars == <<outbox, unwritten, ledgerVars, cursor, batch, counts>>

\* A line is an event, blank (0), or does not parse (also 0, in malformed).
Lines == [event : Events \cup {0}, malformed : BOOLEAN]
Blank == [event |-> 0, malformed |-> FALSE]
Malformed == [event |-> 0, malformed |-> TRUE]
LineOf(e) == [event |-> e, malformed |-> FALSE]

Idle == [reading |-> FALSE, events |-> {}, ack |-> 0]

recorded == {e \in Events : createdAt[e] # 0}

EventLine(i) == outbox[i].event # 0

OutboxTypeOK ==
  /\ outbox \in Seq(Lines)
  /\ createdAt \in [Events -> 0 .. clock]
  /\ cursor \in Nat
  /\ \A c \in Consumers : batch[c].events \subseteq Events /\ batch[c].ack \in Nat
  /\ truncations \in 0 .. MaxTruncations /\ faults \in 0 .. MaxFaults

OutboxInit ==
  /\ outbox = <<>>
  /\ unwritten \in Scripts
  /\ createdAt = [e \in Events |-> 0]
  /\ clock = 0
  /\ cursor = 0
  /\ batch = [c \in Consumers |-> Idle]
  /\ posts = 0 /\ truncations = 0 /\ faults = 0

-----------------------------------------------------------------------------
(* The other agent.                                                        *)

WriteLine ==
  /\ unwritten # <<>>
  /\ outbox' = Append(outbox, Head(unwritten))
  /\ unwritten' = Tail(unwritten)
  /\ UNCHANGED <<ledgerVars, cursor, batch, counts>>

Truncate ==
  /\ truncations < MaxTruncations
  /\ outbox # <<>>
  /\ outbox' = <<>>
  /\ truncations' = truncations + 1
  /\ UNCHANGED <<unwritten, ledgerVars, cursor, batch, posts, faults>>

-----------------------------------------------------------------------------
(* Recording events.                                                       *)

\* recordHookEvent: an event that has a row keeps its created_at.  The inserts
\* of one transaction share a millisecond, and the next one may share it too.
RecordAll(events) ==
  \E now \in {clock, clock + 1} \ {0} :
    /\ createdAt' = [e \in Events |-> IF e \in events \ recorded THEN now ELSE createdAt[e]]
    /\ clock' = IF events \subseteq recorded THEN clock ELSE now

\* A request of the telemetry server, or a hook: the events are recorded in one transaction.
PostEvents(events) ==
  /\ events # {} /\ posts + Cardinality(events) <= MaxPosts
  /\ posts' = posts + Cardinality(events)
  /\ RecordAll(events)
  /\ UNCHANGED <<outbox, unwritten, cursor, batch, truncations, faults>>

-----------------------------------------------------------------------------
(* A consumer.                                                             *)

\* The lines of the next batch: those with fewer than Limit events between the cursor and them.
Taken ==
  {i \in cursor + 1 .. Len(outbox) : Cardinality({j \in cursor + 1 .. i - 1 : EventLine(j)}) < Limit}

\* Mutant: the cursor moves over all that has been written.
AcknowledgedAll == Len(outbox)

\* The end of the last line that held an event; blank lines behind it stay.
Acknowledged ==
  LET held == {i \in Taken : EventLine(i)}
  IN IF held = {} THEN cursor ELSE Max(held)

\* Mutant: a blank line is an event.
EventsOfAll(lines) == {outbox[i].event : i \in lines}

EventsOf(lines) == {outbox[i].event : i \in lines} \ {0}

\* A file shorter than the cursor and a line that does not parse throw here:
\* nothing is recorded and the cursor stays.
ReadOutbox(c) ==
  /\ ~batch[c].reading
  /\ Len(outbox) >= cursor
  /\ \A i \in Taken : ~outbox[i].malformed
  /\ batch' = [batch EXCEPT ![c] = [reading |-> TRUE,
                                    events |-> EventsOf(Taken),
                                    ack |-> Acknowledged]]
  /\ UNCHANGED <<outbox, unwritten, ledgerVars, cursor, counts>>

\* The transaction: the lines, the normalization, the cursor.
CommitBatch(c) ==
  /\ batch[c].reading
  /\ RecordAll(batch[c].events)
  /\ cursor' = batch[c].ack
  /\ batch' = [batch EXCEPT ![c] = Idle]
  /\ UNCHANGED <<outbox, unwritten, counts>>

\* The transaction is rolled back, or the process dies before it commits.
RollBack(c) ==
  /\ batch[c].reading
  /\ faults < MaxFaults
  /\ faults' = faults + 1
  /\ batch' = [batch EXCEPT ![c] = Idle]
  /\ UNCHANGED <<outbox, unwritten, ledgerVars, cursor, posts, truncations>>

Consume(c) == ReadOutbox(c) \/ CommitBatch(c)

OutboxNext ==
  \/ WriteLine
  \/ Truncate
  \/ \E events \in SUBSET Events : PostEvents(events)
  \/ \E c \in Consumers : Consume(c) \/ RollBack(c)

-----------------------------------------------------------------------------
\* Unless the file was emptied, no event is lost between the cursor and the
\* ledger, whichever of two consumers moved the cursor last and whatever was
\* rolled back: every event line behind the cursor has its row
\* (src/src/telemetry/outbox.ts, consumeTelemetryOutbox).
SkippingNeedsTruncation ==
  truncations = 0 =>
    /\ cursor <= Len(outbox)
    /\ \A i \in 1 .. cursor : EventLine(i) => outbox[i].event \in recorded
=============================================================================
