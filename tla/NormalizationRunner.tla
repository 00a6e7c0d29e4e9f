------------------------ MODULE NormalizationRunner ------------------------
(***************************************************************************)
(* The batch loop of normalizeHooks (src/src/hooks/normalization-runner.ts)*)
(* that several processes run over one ledger: every hook process runs it  *)
(* after recording its own event, and so do the spool drainer and          *)
(* `lyo hooks normalize`.  A run lists the events that no one has          *)
(* normalized, works through that list without looking again, and marks    *)
(* each event after its last write.  There is no transaction: a process    *)
(* that throws or dies leaves the writes it made, and the events it did    *)
(* not mark are listed again by the next run.                              *)
(*                                                                         *)
(* What is done with an event is left to the modules that extend this one. *)
(***************************************************************************)
EXTENDS Naturals, Sequences, FiniteSets, SequencesExt

CONSTANTS Events,    \* event ids, numbered in created_at order
          Procs,     \* processes that record events and normalize
          MaxAborts  \* bound on the runs that throw or die

ASSUME RunnerAssumption == Events \subseteq Nat /\ IsFiniteSet(Events) /\ MaxAborts \in Nat

VARIABLES recorded,   \* rows of hook_events
          normalized, \* rows of hook_normalizations
          batch,      \* the events each process still has to work through
          running,    \* the processes inside normalizeHooks
          aborts      \* runs that ended early

runnerVars == <<recorded, normalized, batch, running, aborts>>

RunnerTypeOK ==
  /\ recorded \subseteq Events
  /\ normalized \subseteq recorded
  /\ running \subseteq Procs
  /\ \A p \in Procs : Range(batch[p]) \subseteq recorded
  /\ aborts \in 0..MaxAborts

RunnerInit ==
  /\ recorded = {}
  /\ normalized = {}
  /\ batch = [p \in Procs |-> <<>>]
  /\ running = {}
  /\ aborts = 0

\* recordHookEvent: the insert of a new event, stamped with the time of the insert.
RecordEvent(e) ==
  /\ e \notin recorded
  /\ \A earlier \in Events : earlier < e => earlier \in recorded
  /\ recorded' = recorded \cup {e}
  /\ UNCHANGED <<normalized, batch, running, aborts>>

\* The select that a run starts with: the events without a row in hook_normalizations,
\* in created_at order.
ListEvents(p) ==
  LET listed == recorded \ normalized
  IN
  /\ p \notin running
  /\ listed # {}
  /\ \E events \in [1 .. Cardinality(listed) -> listed] :
       /\ \A i, k \in DOMAIN events : i < k => events[i] < events[k]
       /\ batch' = [batch EXCEPT ![p] = events]
  /\ running' = running \cup {p}
  /\ UNCHANGED <<recorded, normalized, aborts>>

Current(p) == Head(batch[p])

Working(p) == p \in running /\ batch[p] # <<>>

\* insert or ignore into hook_normalizations, the last write of an event.
MarkNormalized(p) ==
  /\ normalized' = normalized \cup {Current(p)}
  /\ batch' = [batch EXCEPT ![p] = Tail(@)]
  /\ UNCHANGED <<recorded, running, aborts>>

\* The run returns.
EndRun(p) ==
  /\ p \in running
  /\ batch[p] = <<>>
  /\ running' = running \ {p}
  /\ UNCHANGED <<recorded, normalized, batch, aborts>>

\* The run throws, or its process dies.
AbortRun(p) ==
  /\ p \in running
  /\ aborts < MaxAborts
  /\ aborts' = aborts + 1
  /\ running' = running \ {p}
  /\ batch' = [batch EXCEPT ![p] = <<>>]
  /\ UNCHANGED <<recorded, normalized>>
=============================================================================
