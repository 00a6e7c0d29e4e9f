---------------------------- MODULE EffectAlgebra ----------------------------
(***************************************************************************)
(* What a trace of normalized actions did: the effect summaries and the    *)
(* predicates over traces of src/src/compiler/semantics.ts.  An action is  *)
(* a record; reads and writes are sets of resources, which is what the     *)
(* sorted lists of the code stand for; evidence is a list, for the code    *)
(* only ever appends to it.                                                *)
(***************************************************************************)
EXTENDS Naturals, Sequences, FiniteSets, SequencesExt

CONSTANT None

Resource(type, ref) == [type |-> type, ref |-> ref]

emptyEffect == [reads |-> {}, writes |-> {}, commands |-> {}, evidence |-> <<>>]

\* Mutant: the later effect replaces the earlier one.
concatEffectsLast(left, right) ==
  [reads    |-> right.reads, writes |-> right.writes, commands |-> right.commands,
   evidence |-> left.evidence \o right.evidence]

concatEffects(left, right) ==
  [reads    |-> left.reads \cup right.reads,
   writes   |-> left.writes \cup right.writes,
   commands |-> left.commands \cup right.commands,
   evidence |-> left.evidence \o right.evidence]

actionToEffect(action) ==
  [reads    |-> action.read,
   writes   |-> action.written,
   commands |-> IF action.command = None THEN {} ELSE {action.command},
   evidence |-> <<action.event>>]

foldTrace(trace) ==
  FoldLeft(LAMBDA effect, action : concatEffects(effect, actionToEffect(action)), emptyEffect, trace)

-----------------------------------------------------------------------------
(* Actions.                                                                *)

TouchesExternal(action) ==
  \E r \in action.read \cup action.written : r.type = "external_resource"

hasExternalSideEffects(action) ==
  \/ action.operation = "mutate_external"
  \/ action.risk \in {"external_write", "deploy"}
  \/ action.facets \cap {"external", "cloud", "deploy"} # {}
  \/ TouchesExternal(action)

areIndependent(left, right) ==
  /\ ~hasExternalSideEffects(left) /\ ~hasExternalSideEffects(right)
  /\ left.written \cap (right.read \cup right.written) = {}
  /\ right.written \cap (left.read \cup left.written) = {}

findConflicts(trace) ==
  {pair \in (DOMAIN trace) \X (DOMAIN trace) : pair[1] < pair[2] /\ ~areIndependent(trace[pair[1]], trace[pair[2]])}

isInspectAction(action) ==
  action.read # {} /\ action.written = {} /\ action.operation = "observe"

isEditAction(action) ==
  /\ action.operation = "mutate_local"
  /\ \E r \in action.written : r.type = "local_file"

isTestAction(action) == action.intent = "verify" \/ "test" \in action.facets

isExternalAction(action) == action.operation = "mutate_external" \/ TouchesExternal(action)

actionSucceeded(action) == action.status = "succeeded" \/ action.exit = 0
actionFailed(action) == action.status = "failed" \/ action.exit \notin {None, 0}

-----------------------------------------------------------------------------
(* Traces.                                                                 *)

LastEdit(trace) == SelectLastInSeq(trace, isEditAction)

AfterLastEdit(trace) == SubSeq(trace, LastEdit(trace) + 1, Len(trace))

hasVerifiedCompletion(trace) ==
  /\ LastEdit(trace) # 0
  /\ \E a \in Range(AfterLastEdit(trace)) : isTestAction(a) /\ actionSucceeded(a)

hasStoppedAfterEditWithoutVerification(trace) ==
  /\ LastEdit(trace) # 0
  /\ \A a \in Range(AfterLastEdit(trace)) : ~isTestAction(a)

\* A verifier that failed is open until the next verifier.
hasDebugging(trace) ==
  \E i, j \in DOMAIN trace :
    /\ i < j
    /\ isTestAction(trace[i]) /\ actionFailed(trace[i])
    /\ \A k \in (i + 1) .. j : ~isTestAction(trace[k])
    /\ isEditAction(trace[j]) \/ isInspectAction(trace[j])

hasApprovalFriction(trace) ==
  \E a \in Range(trace) : a.eventKind = "approval" \/ a.status = "denied"

hasUnsafeWrite(trace) ==
  \E a \in Range(trace) : /\ a.operation \in {"mutate_local", "mutate_external"}
                          /\ a.risk \in {"destructive", "external_write"}

Predicates(trace) ==
  [verified   |-> hasVerifiedCompletion(trace),
   debugging  |-> hasDebugging(trace),
   friction   |-> hasApprovalFriction(trace),
   unsafe     |-> hasUnsafeWrite(trace),
   unverified |-> hasStoppedAfterEditWithoutVerification(trace)]
=============================================================================
