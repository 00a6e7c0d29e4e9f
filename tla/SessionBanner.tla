---------------------------- MODULE SessionBanner ----------------------------
(***************************************************************************)
(* The lessons that a hook prints into an interactive session, once per    *)
(* session (src/src/lyo/selection/session-hook.ts).                        *)
(*                                                                         *)
(* A hook is a process of its own, started by every prompt.  It takes the  *)
(* first lesson store that exists, renders what is in it, and claims the   *)
(* session with a marker file: first the look at the file, then the write. *)
(* Lessons are written and pruned by others meanwhile, hooks of one        *)
(* session may overlap, a hook may end at its timer or die, and the        *)
(* directory of the markers may be unusable.  Whatever fails, the session  *)
(* goes on.                                                                *)
(***************************************************************************)
EXTENDS Integers, Sequences, FiniteSets

CONSTANTS Openings,        \* what may lie at the places of a store, in the order they are tried
          Sessions,        \* session ids
          MarkerName,      \* the file name of each: other characters become one
          Hooks,           \* processes
          NoSession,       \* a call without a session id
          MaxPrompts,      \* bound on hooks started
          MaxStoreChanges, \* bound on the changes of the stores
          MaxHookFaults    \* bound on hooks that end early and on losses of the directory

StoreStates == {"absent", "unreadable", "empty", "stocked"}

ASSUME BannerAssumption == NoSession \notin Sessions /\ Openings \subseteq Seq(StoreStates)

VARIABLES store,         \* place -> "absent", "unreadable", "empty" or "stocked"
          markers,       \* the marker files
          usable,        \* the directory of the markers can be used
          hook,          \* the hooks under way
          shown,         \* history: how often each session was shown lessons
          overlapped,    \* history: marker names that two hooks under way shared
          uncertain,     \* history: marker names a hook could not claim, or claimed and ended early
          prompts, storeChanges, hookFaults

bannerVars == <<store, markers, usable, hook, shown, overlapped, uncertain,
                prompts, storeChanges, hookFaults>>

IdleHook == [at |-> "idle", session |-> NoSession, place |-> 0]

BannerInit ==
  /\ store \in Openings
  /\ markers = {} /\ usable = TRUE
  /\ hook = [h \in Hooks |-> IdleHook]
  /\ shown = [s \in Sessions \cup {NoSession} |-> 0]
  /\ overlapped = {} /\ uncertain = {}
  /\ prompts = 0 /\ storeChanges = 0 /\ hookFaults = 0

NamesUnderWay == {MarkerName[hook[h].session] : h \in {g \in Hooks : hook[g].session # NoSession}}

\* resolveSessionLessonStorePath: the first place with a file, of whatever content.
FirstStore ==
  LET there == {p \in DOMAIN store : store[p] # "absent"}
  IN IF there = {} THEN 0 ELSE CHOOSE p \in there : \A q \in there : p <= q

StartHook(h, s) ==
  /\ hook[h].at = "idle" /\ prompts < MaxPrompts
  /\ hook' = [hook EXCEPT ![h] = [at |-> "resolve", session |-> s, place |-> 0]]
  /\ overlapped' = IF s # NoSession /\ MarkerName[s] \in NamesUnderWay
                   THEN overlapped \cup {MarkerName[s]} ELSE overlapped
  /\ prompts' = prompts + 1
  /\ UNCHANGED <<store, markers, usable, shown, uncertain, storeChanges, hookFaults>>

ResolveStore(h) ==
  /\ hook[h].at = "resolve"
  /\ hook' = [hook EXCEPT ![h] = IF FirstStore = 0 THEN IdleHook
                                 ELSE [@ EXCEPT !.at = "render", !.place = FirstStore]]
  /\ UNCHANGED <<store, markers, usable, shown, overlapped, uncertain, prompts, storeChanges, hookFaults>>

\* The marker is written with the look at the store, whatever it holds.
RenderClaiming(h) ==
  LET name == MarkerName[hook[h].session]
      claims == hook[h].session # NoSession /\ usable
  IN
  /\ hook[h].at = "render"
  /\ markers' = IF claims THEN markers \cup {name} ELSE markers
  /\ hook' = [hook EXCEPT ![h] =
       IF store[hook[h].place] # "stocked" \/ (claims /\ name \in markers) THEN IdleHook
       ELSE [@ EXCEPT !.at = "print"]]
  /\ UNCHANGED <<store, usable, shown, overlapped, uncertain, prompts, storeChanges, hookFaults>>

\* renderSessionLessons: a store that cannot be read throws, an empty one has no text; a
\* call without a session id is printed unclaimed.
Render(h) ==
  /\ hook[h].at = "render"
  /\ hook' = [hook EXCEPT ![h] =
       IF store[hook[h].place] # "stocked" THEN IdleHook
       ELSE [@ EXCEPT !.at = IF hook[h].session = NoSession THEN "print" ELSE "look"]]
  /\ UNCHANGED <<store, markers, usable, shown, overlapped, uncertain, prompts, storeChanges, hookFaults>>

\* claimSessionBanner: the look at the marker; an unusable directory lets the hook print.
LookForMarker(h) ==
  LET name == MarkerName[hook[h].session]
  IN
  /\ hook[h].at = "look"
  /\ hook' = [hook EXCEPT ![h] = IF usable /\ name \in markers THEN IdleHook
                                 ELSE [@ EXCEPT !.at = IF usable THEN "claim" ELSE "print"]]
  /\ uncertain' = IF usable THEN uncertain ELSE uncertain \cup {name}
  /\ UNCHANGED <<store, markers, usable, shown, overlapped, prompts, storeChanges, hookFaults>>

WriteMarker(h) ==
  LET name == MarkerName[hook[h].session]
  IN
  /\ hook[h].at = "claim"
  /\ markers' = IF usable THEN markers \cup {name} ELSE markers
  /\ uncertain' = IF usable THEN uncertain ELSE uncertain \cup {name}
  /\ hook' = [hook EXCEPT ![h].at = "print"]
  /\ UNCHANGED <<store, usable, shown, overlapped, prompts, storeChanges, hookFaults>>

PrintLessons(h) ==
  /\ hook[h].at = "print"
  /\ shown' = [shown EXCEPT ![hook[h].session] = @ + 1]
  /\ hook' = [hook EXCEPT ![h] = IdleHook]
  /\ UNCHANGED <<store, markers, usable, overlapped, uncertain, prompts, storeChanges, hookFaults>>

\* The timer ends the process, or it dies.
EndHookEarly(h) ==
  /\ hook[h].at # "idle" /\ hookFaults < MaxHookFaults
  /\ hookFaults' = hookFaults + 1
  /\ uncertain' = IF hook[h].at = "print" /\ hook[h].session # NoSession
                  THEN uncertain \cup {MarkerName[hook[h].session]} ELSE uncertain
  /\ hook' = [hook EXCEPT ![h] = IdleHook]
  /\ UNCHANGED <<store, markers, usable, shown, overlapped, prompts, storeChanges>>

\* The directory for temporary files is full or not ours.
LoseMarkerDirectory ==
  /\ usable /\ hookFaults < MaxHookFaults
  /\ usable' = FALSE /\ hookFaults' = hookFaults + 1
  /\ UNCHANGED <<store, markers, hook, shown, overlapped, uncertain, prompts, storeChanges>>

\* Runs create stores and lessons; lessons are pruned; a file may be no database.
ChangeStore(place, content) ==
  /\ store[place] # content /\ content # "absent" /\ storeChanges < MaxStoreChanges
  /\ store' = [store EXCEPT ![place] = content]
  /\ storeChanges' = storeChanges + 1
  /\ UNCHANGED <<markers, usable, hook, shown, overlapped, uncertain, prompts, hookFaults>>

BannerNext ==
  \/ \E h \in Hooks, s \in Sessions \cup {NoSession} : StartHook(h, s)
  \/ \E h \in Hooks : ResolveStore(h) \/ Render(h) \/ LookForMarker(h) \/ WriteMarker(h)
                      \/ PrintLessons(h) \/ EndHookEarly(h)
  \/ LoseMarkerDirectory
  \/ \E place \in DOMAIN store, content \in StoreStates : ChangeStore(place, content)

-----------------------------------------------------------------------------
BannerTypeOK ==
  /\ \A place \in DOMAIN store : store[place] \in StoreStates
  /\ markers \subseteq {MarkerName[s] : s \in Sessions}
  /\ \A h \in Hooks : hook[h].at \notin {"idle", "resolve"} => hook[h].place \in DOMAIN store

ShownAs(name) == UNION {{s} \X (1 .. shown[s]) : s \in {t \in Sessions : MarkerName[t] = name}}

\* Sessions with one marker name are shown lessons once between them, unless two of
\* their hooks overlapped or the marker could not be written; and the marker that keeps
\* later hooks silent is there only when a hook showed the lessons, is about to, or
\* ended with them in its hands.  A session that opens with an empty library still
\* receives lessons later.
BannerIsShownOnce ==
  \A name \in {MarkerName[s] : s \in Sessions} :
    /\ Cardinality(ShownAs(name)) > 1 => name \in overlapped \cup uncertain
    /\ name \in markers =>
         \/ ShownAs(name) # {} \/ name \in uncertain
         \/ \E h \in Hooks : /\ hook[h].at = "print" /\ hook[h].session # NoSession
                             /\ MarkerName[hook[h].session] = name
=============================================================================
