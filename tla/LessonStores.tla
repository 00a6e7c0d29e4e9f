---------------------------- MODULE LessonStores -----------------------------
(***************************************************************************)
(* The two halves of the lesson store: the standing of lessons under       *)
(* injections, validations and curation (LessonStore), and what a lesson   *)
(* is chosen and credited for (CreditLog).  Each half has the rows of its  *)
(* own, so a behaviour is one of a single half.                            *)
(***************************************************************************)
EXTENDS LessonStore, CreditLog

VARIABLE half  \* the half that is explored

storesVars == <<vars, creditVars, half>>

StoresInit == Init /\ CreditInit /\ half \in {"standing", "credit"}

StandingStep == half = "standing" /\ Next /\ UNCHANGED <<creditVars, half>>
CreditStep == half = "credit" /\ CreditNext /\ UNCHANGED <<vars, half>>

StoresNext == StandingStep \/ CreditStep

StoresSpec == StoresInit /\ [][StoresNext]_storesVars

\* Type invariant of both halves.
StoresTypeOK == TypeOK /\ CreditTypeOK
=============================================================================
