---------------------------- MODULE MCConnection ----------------------------
(***************************************************************************)
(* One descriptor used by two sessions, and two workers, for model         *)
(* checking.                                                               *)
(***************************************************************************)
EXTENDS Connection, TLC

\* The worker that a descriptor is bound to.
FirstWorker == 1 :> "w1"

Spec == ConnectionSpec /\ ConnectionFairness
=============================================================================
