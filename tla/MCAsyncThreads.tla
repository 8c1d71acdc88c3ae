--------------------------- MODULE MCAsyncThreads ---------------------------
(***************************************************************************)
(* A pool of one core thread and one more, for model checking.             *)
(***************************************************************************)
EXTENDS AsyncThreads
=============================================================================
