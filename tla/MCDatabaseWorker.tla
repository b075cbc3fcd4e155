-------------------------- MODULE MCDatabaseWorker --------------------------
(* The model-checking run of DatabaseWorker. *)
EXTENDS DatabaseRefinement
=============================================================================
