-------------------------- MODULE MCStorageAdmission --------------------------
(***************************************************************************)
(* A small volume: a job and a worker fit together exactly, a copy beside  *)
(* them only after a garbage collection.                                   *)
(***************************************************************************)
EXTENDS StorageAdmission, TLC

CONSTANTS j, w, c

Needs == (j :> 2) @@ (w :> 2) @@ (c :> 1)
===============================================================================
