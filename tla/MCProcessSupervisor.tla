-------------------------- MODULE MCProcessSupervisor --------------------------
(***************************************************************************)
(* Small hosts for ProcessSupervisor.  Jobs are numbers so that their      *)
(* requests can differ.                                                    *)
(***************************************************************************)
EXTENDS ProcessSupervisor

One == [j \in Jobs |-> 1]
=============================================================================
