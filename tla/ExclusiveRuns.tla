------------------------------ MODULE ExclusiveRuns ------------------------------
(***************************************************************************)
(* What a coordinated Study promises about its Runs, whatever the network, *)
(* the executors and the operator do: a Run is executed by the attempt     *)
(* that owns it and by no other, an attempt is replaced only when nothing  *)
(* of the Run is alive, and its evidence is settled once, by its owner.    *)
(***************************************************************************)
EXTENDS Naturals

CONSTANTS
  Runs,      \* logical Runs
  Outcomes,  \* what evidence can say of a Run
  None       \* no evidence yet

VARIABLES
  granted,   \* attempts granted so far; the last one has this number
  owned,     \* Runs whose last attempt is authorised to execute
  alive,     \* attempts that may be executing
  evidence   \* settled outcome

vars == <<granted, owned, alive, evidence>>

Init ==
  /\ granted = [r \in Runs |-> 0] /\ owned = {}
  /\ alive = [r \in Runs |-> {}]
  /\ evidence = [r \in Runs |-> None]

\* Give fresh attempts to Runs nobody owns and nothing of which is alive.
Grant(R) ==
  /\ \A r \in R : r \notin owned /\ alive[r] = {} /\ evidence[r] = None
  /\ granted' = [r \in Runs |-> IF r \in R THEN granted[r] + 1 ELSE granted[r]]
  /\ owned' = owned \union R
  /\ UNCHANGED <<alive, evidence>>

\* The owners of the Runs begin to execute.
Start(R) ==
  /\ R \subseteq owned /\ \A r \in R : alive[r] = {}
  /\ alive' = [r \in Runs |-> IF r \in R THEN {granted[r]} ELSE alive[r]]
  /\ UNCHANGED <<granted, owned, evidence>>

Stop(R) ==
  /\ alive' = [r \in Runs |-> IF r \in R THEN {} ELSE alive[r]]
  /\ UNCHANGED <<granted, owned, evidence>>

\* Ownership is taken back only from Runs nothing of which is alive.
Release(R) ==
  /\ R \subseteq owned /\ \A r \in R : alive[r] = {}
  /\ owned' = owned \ R
  /\ UNCHANGED <<granted, alive, evidence>>

Settle(r, o) ==
  /\ r \in owned /\ alive[r] = {} /\ evidence[r] = None
  /\ evidence' = [evidence EXCEPT ![r] = o]
  /\ owned' = owned \ {r}
  /\ UNCHANGED <<granted, alive>>

Next ==
  \/ \E R \in SUBSET Runs : Grant(R) \/ Start(R) \/ Stop(R) \/ Release(R)
  \/ \E r \in Runs, o \in Outcomes : Settle(r, o)

Spec == Init /\ [][Next]_vars
=============================================================================
