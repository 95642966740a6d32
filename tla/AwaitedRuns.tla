------------------------------ MODULE AwaitedRuns ------------------------------
(***************************************************************************)
(* What one call of the dispatch loop promises the planner of a Study: a   *)
(* Run computes only while the planner awaits it, the planner gets the     *)
(* result of what it awaits once and whole, and what it does not want any  *)
(* more is given up only before it starts.  CoordinatedDispatch implements *)
(* this specification.                                                     *)
(***************************************************************************)
EXTENDS Naturals

CONSTANTS
  Runs,    \* Runs the planner can ask for
  First,   \* those it asks for first
  Chunks   \* chunks of a Run's scalars

VARIABLES
  awaited,  \* Runs the planner wants and has no result of
  given,    \* Runs whose result it was given
  life,     \* of each Run: "idle", "working" or "finished"
  heard     \* chunks of each Run's scalars that the call holds

vars == <<awaited, given, life, heard>>

Init ==
  /\ awaited = First /\ given = {}
  /\ life = [r \in Runs |-> "idle"] /\ heard = [r \in Runs |-> 0]

Start(r) ==
  /\ r \in awaited /\ life[r] = "idle"
  /\ life' = [life EXCEPT ![r] = "working"]
  /\ UNCHANGED <<awaited, given, heard>>

Finish(r) ==
  /\ r \in awaited /\ life[r] = "working"
  /\ life' = [life EXCEPT ![r] = "finished"]
  /\ UNCHANGED <<awaited, given, heard>>

Hear(r) ==
  /\ r \in awaited /\ life[r] # "idle" /\ heard[r] < Chunks
  /\ heard' = [heard EXCEPT ![r] = @ + 1]
  /\ UNCHANGED <<awaited, given, life>>

\* The planner wants the Runs of R as well, and some it named no longer.
Revise(R, dropped) ==
  /\ R \intersect given = {} /\ \A r \in R \union dropped : life[r] = "idle"
  /\ awaited' = (awaited \ dropped) \union R
  /\ UNCHANGED <<given, life, heard>>

\* It does so when it is given a result.
Give(r, R, dropped) ==
  /\ r \in awaited /\ life[r] = "finished" /\ heard[r] = Chunks
  /\ r \notin R /\ R \intersect given = {} /\ \A q \in R \union dropped : life[q] = "idle"
  /\ given' = given \union {r}
  /\ awaited' = (awaited \ ({r} \union dropped)) \union R
  /\ UNCHANGED <<life, heard>>

Next ==
  \/ \E r \in Runs : Start(r) \/ Finish(r) \/ Hear(r)
  \/ \E R, dropped \in SUBSET Runs :
       Revise(R, dropped) \/ \E r \in Runs : Give(r, R, dropped)

Spec == Init /\ [][Next]_vars
=============================================================================
