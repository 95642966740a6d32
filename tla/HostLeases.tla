------------------------------- MODULE HostLeases -------------------------------
(***************************************************************************)
(* What the supervisors of one host promise each other without anybody in  *)
(* charge: a holder is given its cores and then its GPUs, each at once and *)
(* only what nobody excludes it from; its work starts once, with all of    *)
(* them; they do not change while it goes on; and they are given back when *)
(* it is over, or when a holder on its way out could not end it, GPUs      *)
(* first.  A holder that dies holds nothing from then on, although its     *)
(* work may go on.  ProcessSupervisor implements this.                     *)
(***************************************************************************)
CONSTANTS
  Jobs,        \* the holders
  CoreGrants,  \* of each holder: the sets of cores that meet its request
  GpuGrants,   \* of each holder: the sets of GPUs that do
  Shared,      \* holders that share GPUs with each other
  Faulty       \* holders that may fail to end their work

VARIABLES
  phase,  \* of each holder: "absent", "here", "leaving", "gone" or "dead"
  work,   \* of each holder: "none", "some", "left" (to itself) or "over"
  cores,  \* the cores it holds
  gpus    \* the GPUs it holds

vars == <<phase, work, cores, gpus>>

Excludes(j, k) == j # k /\ ~(j \in Shared /\ k \in Shared)

Init ==
  /\ phase = [j \in Jobs |-> "absent"] /\ work = [j \in Jobs |-> "none"]
  /\ cores = [j \in Jobs |-> {}] /\ gpus = [j \in Jobs |-> {}]

Arrive(j) ==
  /\ phase[j] = "absent" /\ phase' = [phase EXCEPT ![j] = "here"]
  /\ UNCHANGED <<work, cores, gpus>>

TakeCores(j) ==
  /\ phase[j] = "here" /\ work[j] = "none" /\ cores[j] = {} /\ gpus[j] = {}
  /\ \E S \in CoreGrants[j] :
       /\ \A k \in Jobs : S \intersect cores[k] = {}
       /\ cores' = [cores EXCEPT ![j] = S]
  /\ UNCHANGED <<phase, work, gpus>>

\* Whoever waits for GPUs has its cores: nobody holds GPUs and waits.
TakeGpus(j) ==
  /\ phase[j] = "here" /\ work[j] = "none"
  /\ cores[j] \in CoreGrants[j] /\ gpus[j] = {}
  /\ \E S \in GpuGrants[j] :
       /\ \A k \in Jobs : Excludes(j, k) => S \intersect gpus[k] = {}
       /\ gpus' = [gpus EXCEPT ![j] = S]
  /\ UNCHANGED <<phase, work, cores>>

StartWork(j) ==
  /\ phase[j] = "here" /\ work[j] = "none"
  /\ cores[j] \in CoreGrants[j] /\ gpus[j] \in GpuGrants[j]
  /\ work' = [work EXCEPT ![j] = "some"]
  /\ UNCHANGED <<phase, cores, gpus>>

EndWork(j) ==
  /\ work[j] \in {"some", "left"} /\ work' = [work EXCEPT ![j] = "over"]
  /\ UNCHANGED <<phase, cores, gpus>>

GiveUp(j) ==
  /\ j \in Faulty /\ phase[j] = "leaving" /\ work[j] = "some"
  /\ work' = [work EXCEPT ![j] = "left"]
  /\ UNCHANGED <<phase, cores, gpus>>

Leave(j) ==
  /\ phase[j] = "here" /\ phase' = [phase EXCEPT ![j] = "leaving"]
  /\ UNCHANGED <<work, cores, gpus>>

ReturnGpus(j) ==
  /\ phase[j] = "leaving" /\ work[j] # "some"
  /\ gpus' = [gpus EXCEPT ![j] = {}]
  /\ UNCHANGED <<phase, work, cores>>

ReturnCores(j) ==
  /\ phase[j] = "leaving" /\ work[j] # "some" /\ gpus[j] = {}
  /\ cores' = [cores EXCEPT ![j] = {}] /\ phase' = [phase EXCEPT ![j] = "gone"]
  /\ UNCHANGED <<work, gpus>>

Die(j) ==
  /\ phase[j] \in {"here", "leaving"} /\ phase' = [phase EXCEPT ![j] = "dead"]
  /\ cores' = [cores EXCEPT ![j] = {}] /\ gpus' = [gpus EXCEPT ![j] = {}]
  /\ UNCHANGED work

Next ==
  \E j \in Jobs :
    \/ Arrive(j) \/ TakeCores(j) \/ TakeGpus(j) \/ StartWork(j) \/ EndWork(j) \/ GiveUp(j)
    \/ Leave(j) \/ ReturnGpus(j) \/ ReturnCores(j) \/ Die(j)

Spec == Init /\ [][Next]_vars
=============================================================================
