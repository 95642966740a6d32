------------------------- MODULE StudyCoordinatorProofs -------------------------
(***************************************************************************)
(* The inductive invariant of StudyCoordinator and what follows from it    *)
(* for every fleet, Study and history.                                     *)
(***************************************************************************)
EXTENDS StudyCoordinator, FiniteSetTheorems, TLAPS

(***************************************************************************)
(* Attempts are numbered without holes, and only the latest one can be in  *)
(* use: an earlier one was lost by proof or withdrawn.                     *)
(***************************************************************************)
LeaseInv ==
  \A l \in Lease :
    /\ attempt[l] = "none" <=> l[2] > last[l[1]]
    /\ l[2] < last[l[1]] => attempt[l] \in {"lost", "withdrawn_before_submit"}

(***************************************************************************)
(* Leases are partitioned into shards of distinct Runs on one cluster.     *)
(***************************************************************************)
ShardInv ==
  \A l \in Lease :
    /\ attempt[l] = "none" => shard[l] = {}
    /\ attempt[l] # "none" =>
         /\ l \in shard[l] /\ place[l] \in Clusters
         /\ \A m \in shard[l] :
              attempt[m] # "none" /\ shard[m] = shard[l] /\ place[m] = place[l]
         /\ \A m, n \in shard[l] : m[1] = n[1] => m = n

(***************************************************************************)
(* A Run record agrees with its latest attempt and its accepted evidence.  *)
(***************************************************************************)
RecordOK(r) ==
  /\ state[r] = "absent" => last[r] = 0
  /\ state[r] \in Active \union {"lost"} => last[r] > 0 /\ attempt[Latest(r)] = state[r]
  /\ state[r] = "planned" /\ last[r] > 0 =>
       attempt[Latest(r)] \in {"lost", "withdrawn_before_submit"}
  /\ state[r] \in Terminal /\ accepted[r] = None /\ last[r] > 0 =>
       attempt[Latest(r)] \in {"lost", "withdrawn_before_submit", "rejected"}
  /\ accepted[r] # None =>
       /\ last[r] > 0 /\ accepted[r].attempt = last[r]
       /\ state[r] = accepted[r].outcome /\ attempt[Latest(r)] = state[r]

RecordInv == \A r \in Runs : RecordOK(r)

(***************************************************************************)
(* What the state of an attempt says about what happened to its lease      *)
(* beyond the provider boundary.                                           *)
(***************************************************************************)
Agrees(a, there) ==
  /\ a \in {"none", "leased", "withdrawn_before_submit"} => there = "absent"
  /\ a \in Owned => there # "absent"
  /\ a = "lost" => there \in {"refused", "dead"}
  /\ a = "rejected" => there = "refused"
  /\ a \in Outcomes => there \in {"finished", "dead"}

RemoteInv == \A l \in Lease : Agrees(attempt[l], remote[l])

(***************************************************************************)
(* A shard whose submission awaits its answer was sent, and as long as no  *)
(* executor took it the ledger owns every lease of it.                     *)
(***************************************************************************)
InflightInv ==
  \A s \in inflight :
    /\ s \in KnownShards
    /\ \A l \in s :
         /\ remote[l] # "absent"
         /\ remote[l] \in {"sent", "refused"} => attempt[l] \in Owned

(***************************************************************************)
(* While a Study is paused it owns nothing; while it is pausing it waits.  *)
(***************************************************************************)
PauseInv ==
  /\ lifecycle \in {"paused", "resuming"} => \A r \in Runs : state[r] \notin Owned
  /\ lifecycle = "pausing" => \E r \in Runs : state[r] \in Owned

Safe == LeaseInv /\ ShardInv /\ RecordInv /\ RemoteInv /\ InflightInv /\ PauseInv

IInv == TypeOK /\ Safe

(***************************************************************************)
(* A lease that was replaced by a later attempt of its Run had a durable   *)
(* Job, and the leases of a shard get their Job together.  As long as this *)
(* is so, what passes the fence is a shard of the latest leases.           *)
(***************************************************************************)
ReplacedHadJobs == \A l \in Lease : l[2] < last[l[1]] => l \in job
JobInv == \A l \in job : l \in Lease /\ shard[l] \subseteq job

Careful == IInv /\ JobIsResident /\ JobInv /\ ReplacedHadJobs

Current(s) == s = Latests(s)

CarefulDispatch ==
  \/ PlanShards
  \/ \E s \in KnownShards : Current(s) /\ (SubmitFence(s) \/ SubmitWithdraw(s))
  \/ \E s \in inflight : SubmitAcknowledged(s) \/ SubmitRejected(s) \/ SubmitAmbiguous(s)
  \/ DriverCrash

CarefulNext == OperatorSteps \/ PlannerSteps \/ CarefulDispatch \/ ReconcileSteps \/ ExternalSteps
-----------------------------------------------------------------------------
LEMMA LeaseParts ==
  /\ \A l \in Lease : l[1] \in Runs /\ l[2] \in 1..MaxAttempts /\ l = <<l[1], l[2]>>
  /\ \A r \in Runs, a \in 1..MaxAttempts :
       <<r, a>> \in Lease /\ <<r, a>>[1] = r /\ <<r, a>>[2] = a
BY DEF Lease

LEMMA FiniteLease == IsFiniteSet(Lease) /\ \A s \in SUBSET Lease : IsFiniteSet(s)
<1>1. IsFiniteSet(1..MaxAttempts)
  BY FS_Interval, ConstantsAssumption
<1>2. IsFiniteSet(Lease)
  BY <1>1, FS_Product, ConstantsAssumption DEF Lease
<1> QED
  BY <1>2, FS_Subset

THEOREM TypeInit == Init => TypeOK
<1> SUFFICES ASSUME Init PROVE TypeOK
  OBVIOUS
<1>1. (CHOOSE p \in Priorities : TRUE) \in Priorities
  BY ConstantsAssumption
<1>2. priority \in [Runs -> Priorities]
  BY <1>1 DEF Init
<1>3. /\ state \in [Runs -> RunState] /\ last \in [Runs -> 0..MaxAttempts]
      /\ accepted \in [Runs -> Evidence \union {None}]
  BY ConstantsAssumption DEF Init, RunState
<1>4. /\ attempt \in [Lease -> AttemptState] /\ remote \in [Lease -> RemoteState]
      /\ place \in [Lease -> Clusters \union {None}] /\ shard \in [Lease -> SUBSET Lease]
  BY DEF Init, AttemptState, Unspent, RemoteState
<1>5. member \in [Clusters -> MemberState]
  BY DEF Init, MemberState
<1>6. expired \in BOOLEAN /\ overtaken \in BOOLEAN
  BY Zenon DEF Init
<1>7. reserved \in Int /\ job \subseteq Lease /\ quarantined \subseteq Lease
  BY DEF Init
<1>8. waiting \subseteq Clusters /\ inflight \subseteq SUBSET Lease
  BY DEF Init
<1>9. lifecycle \in {"running", "pausing", "paused", "resuming"}
  BY DEF Init
<1> QED
  BY <1>2, <1>3, <1>4, <1>5, <1>6, <1>7, <1>8, <1>9, Zenon DEF TypeOK

LEMMA SetStateType ==
  ASSUME NEW R, NEW s \in RunState, TypeOK, SetState(R, s)
  PROVE  state' \in [Runs -> RunState]
BY DEF TypeOK, SetState

LEMMA SetAttemptType ==
  ASSUME NEW L, NEW s \in AttemptState, TypeOK, SetAttempt(L, s)
  PROVE  attempt' \in [Lease -> AttemptState]
BY DEF TypeOK, SetAttempt

LEMMA CommitType ==
  ASSUME NEW lc \in {"running", "pausing", "paused", "resuming"}, Commit(lc)
  PROVE  lifecycle' \in {"running", "pausing", "paused", "resuming"}
BY DEF Commit

LEMMA RefundType ==
  ASSUME NEW s \in SUBSET Lease, TypeOK, Refund(s)
  PROVE  reserved' \in Int
BY FiniteLease, FS_CardinalityType DEF Refund, TypeOK

LEMMA ShardOfLeases == TypeOK => KnownShards \subseteq SUBSET Lease
BY DEF TypeOK, KnownShards

LEMMA StateNames ==
  /\ {"planned", "cancelled", "leased", "queued", "running", "unknown_remote", "lost", "failed"}
        \subseteq RunState
  /\ {"leased", "queued", "running", "unknown_remote", "lost", "rejected",
      "withdrawn_before_submit"} \subseteq AttemptState
  /\ Outcomes \subseteq RunState /\ Outcomes \subseteq AttemptState
BY ConstantsAssumption DEF RunState, AttemptState, Active, Terminal, Unspent

LEMMA TypeOperator == TypeOK /\ OperatorSteps => TypeOK'
<1> SUFFICES ASSUME TypeOK, OperatorSteps PROVE TypeOK'
  OBVIOUS
<1>1. CASE RequestPause
  BY <1>1, CommitType DEF RequestPause, TypeOK, ledger
<1>2. CASE BeginResume
  BY <1>2 DEF BeginResume, TypeOK, ledger
<1>3. CASE FinishResume
  BY <1>3 DEF FinishResume, TypeOK, ledger
<1>4. ASSUME NEW c \in Clusters, NEW s \in Controls, SetMemberState(c, s) PROVE TypeOK'
  <2>1. s \in MemberState
    BY ConstantsAssumption DEF MemberState
  <2> QED
    BY <1>4, <2>1, CommitType DEF SetMemberState, TypeOK, ledger
<1>5. ASSUME NEW F \in Fleets, NEW s \in [F -> Controls], UpdateFleet(F, s) PROVE TypeOK'
  <2>1. Controls \subseteq MemberState /\ {"absent", "draining"} \subseteq MemberState
    BY ConstantsAssumption DEF MemberState
  <2>2. member' \in [Clusters -> MemberState]
    BY <1>5, <2>1 DEF UpdateFleet
  <2> QED
    BY <1>5, <2>2, CommitType DEF UpdateFleet, TypeOK, ledger
<1> QED
  BY <1>1, <1>2, <1>3, <1>4, <1>5 DEF OperatorSteps

LEMMA TypePlanner == TypeOK /\ PlannerSteps => TypeOK'
<1> SUFFICES ASSUME TypeOK, PlannerSteps PROVE TypeOK'
  OBVIOUS
<1>1. ASSUME NEW r \in Runs, NEW p \in Priorities, Enqueue(r, p) PROVE TypeOK'
  BY <1>1, SetStateType, StateNames DEF Enqueue, TypeOK
<1>2. ASSUME NEW r \in Runs, NEW p \in Priorities, ReplanUnstarted(r, p) PROVE TypeOK'
  BY <1>2, SetStateType, StateNames DEF ReplanUnstarted, TypeOK
<1>3. ASSUME NEW r \in Runs, CancelPlanned(r) PROVE TypeOK'
  BY <1>3, SetStateType, StateNames, CommitType DEF CancelPlanned, TypeOK
<1>4. ASSUME NEW r \in Runs, RetryLost(r) PROVE TypeOK'
  BY <1>4, SetStateType, StateNames, CommitType DEF RetryLost, TypeOK
<1>5. ASSUME NEW R \in SUBSET Runs, WithdrawPlanned(R) PROVE TypeOK'
  BY <1>5, SetStateType, StateNames, CommitType DEF WithdrawPlanned, TypeOK
<1> QED
  BY <1>1, <1>2, <1>3, <1>4, <1>5 DEF PlannerSteps

LEMMA FreshLease ==
  ASSUME TypeOK, NEW r \in Runs, last[r] < MaxAttempts
  PROVE  Fresh(r) \in Lease /\ Fresh(r)[1] = r /\ Fresh(r)[2] = last[r] + 1
BY LeaseParts, ConstantsAssumption DEF Fresh, TypeOK

LEMMA LendType ==
  ASSUME TypeOK, NEW chosen \in SUBSET {r \in Runs : last[r] < MaxAttempts},
         NEW choice \in [chosen -> Clusters], Lend(choice)
  PROVE  /\ state' \in [Runs -> RunState] /\ last' \in [Runs -> 0..MaxAttempts]
         /\ attempt' \in [Lease -> AttemptState]
         /\ place' \in [Lease -> Clusters \union {None}]
         /\ shard' \in [Lease -> SUBSET Lease] /\ reserved' \in Int
         /\ overtaken' \in BOOLEAN
<1> DEFINE new == {Fresh(r) : r \in chosen}
<1>1. DOMAIN choice = chosen /\ chosen \subseteq Runs /\ \A r \in chosen : last[r] < MaxAttempts
  OBVIOUS
<1>2. \A r \in chosen : Fresh(r) \in Lease /\ Fresh(r)[1] = r
  BY <1>1, FreshLease
<1>3. state' \in [Runs -> RunState]
  BY SetStateType, StateNames DEF Lend
<1>4. attempt' \in [Lease -> AttemptState]
  BY SetAttemptType, StateNames DEF Lend
<1>5. last' \in [Runs -> 0..MaxAttempts]
  BY <1>1, ConstantsAssumption DEF Lend, TypeOK
<1>6. \A l \in new : l[1] \in chosen
  BY <1>2
<1>7. place' \in [Lease -> Clusters \union {None}]
  BY <1>1, <1>6 DEF Lend, TypeOK
<1>8. \A r \in Runs : Wave(choice, r) \in SUBSET Lease
  BY <1>1, <1>2 DEF Wave
<1>9. shard' \in [Lease -> SUBSET Lease]
  BY <1>8, LeaseParts DEF Lend, TypeOK
<1>10. Cardinality(chosen) \in Nat
  BY <1>1, FS_Subset, FS_CardinalityType, ConstantsAssumption
<1>11. reserved' \in Int
  BY <1>1, <1>10 DEF Lend, TypeOK
<1>12. overtaken' \in BOOLEAN
  BY Zenon DEF Lend
<1> QED
  BY <1>3, <1>4, <1>5, <1>7, <1>9, <1>11, <1>12

LEMMA ShardIsPlaced ==
  ASSUME TypeOK, ShardInv, NEW s \in KnownShards
  PROVE  /\ s \in SUBSET Lease /\ s # {} /\ Target(s) \in Clusters
         /\ \A l \in s : /\ attempt[l] # "none" /\ shard[l] = s /\ place[l] = Target(s)
         /\ \A l, m \in s : l[1] = m[1] => l = m
<1>1. PICK k \in Lease : s = shard[k] /\ s # {}
  BY DEF KnownShards
<1>2. attempt[k] # "none" /\ s \in SUBSET Lease
  BY <1>1 DEF ShardInv, TypeOK
<1>3. /\ place[k] \in Clusters /\ \A m, n \in s : m[1] = n[1] => m = n
      /\ \A m \in s : attempt[m] # "none" /\ shard[m] = s /\ place[m] = place[k]
  BY <1>1, <1>2 DEF ShardInv
<1>4. (CHOOSE l \in s : TRUE) \in s
  BY <1>1
<1> QED
  BY <1>1, <1>2, <1>3, <1>4 DEF Target

\* Every shard in flight has a member that may be marked unavailable.
Placed == \A s \in inflight : Target(s) \in Clusters

LEMMA TypeSubmit ==
  ASSUME TypeOK, NEW s \in KnownShards, SubmitFence(s) \/ SubmitWithdraw(s)
  PROVE  TypeOK'
<1>1. CASE SubmitFence(s)
  <2>1. s \in SUBSET Lease
    BY ShardOfLeases
  <2>2. /\ state' \in [Runs -> RunState] /\ attempt' \in [Lease -> AttemptState]
    BY <1>1, SetStateType, SetAttemptType, StateNames DEF SubmitFence
  <2>3. remote' \in [Lease -> RemoteState]
    BY <1>1 DEF SubmitFence, TypeOK, RemoteState
  <2> QED
    BY <1>1, <2>1, <2>2, <2>3 DEF SubmitFence, TypeOK
<1>2. CASE SubmitWithdraw(s)
  <2>1. /\ state' \in [Runs -> RunState] /\ attempt' \in [Lease -> AttemptState]
    BY <1>2, SetStateType, SetAttemptType, StateNames DEF SubmitWithdraw
  <2>2. reserved' \in Int
    BY <1>2, ShardOfLeases, RefundType DEF SubmitWithdraw
  <2> QED
    BY <1>2, <2>1, <2>2 DEF SubmitWithdraw, TypeOK
<1> QED
  BY <1>1, <1>2

LEMMA TypeDispatch == TypeOK /\ Placed /\ DispatchSteps => TypeOK'
<1> SUFFICES ASSUME TypeOK, Placed, DispatchSteps PROVE TypeOK'
  OBVIOUS
<1>1. CASE PlanShards
  <2>1. PICK chosen \in SUBSET {r \in Runs : last[r] < MaxAttempts} :
          \E choice \in [chosen -> Clusters] : Lend(choice)
    BY <1>1 DEF PlanShards
  <2>2. PICK choice \in [chosen -> Clusters] : Lend(choice)
    BY <2>1
  <2> QED
    BY <1>1, <2>2, LendType DEF PlanShards, TypeOK
<1>2. ASSUME NEW s \in inflight, SubmitAcknowledged(s) PROVE TypeOK'
  <2>1. /\ state' \in [Runs -> RunState] /\ attempt' \in [Lease -> AttemptState]
    BY <1>2, SetStateType, SetAttemptType, StateNames DEF SubmitAcknowledged
  <2> QED
    BY <1>2, <2>1, CommitType DEF SubmitAcknowledged, Acknowledge, TypeOK
<1>3. ASSUME NEW s \in inflight, SubmitRejected(s) PROVE TypeOK'
  <2>1. /\ state' \in [Runs -> RunState] /\ attempt' \in [Lease -> AttemptState]
    BY <1>3, SetStateType, SetAttemptType, StateNames DEF SubmitRejected
  <2>2. reserved' \in Int
    BY <1>3, RefundType DEF SubmitRejected, TypeOK
  <2> QED
    BY <1>3, <2>1, <2>2, CommitType DEF SubmitRejected, TypeOK
<1>4. ASSUME NEW s \in inflight, SubmitAmbiguous(s) PROVE TypeOK'
  <2>1. /\ state' \in [Runs -> RunState] /\ attempt' \in [Lease -> AttemptState]
    BY <1>4, SetStateType, SetAttemptType, StateNames DEF SubmitAmbiguous, MarkUnavailable
  <2>2. Target(s) \in Clusters
    BY DEF Placed
  <2> QED
    BY <1>4, <2>1, <2>2, CommitType DEF SubmitAmbiguous, MarkUnavailable, TypeOK
<1>5. CASE DriverCrash
  BY <1>5 DEF DriverCrash, TypeOK, ledger
<1> QED
  BY <1>1, <1>2, <1>3, <1>4, <1>5, TypeSubmit DEF DispatchSteps

LEMMA TypeReconcile == TypeOK /\ ReconcileSteps => TypeOK'
<1> SUFFICES ASSUME TypeOK, ReconcileSteps PROVE TypeOK'
  OBVIOUS
<1>1. ASSUME NEW l \in Lease, NEW s \in Reported(l), Observe(l, s) PROVE TypeOK'
  <2>1. s \in RunState /\ s \in AttemptState
    BY StateNames DEF Reported
  <2>2. /\ state' \in [Runs -> RunState] /\ attempt' \in [Lease -> AttemptState]
    BY <1>1, <2>1, SetStateType, SetAttemptType DEF Observe
  <2> QED
    BY <1>1, <2>2, CommitType DEF Observe, TypeOK
<1>2. ASSUME NEW l \in Lease, NEW o \in Outcomes, IngestAccept(l, o) PROVE TypeOK'
  <2>1. /\ state' \in [Runs -> RunState] /\ attempt' \in [Lease -> AttemptState]
    BY <1>2, SetStateType, SetAttemptType, StateNames DEF IngestAccept
  <2>2. accepted' \in [Runs -> Evidence \union {None}]
    BY <1>2, LeaseParts DEF IngestAccept, TypeOK, Evidence
  <2> QED
    BY <1>2, <2>1, <2>2, CommitType DEF IngestAccept, TypeOK
<1>3. ASSUME NEW l \in Lease, NEW o \in Outcomes, IngestQuarantine(l, o) PROVE TypeOK'
  BY <1>3, CommitType DEF IngestQuarantine, TypeOK, ledger
<1>4. ASSUME NEW c \in Clusters, MarkUnreachable(c) PROVE TypeOK'
  <2>1. /\ state' \in [Runs -> RunState] /\ attempt' \in [Lease -> AttemptState]
    BY <1>4, SetStateType, SetAttemptType, StateNames DEF MarkUnreachable, MarkUnavailable
  <2> QED
    BY <1>4, <2>1, CommitType DEF MarkUnreachable, MarkUnavailable, TypeOK
<1>5. ASSUME NEW c \in Clusters, ReconcileSucceeded(c) PROVE TypeOK'
  BY <1>5, CommitType DEF ReconcileSucceeded, TypeOK, ledger
<1> QED
  BY <1>1, <1>2, <1>3, <1>4, <1>5 DEF ReconcileSteps

LEMMA TypeExternal == TypeOK /\ ExternalSteps => TypeOK'
<1> SUFFICES ASSUME TypeOK, ExternalSteps PROVE TypeOK'
  OBVIOUS
<1>1. ASSUME NEW s \in KnownShards, NEW a \in {"accepted", "refused"}, ExecutorDecides(s, a)
      PROVE  TypeOK'
  BY <1>1 DEF ExecutorDecides, SetRemote, RemoteState, TypeOK, ledger
<1>2. ASSUME NEW l \in Lease, NEW s \in {"finished", "dead"}, WorkerEnds(l, s) PROVE TypeOK'
  BY <1>2 DEF WorkerEnds, SetRemote, RemoteState, TypeOK, ledger
<1>3. ASSUME NEW c \in Clusters, BackoffElapses(c) PROVE TypeOK'
  BY <1>3 DEF BackoffElapses, TypeOK, ledger
<1>4. CASE BudgetExpires
  <2>1. expired' \in BOOLEAN
    BY <1>4, Zenon DEF BudgetExpires
  <2> QED
    BY <1>4, <2>1 DEF BudgetExpires, TypeOK, ledger
<1> QED
  BY <1>1, <1>2, <1>3, <1>4 DEF ExternalSteps

LEMMA TypeMove == TypeOK /\ Placed /\ [Next]_vars => TypeOK'
<1>1. TypeOK /\ UNCHANGED vars => TypeOK'
  BY DEF TypeOK, vars, ledger
<1> QED
  BY <1>1, TypeOperator, TypePlanner, TypeDispatch, TypeReconcile, TypeExternal DEF Next

(***************************************************************************)
(* What a shard carries was placed on a member, whatever the driver        *)
(* submits and when.                                                       *)
(***************************************************************************)
CarriedInv ==
  \A s \in KnownShards \union inflight :
    s # {} /\ s \subseteq Lease /\ \A l \in s : place[l] \in Clusters

LEMMA CarriedIsPlaced == CarriedInv => Placed
BY DEF CarriedInv, Placed, Target

LEMMA CarriedStep == TypeOK /\ CarriedInv /\ [Next]_vars => CarriedInv'
<1> SUFFICES ASSUME TypeOK, CarriedInv, [Next]_vars PROVE CarriedInv'
  OBVIOUS
<1>1. ASSUME UNCHANGED <<place, shard>>, inflight' \subseteq inflight \union KnownShards
      PROVE  CarriedInv'
  <2>1. KnownShards' = KnownShards
    BY <1>1 DEF KnownShards
  <2> QED
    BY <1>1, <2>1 DEF CarriedInv
<1>2. CASE PlanShards
  <2>1. PICK chosen \in SUBSET {r \in Runs : last[r] < MaxAttempts} :
          \E choice \in [chosen -> Clusters] : Lend(choice)
    BY <1>2 DEF PlanShards
  <2>2. PICK choice \in [chosen -> Clusters] : Lend(choice)
    BY <2>1
  <2> DEFINE new == {Fresh(r) : r \in chosen}
  <2>3. inflight' = inflight
    BY <1>2 DEF PlanShards
  <2>4. DOMAIN choice = chosen
    OBVIOUS
  <2>5. \A l \in Lease :
          /\ place'[l] = IF l \in new THEN choice[l[1]] ELSE place[l]
          /\ shard'[l] = IF l \in new THEN Wave(choice, l[1]) ELSE shard[l]
    BY <2>2, <2>4 DEF Lend
  <2>6. \A r \in chosen : Fresh(r) \in Lease /\ Fresh(r)[1] = r
    BY FreshLease DEF TypeOK
  <2>7. \A l \in Lease : place[l] \in Clusters => place'[l] \in Clusters
    BY <2>5, <2>6
  <2>8. ASSUME NEW l \in new
        PROVE  /\ Wave(choice, l[1]) # {} /\ Wave(choice, l[1]) \subseteq new
               /\ \A m \in Wave(choice, l[1]) : place'[m] \in Clusters
    <3>1. Wave(choice, l[1]) \subseteq new /\ l \in Wave(choice, l[1])
      BY <2>4, <2>6, <2>8 DEF Wave
    <3>2. \A m \in new : place'[m] \in Clusters
      BY <2>5, <2>6
    <3> QED
      BY <3>1, <3>2
  <2>9. ASSUME NEW s \in KnownShards'
        PROVE  s # {} /\ s \subseteq Lease /\ \A m \in s : place'[m] \in Clusters
    <3>1. PICK l \in Lease : s = shard'[l] /\ s # {}
      BY DEF KnownShards
    <3>2. CASE l \in new
      BY <2>5, <2>6, <2>8, <3>1, <3>2
    <3>3. CASE l \notin new
      <4>1. s \in KnownShards
        BY <2>5, <3>1, <3>3 DEF KnownShards
      <4> QED
        BY <2>7, <4>1 DEF CarriedInv
    <3> QED
      BY <3>2, <3>3
  <2> QED
    BY <2>3, <2>7, <2>9 DEF CarriedInv
<1>3. ASSUME NEW s \in KnownShards, SubmitFence(s) \/ SubmitWithdraw(s) PROVE CarriedInv'
  BY <1>1, <1>3 DEF SubmitFence, SubmitWithdraw
<1> QED
  BY <1>1, <1>2, <1>3
  DEF Next, OperatorSteps, PlannerSteps, DispatchSteps, ReconcileSteps, ExternalSteps,
      RequestPause, BeginResume, FinishResume, SetMemberState, UpdateFleet,
      Enqueue, ReplanUnstarted, CancelPlanned, RetryLost, WithdrawPlanned,
      SubmitAcknowledged, SubmitRejected, SubmitAmbiguous, MarkUnavailable,
      DriverCrash, Observe, IngestAccept, IngestQuarantine, MarkUnreachable,
      ReconcileSucceeded, ExecutorDecides, WorkerEnds, BackoffElapses, BudgetExpires, vars, ledger

(***************************************************************************)
(* What _read accepts is what every transaction writes.                    *)
(***************************************************************************)
THEOREM TypeCorrect == Spec => []TypeOK
<1>1. Init => TypeOK /\ CarriedInv
  <2>1. Init => CarriedInv
    BY DEF Init, CarriedInv, KnownShards
  <2> QED
    BY <2>1, TypeInit
<1>2. TypeOK /\ CarriedInv /\ [Next]_vars => TypeOK' /\ CarriedInv'
  BY TypeMove, CarriedIsPlaced, CarriedStep
<1> QED
  BY <1>1, <1>2, PTL DEF Spec

(* Only an acknowledgement records a Job, and what an executor took stays taken. *)
LEMMA JobStep == JobIsResident /\ TypeOK /\ [Next]_vars => JobIsResident'
<1> SUFFICES ASSUME JobIsResident, TypeOK, [Next]_vars
             PROVE  JobIsResident'
  OBVIOUS
<1>1. \A l \in job : l \in Lease /\ remote[l] \in {"accepted", "finished", "dead"}
  BY DEF JobIsResident, Resident
<1>2. CASE \E s \in inflight : SubmitAcknowledged(s)
  BY <1>1, <1>2 DEF JobIsResident, Resident, SubmitAcknowledged, Acknowledge, TypeOK
<1>3. CASE UNCHANGED <<job, remote>>
  BY <1>1, <1>3 DEF JobIsResident, Resident
<1>4. ASSUME NEW s \in KnownShards, SubmitFence(s) PROVE JobIsResident'
  BY <1>1, <1>4 DEF JobIsResident, Resident, SubmitFence
<1>5. ASSUME NEW s \in KnownShards, NEW a \in {"accepted", "refused"}, ExecutorDecides(s, a)
      PROVE  JobIsResident'
  BY <1>1, <1>5 DEF JobIsResident, Resident, ExecutorDecides, SetRemote, ledger
<1>6. ASSUME NEW l \in Lease, NEW s \in {"finished", "dead"}, WorkerEnds(l, s) PROVE JobIsResident'
  BY <1>1, <1>6 DEF JobIsResident, Resident, WorkerEnds, SetRemote, ledger
<1> QED
  BY <1>2, <1>3, <1>4, <1>5, <1>6
  DEF Next, OperatorSteps, PlannerSteps, DispatchSteps, ReconcileSteps, ExternalSteps,
      RequestPause, BeginResume, FinishResume, SetMemberState, UpdateFleet,
      Enqueue, ReplanUnstarted, CancelPlanned, RetryLost, WithdrawPlanned,
      PlanShards, SubmitWithdraw, SubmitRejected, SubmitAmbiguous, MarkUnavailable,
      DriverCrash, Observe, IngestAccept, IngestQuarantine, MarkUnreachable,
      ReconcileSucceeded, BackoffElapses, BudgetExpires, vars, ledger

(***************************************************************************)
(* A Job id is recorded only for leases an executor holds or held.         *)
(***************************************************************************)
THEOREM JobsAreResident == Spec => []JobIsResident
<1>1. Init => JobIsResident
  BY DEF Init, JobIsResident
<1> QED
  BY <1>1, JobStep, TypeCorrect, PTL DEF Spec

(* No writer of the ledger requeues an attempt that was seen running.      *)
LEMMA StartStep ==
  [Next]_vars =>
    [\A l \in Lease : attempt[l] = "running" => attempt'[l] # "queued"]_vars
<1> SUFFICES ASSUME Next, NEW l \in Lease, attempt[l] = "running"
             PROVE  attempt'[l] # "queued"
  BY DEF vars
<1>1. CASE OperatorSteps
  BY <1>1 DEF OperatorSteps, RequestPause, BeginResume, FinishResume, SetMemberState,
     UpdateFleet, ledger
<1>2. CASE PlannerSteps
  BY <1>2 DEF PlannerSteps, Enqueue, ReplanUnstarted, CancelPlanned, RetryLost, WithdrawPlanned
<1>3. CASE PlanShards
  BY <1>3 DEF PlanShards, Lend, SetAttempt
<1>4. ASSUME NEW s \in KnownShards, SubmitFence(s) \/ SubmitWithdraw(s)
      PROVE  attempt'[l] # "queued"
  BY <1>4 DEF SubmitFence, SubmitWithdraw, SetAttempt
<1>5. ASSUME NEW s \in inflight, SubmitAcknowledged(s) PROVE attempt'[l] # "queued"
  BY <1>5 DEF SubmitAcknowledged, Queued, SetAttempt
<1>6. ASSUME NEW s \in inflight, SubmitRejected(s) PROVE attempt'[l] # "queued"
  BY <1>6 DEF SubmitRejected, SetAttempt
<1>7. ASSUME NEW c, MarkUnavailable(c) PROVE attempt'[l] # "queued"
  BY <1>7 DEF MarkUnavailable, SetAttempt
<1>8. ASSUME NEW k \in Lease, NEW s \in Reported(k), Observe(k, s)
      PROVE  attempt'[l] # "queued"
  BY <1>8 DEF Observe, SetAttempt
<1>9. ASSUME NEW k \in Lease, NEW o \in Outcomes, IngestAccept(k, o)
      PROVE  attempt'[l] # "queued"
  <2>1. o # "queued"
    BY ConstantsAssumption
  <2> QED
    BY <1>9, <2>1 DEF IngestAccept, SetAttempt
<1>10. ASSUME attempt' = attempt PROVE attempt'[l] # "queued"
  BY <1>10
<1>11. CASE DispatchSteps
  BY <1>3, <1>4, <1>5, <1>6, <1>7, <1>10, <1>11 DEF DispatchSteps, SubmitAmbiguous, DriverCrash, ledger
<1>12. CASE ReconcileSteps
  BY <1>7, <1>8, <1>9, <1>10, <1>12
  DEF ReconcileSteps, MarkUnreachable, IngestQuarantine, ReconcileSucceeded, ledger
<1>13. CASE ExternalSteps
  BY <1>10, <1>13 DEF ExternalSteps, ExecutorDecides, WorkerEnds, BackoffElapses, BudgetExpires, ledger
<1> QED
  BY <1>1, <1>2, <1>11, <1>12, <1>13 DEF Next

(***************************************************************************)
(* An acknowledgement queues only what nobody observed yet, and a queue    *)
(* snapshot is not believed of a Run that was seen running.                *)
(***************************************************************************)
THEOREM StartsStand == Spec => StartIsNotUndone
<1> QED
  BY StartStep, PTL DEF Spec, StartIsNotUndone

-----------------------------------------------------------------------------
(***************************************************************************)
(* What the invariant says of one Run and its latest attempt.              *)
(***************************************************************************)
LEMMA LatestLease ==
  ASSUME TypeOK, LeaseInv, NEW r \in Runs, last[r] > 0
  PROVE  /\ Latest(r) \in Lease /\ Latest(r)[1] = r /\ Latest(r)[2] = last[r]
         /\ attempt[Latest(r)] # "none"
<1>1. last[r] \in 1..MaxAttempts
  BY ConstantsAssumption DEF TypeOK
<1> QED
  BY <1>1, LeaseParts DEF Latest, LeaseInv

LEMMA UsedIsLatest ==
  ASSUME TypeOK, LeaseInv, NEW l \in Lease,
         attempt[l] \notin {"none", "lost", "withdrawn_before_submit"}
  PROVE  l = Latest(l[1]) /\ last[l[1]] > 0
<1>1. l[1] \in Runs /\ l[2] \in Nat /\ l[2] > 0 /\ l = <<l[1], l[2]>>
  BY LeaseParts, ConstantsAssumption
<1>2. last[l[1]] \in Nat
  BY <1>1, ConstantsAssumption DEF TypeOK
<1>3. ~ (l[2] > last[l[1]]) /\ ~ (l[2] < last[l[1]])
  BY DEF LeaseInv
<1>4. l[2] = last[l[1]]
  BY <1>1, <1>2, <1>3
<1> QED
  BY <1>1, <1>4 DEF Latest

LEMMA OwnersOfRecord ==
  ASSUME TypeOK, LeaseInv, RecordInv, NEW r \in Runs
  PROVE  /\ state[r] \in Active \union {"absent", "planned", "lost"} => accepted[r] = None
         /\ last[r] > 0 /\ attempt[Latest(r)] \in Active => state[r] = attempt[Latest(r)]
<1>1. accepted[r] # None => state[r] \in Outcomes /\ Outcomes \subseteq Terminal
  BY ConstantsAssumption DEF RecordInv, RecordOK, TypeOK, Evidence, Terminal
<1>2. state[r] \in RunState
  BY DEF TypeOK
<1> QED
  BY <1>1, <1>2 DEF RecordInv, RecordOK, RunState, Active, Terminal

LEMMA MoveAttempts ==
  ASSUME TypeOK, LeaseInv, NEW R \in SUBSET Runs, NEW a,
         SetAttempt({Latest(r) : r \in R}, a)
  PROVE  \A l \in Lease :
           attempt'[l] = IF l[1] \in R /\ l[2] = last[l[1]] THEN a ELSE attempt[l]
<1> SUFFICES ASSUME NEW l \in Lease
             PROVE  l \in {Latest(r) : r \in R} <=> l[1] \in R /\ l[2] = last[l[1]]
  BY DEF SetAttempt
<1> QED
  BY LeaseParts DEF Latest

(***************************************************************************)
(* Moving Runs and their latest attempts together keeps records, attempts  *)
(* and shards in agreement.                                                *)
(***************************************************************************)
LEMMA MoveKeeps ==
  ASSUME TypeOK, LeaseInv, ShardInv, RecordInv,
         NEW R \in SUBSET Runs, NEW s, NEW a,
         SetState(R, s), SetAttempt({Latest(r) : r \in R}, a),
         UNCHANGED <<last, accepted, place, shard>>,
         \A r \in R : last[r] > 0 /\ accepted[r] = None,
         \/ s \in Active \union {"lost"} /\ a = s
         \/ s = "planned" /\ a = "withdrawn_before_submit"
         \/ s = "failed" /\ a = "rejected"
  PROVE  LeaseInv' /\ ShardInv' /\ RecordInv'
<1>1. \A l \in Lease :
        attempt'[l] = IF l[1] \in R /\ l[2] = last[l[1]] THEN a ELSE attempt[l]
  BY MoveAttempts
<1>2. a # "none" /\ \A l \in Lease : attempt'[l] = "none" <=> attempt[l] = "none"
  BY <1>1, LeaseParts, ConstantsAssumption DEF LeaseInv, Active, TypeOK
<1>3. LeaseInv'
  BY <1>1, <1>2, LeaseParts, ConstantsAssumption DEF LeaseInv, TypeOK
<1>4. ShardInv'
  BY <1>2 DEF ShardInv, TypeOK
<1>5. ASSUME NEW r \in Runs, last[r] > 0
      PROVE  attempt'[Latest(r)] = IF r \in R THEN a ELSE attempt[Latest(r)]
  BY <1>1, <1>5, LatestLease
<1>6. \A r \in Runs : (Latest(r))' = Latest(r)
  BY DEF Latest
<1>7. \A r \in Runs : state'[r] = IF r \in R THEN s ELSE state[r]
  BY DEF SetState
<1>8. \A r \in Runs : last[r] \in Nat
  BY ConstantsAssumption DEF TypeOK
<1>9. RecordInv'
  BY <1>5, <1>6, <1>7, <1>8 DEF RecordInv, RecordOK, Active, Terminal
<1> QED
  BY <1>3, <1>4, <1>9

\* The planner moves records whose latest attempt, if any, was given back.
LEMMA PlanKeeps ==
  ASSUME TypeOK, LeaseInv, RecordInv, NEW R \in SUBSET Runs, NEW s \in {"planned", "cancelled"},
         SetState(R, s), UNCHANGED <<last, accepted, attempt>>,
         \A r \in R : /\ accepted[r] = None
                      /\ last[r] > 0 => attempt[Latest(r)] \in {"lost", "withdrawn_before_submit"}
  PROVE  LeaseInv' /\ RecordInv'
<1>1. LeaseInv'
  BY DEF LeaseInv
<1>2. \A r \in Runs : (Latest(r))' = Latest(r)
  BY DEF Latest
<1>3. \A r \in Runs : state'[r] = IF r \in R THEN s ELSE state[r]
  BY DEF SetState
<1>4. RecordInv'
  BY <1>2, <1>3 DEF RecordInv, RecordOK, Active, Terminal
<1> QED
  BY <1>1, <1>4

LEMMA LendKeeps ==
  ASSUME TypeOK, LeaseInv, ShardInv, RecordInv, RemoteInv,
         NEW chosen \in SUBSET {r \in Runs : state[r] = "planned" /\ last[r] < MaxAttempts},
         NEW choice \in [chosen -> Clusters], Lend(choice), UNCHANGED <<accepted, remote>>
  PROVE  LeaseInv' /\ ShardInv' /\ RecordInv' /\ RemoteInv'
<1> DEFINE new == {Fresh(r) : r \in chosen}
           N(l) == l[1] \in chosen /\ l[2] = last[l[1]] + 1
<1>1. /\ DOMAIN choice = chosen /\ chosen \subseteq Runs
      /\ \A r \in chosen : last[r] < MaxAttempts /\ state[r] = "planned"
  OBVIOUS
<1>2. \A r \in chosen : Fresh(r) \in Lease /\ Fresh(r)[1] = r /\ Fresh(r)[2] = last[r] + 1
  BY <1>1, FreshLease
<1>3. \A l \in Lease : l \in new <=> N(l)
  BY <1>2, LeaseParts DEF Fresh
<1>4. /\ \A r \in Runs : state'[r] = IF r \in chosen THEN "leased" ELSE state[r]
      /\ \A r \in Runs : last'[r] = IF r \in chosen THEN last[r] + 1 ELSE last[r]
  BY <1>1 DEF Lend, SetState
<1>5. \A l \in Lease : attempt'[l] = IF N(l) THEN "leased" ELSE attempt[l]
  BY <1>1, <1>3 DEF Lend, SetAttempt
<1>6. /\ \A l \in Lease : place'[l] = IF N(l) THEN choice[l[1]] ELSE place[l]
      /\ \A l \in Lease : shard'[l] = IF N(l) THEN Wave(choice, l[1]) ELSE shard[l]
  BY <1>1, <1>3 DEF Lend
<1>7. \A r \in Runs : last[r] \in Nat
  BY ConstantsAssumption DEF TypeOK
<1>8. \A l \in Lease : N(l) => attempt[l] = "none"
  BY <1>7, LeaseParts DEF LeaseInv
<1>9. \A r \in chosen : last[r] > 0 =>
         attempt[Latest(r)] \in {"lost", "withdrawn_before_submit"}
  BY <1>1 DEF RecordInv, RecordOK
<1>10. LeaseInv'
  <2> SUFFICES ASSUME NEW l \in Lease
               PROVE  /\ attempt'[l] = "none" <=> l[2] > last'[l[1]]
                      /\ l[2] < last'[l[1]] => attempt'[l] \in {"lost", "withdrawn_before_submit"}
    BY DEF LeaseInv
  <2>1. l[1] \in Runs /\ l[2] \in Nat /\ l[2] > 0 /\ l = <<l[1], l[2]>>
    BY LeaseParts, ConstantsAssumption
  <2>2. CASE l[1] \notin chosen
    BY <2>1, <2>2, <1>4, <1>5 DEF LeaseInv
  <2>3. CASE l[1] \in chosen /\ l[2] = last[l[1]]
    <3>1. l = Latest(l[1])
      BY <2>1, <2>3 DEF Latest
    <3> QED
      BY <2>1, <2>3, <3>1, <1>4, <1>5, <1>7, <1>9
  <2>4. CASE l[1] \in chosen /\ l[2] # last[l[1]]
    BY <2>1, <2>4, <1>4, <1>5, <1>7 DEF LeaseInv
  <2> QED
    BY <2>2, <2>3, <2>4
<1>11. ShardInv'
  <2> SUFFICES ASSUME NEW l \in Lease
               PROVE  /\ attempt'[l] = "none" => shard'[l] = {}
                      /\ attempt'[l] # "none" =>
                           /\ l \in shard'[l] /\ place'[l] \in Clusters
                           /\ \A m \in shard'[l] : /\ attempt'[m] # "none"
                                                   /\ shard'[m] = shard'[l]
                                                   /\ place'[m] = place'[l]
                           /\ \A m, n \in shard'[l] : m[1] = n[1] => m = n
    BY DEF ShardInv
  <2>1. CASE N(l)
    <3>1. /\ l \in Wave(choice, l[1])
          /\ \A m \in Wave(choice, l[1]) :
               /\ m \in Lease /\ N(m) /\ choice[m[1]] = choice[l[1]]
               /\ m = Fresh(m[1]) /\ Wave(choice, m[1]) = Wave(choice, l[1])
      BY <2>1, <1>1, <1>2, LeaseParts DEF Wave, Fresh
    <3> QED
      BY <2>1, <3>1, <1>5, <1>6
  <2>2. CASE ~N(l) /\ attempt[l] # "none"
    <3>1. /\ shard'[l] = shard[l] /\ shard[l] \subseteq Lease
          /\ \A m \in shard[l] : attempt[m] # "none" /\ ~N(m)
      BY <2>2, <1>6, <1>8 DEF ShardInv, TypeOK
    <3> QED
      BY <2>2, <3>1, <1>5, <1>6 DEF ShardInv
  <2>3. CASE ~N(l) /\ attempt[l] = "none"
    BY <2>3, <1>5, <1>6 DEF ShardInv
  <2> QED
    BY <2>1, <2>2, <2>3
<1>12. RecordInv'
  <2> SUFFICES ASSUME NEW r \in Runs
               PROVE  RecordOK(r)'
    BY DEF RecordInv
  <2>1. CASE r \in chosen
    <3>1. Latest(r)' = Fresh(r) /\ attempt'[Fresh(r)] = "leased" /\ last'[r] > 0
      BY <2>1, <1>2, <1>4, <1>5, <1>7 DEF Latest, Fresh
    <3>2. accepted'[r] = None
      BY <2>1, <1>1, OwnersOfRecord
    <3> QED
      BY <2>1, <3>1, <3>2, <1>4 DEF RecordOK, Active, Terminal
  <2>2. CASE r \notin chosen
    <3>1. Latest(r)' = Latest(r) /\ last'[r] = last[r] /\ state'[r] = state[r]
      BY <2>2, <1>4 DEF Latest
    <3>2. last[r] > 0 => attempt'[Latest(r)] = attempt[Latest(r)]
      BY <2>2, <1>5, LatestLease
    <3> QED
      BY <3>1, <3>2, <1>7 DEF RecordInv, RecordOK
  <2> QED
    BY <2>1, <2>2
<1>13. RemoteInv'
  BY <1>5, <1>8, ConstantsAssumption DEF RemoteInv, Agrees, Owned, Active
<1> QED
  BY <1>10, <1>11, <1>12, <1>13

\* Steps that leave the ledger alone, and the epilogue of a transaction.
LEMMA LedgerKeeps ==
  ASSUME Safe, UNCHANGED ledger
  PROVE  /\ LeaseInv' /\ ShardInv' /\ RecordInv' /\ KnownShards' = KnownShards
         /\ UNCHANGED remote => RemoteInv'
         /\ UNCHANGED <<remote, inflight>> => InflightInv'
<1>1. LeaseInv' /\ ShardInv'
  BY DEF Safe, ledger, LeaseInv, ShardInv
<1>2. RecordInv'
  BY DEF Safe, ledger, RecordInv, RecordOK, Latest
<1>3. KnownShards' = KnownShards
  BY DEF ledger, KnownShards
<1> QED
  BY <1>1, <1>2, <1>3 DEF Safe, ledger, RemoteInv, InflightInv

LEMMA CommitKeeps ==
  ASSUME NEW lc, Commit(lc),
         lc \in {"paused", "resuming"} => \A r \in Runs : state'[r] \notin Owned
  PROVE  PauseInv'
BY DEF Commit, PauseInv

LEMMA SafeOperator == IInv /\ OperatorSteps => Safe'
<1> SUFFICES ASSUME IInv, OperatorSteps PROVE Safe'
  OBVIOUS
<1>1. UNCHANGED <<ledger, remote, inflight>>
  BY DEF OperatorSteps, RequestPause, BeginResume, FinishResume, SetMemberState, UpdateFleet
<1>2. LeaseInv' /\ ShardInv' /\ RecordInv' /\ RemoteInv' /\ InflightInv'
  BY <1>1, LedgerKeeps DEF IInv
<1>3. state' = state
  BY <1>1 DEF ledger
<1>4. PauseInv'
  <2>1. CASE RequestPause
    BY <2>1, CommitKeeps DEF RequestPause
  <2>2. CASE BeginResume
    BY <2>2, <1>3 DEF BeginResume, PauseInv, IInv, Safe
  <2>3. CASE FinishResume
    BY <2>3 DEF FinishResume, PauseInv
  <2>4. CASE Commit(lifecycle)
    BY <2>4, <1>3, CommitKeeps DEF PauseInv, IInv, Safe
  <2> QED
    BY <2>1, <2>2, <2>3, <2>4 DEF OperatorSteps, SetMemberState, UpdateFleet
<1> QED
  BY <1>2, <1>4 DEF Safe

\* What every planner step does: it never touches a leased Run or accepted evidence.
LEMMA PlannerKeeps ==
  ASSUME IInv, NEW R \in SUBSET Runs, NEW s \in {"planned", "cancelled"}, SetState(R, s),
         Commit(lifecycle),
         UNCHANGED <<last, accepted, attempt, place, shard, remote, inflight>>,
         \A r \in R : \/ state[r] \in {"absent", "planned", "lost"}
                      \/ accepted[r] = None /\ last[r] = 0
  PROVE  Safe'
<1> TypeOK /\ LeaseInv /\ ShardInv /\ RecordInv /\ RemoteInv /\ InflightInv /\ PauseInv
  BY DEF IInv, Safe
<1>1. ASSUME NEW r \in R
      PROVE  /\ accepted[r] = None
             /\ last[r] > 0 => attempt[Latest(r)] \in {"lost", "withdrawn_before_submit"}
  BY OwnersOfRecord DEF RecordInv, RecordOK
<1>2. LeaseInv' /\ RecordInv'
  BY <1>1, PlanKeeps
<1>3. ShardInv' /\ RemoteInv' /\ InflightInv'
  BY DEF ShardInv, RemoteInv, InflightInv, KnownShards
<1>4. \A r \in Runs : state[r] \notin Owned => state'[r] \notin Owned
  BY DEF SetState, Owned, Active
<1>5. PauseInv'
  BY <1>4, CommitKeeps DEF PauseInv
<1> QED
  BY <1>2, <1>3, <1>5 DEF Safe

LEMMA SafePlanner == IInv /\ PlannerSteps => Safe'
<1> SUFFICES ASSUME IInv, PlannerSteps PROVE Safe'
  OBVIOUS
<1>1. ASSUME NEW r \in Runs, NEW p \in Priorities, Enqueue(r, p) PROVE Safe'
  <2>1. Commit(lifecycle)
    BY <1>1 DEF Enqueue, Commit
  <2> QED
    BY <1>1, <2>1, PlannerKeeps DEF Enqueue
<1>2. ASSUME NEW r \in Runs, NEW p \in Priorities, ReplanUnstarted(r, p) PROVE Safe'
  <2>1. Commit(lifecycle)
    BY <1>2 DEF ReplanUnstarted, Commit
  <2> QED
    BY <1>2, <2>1, PlannerKeeps DEF ReplanUnstarted
<1>3. ASSUME NEW r \in Runs, CancelPlanned(r) PROVE Safe'
  BY <1>3, PlannerKeeps DEF CancelPlanned
<1>4. ASSUME NEW r \in Runs, RetryLost(r) PROVE Safe'
  BY <1>4, PlannerKeeps DEF RetryLost, Retryable
<1>5. ASSUME NEW R \in SUBSET Runs, WithdrawPlanned(R) PROVE Safe'
  BY <1>5, PlannerKeeps DEF WithdrawPlanned
<1> QED
  BY <1>1, <1>2, <1>3, <1>4, <1>5 DEF PlannerSteps

LEMMA SafeExternal == IInv /\ ExternalSteps => Safe'
<1> SUFFICES ASSUME IInv, ExternalSteps PROVE Safe'
  OBVIOUS
<1> Safe /\ LeaseInv /\ ShardInv /\ RecordInv /\ RemoteInv /\ InflightInv /\ PauseInv
  BY DEF IInv, Safe
<1>1. UNCHANGED <<ledger, lifecycle, inflight>>
  BY DEF ExternalSteps, ExecutorDecides, WorkerEnds, BackoffElapses, BudgetExpires
<1>2. LeaseInv' /\ ShardInv' /\ RecordInv' /\ PauseInv'
  BY <1>1, LedgerKeeps DEF PauseInv, ledger
<1>3. KnownShards' = KnownShards /\ attempt' = attempt
  BY <1>1, LedgerKeeps DEF ledger
<1>4. RemoteInv' /\ InflightInv'
  <2>1. ASSUME NEW s \in KnownShards, NEW a \in {"accepted", "refused"}, ExecutorDecides(s, a)
        PROVE  RemoteInv' /\ InflightInv'
    <3>1. \A l \in Lease : remote'[l] = IF l \in s THEN a ELSE remote[l]
      BY <2>1 DEF ExecutorDecides, SetRemote
    <3>2. \A l \in s : remote[l] = "sent"
      BY <2>1 DEF ExecutorDecides
    <3>3. RemoteInv'
      BY <3>1, <3>2, <1>3, ConstantsAssumption DEF RemoteInv, Agrees
    <3>4. InflightInv'
      BY <3>1, <3>2, <1>1, <1>3, ShardOfLeases DEF InflightInv, IInv
    <3> QED
      BY <3>3, <3>4
  <2>2. ASSUME NEW k \in Lease, NEW a \in {"finished", "dead"}, WorkerEnds(k, a)
        PROVE  RemoteInv' /\ InflightInv'
    <3>1. \A l \in Lease : remote'[l] = IF l = k THEN a ELSE remote[l]
      BY <2>2 DEF WorkerEnds, SetRemote
    <3>2. remote[k] = "accepted"
      BY <2>2 DEF WorkerEnds
    <3>3. RemoteInv'
      BY <3>1, <3>2, <1>3, ConstantsAssumption DEF RemoteInv, Agrees
    <3>4. InflightInv'
      BY <3>1, <3>2, <1>1, <1>3, ShardOfLeases DEF InflightInv, IInv
    <3> QED
      BY <3>3, <3>4
  <2>3. CASE UNCHANGED remote
    BY <2>3, <1>1, LedgerKeeps
  <2> QED
    BY <2>1, <2>2, <2>3 DEF ExternalSteps, BackoffElapses, BudgetExpires
<1> QED
  BY <1>2, <1>4 DEF Safe

\* The same for what happened beyond the provider boundary.
LEMMA MoveAgrees ==
  ASSUME TypeOK, LeaseInv, RemoteInv, InflightInv, NEW R \in SUBSET Runs, NEW a,
         SetAttempt({Latest(r) : r \in R}, a),
         UNCHANGED <<shard, remote>>, inflight' \subseteq inflight,
         \A r \in R :
           /\ last[r] > 0 /\ Agrees(a, remote[Latest(r)])
           /\ a \notin Owned /\ remote[Latest(r)] \in {"sent", "refused"} =>
                \A s \in inflight' : Latest(r) \notin s
  PROVE  RemoteInv' /\ InflightInv'
<1>1. \A l \in Lease :
        attempt'[l] = IF l[1] \in R /\ l[2] = last[l[1]] THEN a ELSE attempt[l]
  BY MoveAttempts
<1>2. \A l \in Lease : l[2] = last[l[1]] => l = Latest(l[1])
  BY LeaseParts DEF Latest
<1>3. RemoteInv'
  BY <1>1, <1>2 DEF RemoteInv, Agrees
<1>4. KnownShards' = KnownShards
  BY DEF KnownShards
<1>5. InflightInv'
  BY <1>1, <1>2, <1>4, ShardOfLeases DEF InflightInv
<1> QED
  BY <1>3, <1>5

LEMMA UnavailableKeeps ==
  ASSUME IInv, NEW c, MarkUnavailable(c), inflight' \subseteq inflight
  PROVE  Safe'
<1> TypeOK /\ LeaseInv /\ ShardInv /\ RecordInv /\ RemoteInv /\ InflightInv /\ PauseInv
  BY DEF IInv, Safe
<1> DEFINE R == {r \in Runs : state[r] \in Owned /\ place[Latest(r)] = c}
<1>1. /\ SetState(R, "unknown_remote") /\ SetAttempt({Latest(r) : r \in R}, "unknown_remote")
      /\ Commit(lifecycle) /\ UNCHANGED <<last, accepted, place, shard, remote>>
  BY DEF MarkUnavailable
<1>2. ASSUME NEW r \in R
      PROVE  /\ last[r] > 0 /\ accepted[r] = None /\ attempt[Latest(r)] \in Owned
             /\ remote[Latest(r)] # "absent"
  <2>1. last[r] > 0 /\ accepted[r] = None /\ attempt[Latest(r)] = state[r]
    BY OwnersOfRecord DEF RecordInv, RecordOK, Owned
  <2> QED
    BY <2>1, LatestLease DEF RemoteInv, Agrees
<1>3. LeaseInv' /\ ShardInv' /\ RecordInv'
  BY <1>1, <1>2, MoveKeeps DEF Active
<1>4. "unknown_remote" \in Owned /\ "unknown_remote" \notin Outcomes
  BY ConstantsAssumption DEF Owned, Active
<1>5. RemoteInv' /\ InflightInv'
  BY <1>1, <1>2, <1>4, MoveAgrees DEF Agrees
<1>6. lifecycle \in {"paused", "resuming"} => \A r \in Runs : state'[r] \notin Owned
  BY <1>1 DEF SetState, PauseInv
<1>7. PauseInv'
  BY <1>1, <1>6, CommitKeeps
<1> QED
  BY <1>3, <1>5, <1>7 DEF Safe

LEMMA SafeDispatch == IInv /\ CarefulDispatch => Safe'
<1> SUFFICES ASSUME IInv, CarefulDispatch PROVE Safe'
  OBVIOUS
<1> TypeOK /\ Safe /\ LeaseInv /\ ShardInv /\ RecordInv /\ RemoteInv /\ InflightInv /\ PauseInv
  BY DEF IInv, Safe
<1>1. CASE PlanShards
  <2>1. PICK chosen \in SUBSET {r \in Runs : state[r] = "planned" /\ last[r] < MaxAttempts} :
          \E choice \in [chosen -> Clusters] : Lend(choice)
    BY <1>1 DEF PlanShards
  <2>2. PICK choice \in [chosen -> Clusters] : Lend(choice)
    BY <2>1
  <2>3. UNCHANGED <<lifecycle, accepted, inflight, remote>> /\ lifecycle = "running"
    BY <1>1 DEF PlanShards
  <2>4. LeaseInv' /\ ShardInv' /\ RecordInv' /\ RemoteInv'
    BY <2>2, <2>3, LendKeeps
  <2>5. PauseInv'
    BY <2>3 DEF PauseInv
  <2>6. InflightInv'
    <3> SUFFICES ASSUME NEW s \in inflight
                 PROVE  /\ s \in KnownShards'
                        /\ \A l \in s : /\ remote[l] # "absent"
                                        /\ remote[l] \in {"sent", "refused"} => attempt'[l] \in Owned
      BY <2>3 DEF InflightInv
    <3>1. /\ s \in KnownShards /\ s \in SUBSET Lease /\ s # {}
          /\ \A l \in s : /\ attempt[l] # "none" /\ shard[l] = s /\ remote[l] # "absent"
                          /\ remote[l] \in {"sent", "refused"} => attempt[l] \in Owned
      BY ShardIsPlaced DEF InflightInv
    <3>2. \A l \in s : attempt'[l] = attempt[l] /\ shard'[l] = shard[l]
      <4> SUFFICES ASSUME NEW l \in s PROVE attempt'[l] = attempt[l] /\ shard'[l] = shard[l]
        OBVIOUS
      <4>1. \A r \in chosen : Fresh(r) \in Lease /\ Fresh(r)[1] = r /\ Fresh(r)[2] = last[r] + 1
        BY FreshLease
      <4>2. \A r \in chosen : attempt[Fresh(r)] = "none"
        BY <4>1, ConstantsAssumption DEF LeaseInv, TypeOK
      <4>3. l \in Lease /\ l \notin {Fresh(r) : r \in chosen}
        BY <3>1, <4>2
      <4> QED
        BY <2>2, <4>3 DEF Lend, SetAttempt
    <3>3. s \in KnownShards'
      BY <3>1, <3>2 DEF KnownShards
    <3> QED
      BY <3>1, <3>2, <3>3
  <2> QED
    BY <2>4, <2>5, <2>6 DEF Safe
<1>2. ASSUME NEW s \in KnownShards, Current(s), SubmitFence(s) PROVE Safe'
  <2>1. /\ RunsOf(s) \in SUBSET Runs /\ s = {Latest(r) : r \in RunsOf(s)}
    BY <1>2, ShardIsPlaced, LeaseParts DEF Current, Latests, RunsOf
  <2>2. /\ SetState(RunsOf(s), "unknown_remote")
        /\ SetAttempt({Latest(r) : r \in RunsOf(s)}, "unknown_remote")
        /\ UNCHANGED <<lifecycle, last, accepted, place, shard>>
        /\ inflight' = inflight \union {s} /\ lifecycle = "running"
        /\ \A r \in RunsOf(s) : state[r] = "leased"
        /\ \A l \in Lease : remote'[l] = IF l \in s /\ remote[l] = "absent" THEN "sent" ELSE remote[l]
    BY <1>2 DEF SubmitFence, Submittable, Unsubmitted, Latests
  <2>3. \A r \in RunsOf(s) :
          last[r] > 0 /\ accepted[r] = None /\ attempt[Latest(r)] = "leased"
    BY <2>1, <2>2, OwnersOfRecord DEF RecordInv, RecordOK, Active
  <2>4. LeaseInv' /\ ShardInv' /\ RecordInv'
    BY <2>1, <2>2, <2>3, MoveKeeps DEF Active
  <2>5. \A l \in Lease : attempt'[l] = IF l \in s THEN "unknown_remote" ELSE attempt[l]
    BY <2>1, <2>2 DEF SetAttempt
  <2>6. s \in SUBSET Lease /\ \A l \in s : attempt[l] = "leased" /\ remote[l] = "absent"
    BY <2>1, <2>3, ShardIsPlaced DEF RemoteInv, Agrees
  <2>7. RemoteInv'
    BY <2>2, <2>5, <2>6, ConstantsAssumption DEF RemoteInv, Agrees, Owned, Active
  <2>8. KnownShards' = KnownShards
    BY <2>2 DEF KnownShards
  <2>9. InflightInv'
    <3>1. \A t \in inflight : \A l \in t : l \in Lease /\ l \notin s
      BY <2>6, ShardIsPlaced DEF InflightInv
    <3> QED
      BY <2>2, <2>5, <2>6, <2>8, <3>1 DEF InflightInv, Owned, Active
  <2>10. PauseInv'
    BY <2>2 DEF PauseInv
  <2> QED
    BY <2>4, <2>7, <2>9, <2>10 DEF Safe
<1>3. ASSUME NEW s \in KnownShards, Current(s), SubmitWithdraw(s) PROVE Safe'
  <2>1. /\ RunsOf(s) \in SUBSET Runs /\ s = {Latest(r) : r \in RunsOf(s)}
    BY <1>3, ShardIsPlaced, LeaseParts DEF Current, Latests, RunsOf
  <2>2. /\ SetState(RunsOf(s), "planned")
        /\ SetAttempt({Latest(r) : r \in RunsOf(s)}, "withdrawn_before_submit")
        /\ UNCHANGED <<lifecycle, last, accepted, place, shard, inflight, remote>>
        /\ lifecycle = "running" /\ \A r \in RunsOf(s) : state[r] = "leased"
    BY <1>3 DEF SubmitWithdraw, Submittable, Unsubmitted, Latests
  <2>3. \A r \in RunsOf(s) :
          last[r] > 0 /\ accepted[r] = None /\ remote[Latest(r)] = "absent"
    BY <2>1, <2>2, OwnersOfRecord, LatestLease DEF RecordInv, RecordOK, RemoteInv, Agrees, Active
  <2>4. LeaseInv' /\ ShardInv' /\ RecordInv'
    BY <2>1, <2>2, <2>3, MoveKeeps
  <2>5. Agrees("withdrawn_before_submit", "absent")
    BY ConstantsAssumption DEF Agrees, Owned, Active
  <2>6. RemoteInv' /\ InflightInv'
    BY <2>1, <2>2, <2>3, <2>5, MoveAgrees
  <2>7. PauseInv'
    BY <2>2 DEF PauseInv
  <2> QED
    BY <2>4, <2>6, <2>7 DEF Safe
<1>4. ASSUME NEW s \in inflight, SubmitAcknowledged(s) PROVE Safe'
  <2> DEFINE Q == Queued(s)  R == RunsOf(Q)
  <2>1. s \in SUBSET Lease
    BY ShardIsPlaced DEF InflightInv
  <2>2. /\ R \in SUBSET Runs /\ Q = {Latest(r) : r \in R}
        /\ \A r \in R : Latest(r) \in s /\ Latest(r) \in Lease /\ attempt[Latest(r)] = "unknown_remote"
    BY <2>1, LeaseParts DEF Queued, RunsOf
  <2>3. /\ SetState(R, "queued") /\ SetAttempt({Latest(r) : r \in R}, "queued")
        /\ Commit(lifecycle) /\ UNCHANGED <<last, accepted, place, shard, remote>>
        /\ inflight' \subseteq inflight
    BY <1>4, <2>2 DEF SubmitAcknowledged
  <2>4. ASSUME NEW r \in R
        PROVE  /\ last[r] > 0 /\ state[r] = "unknown_remote" /\ accepted[r] = None
               /\ remote[Latest(r)] # "absent"
    <3>1. r \in Runs /\ Latest(r) \in Lease /\ attempt[Latest(r)] = "unknown_remote"
      BY <2>2
    <3>2. last[r] > 0
      BY <3>1, LeaseParts, ConstantsAssumption DEF Latest
    <3> QED
      BY <3>1, <3>2, OwnersOfRecord DEF Active, Owned, RemoteInv, Agrees
  <2>5. LeaseInv' /\ ShardInv' /\ RecordInv'
    BY <2>2, <2>3, <2>4, MoveKeeps DEF Active
  <2>6. "queued" \in Owned /\ "queued" \notin Outcomes
    BY ConstantsAssumption DEF Owned, Active
  <2>7. RemoteInv' /\ InflightInv'
    BY <2>2, <2>3, <2>4, <2>6, MoveAgrees DEF Agrees
  <2>8. lifecycle \in {"paused", "resuming"} => \A r \in Runs : state'[r] \notin Owned
    BY <2>2, <2>3, <2>4 DEF SetState, PauseInv, Owned, Active
  <2>9. PauseInv'
    BY <2>3, <2>8, CommitKeeps
  <2> QED
    BY <2>5, <2>7, <2>9 DEF Safe
<1>5. ASSUME NEW s \in inflight, SubmitRejected(s) PROVE Safe'
  <2> DEFINE R == RunsOf(s)
  <2>1. /\ s \in KnownShards /\ s \in SUBSET Lease
        /\ \A l \in s : shard[l] = s /\ attempt[l] \in Owned /\ remote[l] = "refused"
    BY <1>5, ShardIsPlaced DEF InflightInv, SubmitRejected
  <2>2. R \in SUBSET Runs
    BY <2>1, LeaseParts DEF RunsOf
  <2>3. \A l \in s : l = Latest(l[1])
    BY <2>1, UsedIsLatest DEF Owned, Active
  <2>4. /\ SetState(R, "failed") /\ SetAttempt({Latest(r) : r \in R}, "rejected")
        /\ Commit(lifecycle) /\ UNCHANGED <<last, accepted, place, shard, remote>>
        /\ inflight' = inflight \ {s}
    BY <1>5 DEF SubmitRejected, Latests
  <2>5. ASSUME NEW r \in R
        PROVE  /\ last[r] > 0 /\ accepted[r] = None /\ remote[Latest(r)] = "refused"
               /\ \A t \in inflight' : Latest(r) \notin t
    <3>1. PICK l \in s : r = l[1] /\ l = Latest(r) /\ l \in Lease
      BY <2>1, <2>3 DEF RunsOf
    <3>2. last[r] > 0
      BY <3>1, LeaseParts, ConstantsAssumption DEF Latest
    <3>3. state[r] \in Owned /\ accepted[r] = None
      BY <2>1, <2>2, <3>1, <3>2, OwnersOfRecord DEF Owned
    <3>4. \A t \in inflight' : l \notin t
      BY <2>1, <2>4, <3>1, ShardIsPlaced DEF InflightInv
    <3> QED
      BY <2>1, <3>1, <3>2, <3>3, <3>4
  <2>6. LeaseInv' /\ ShardInv' /\ RecordInv'
    BY <2>2, <2>4, <2>5, MoveKeeps
  <2>7. Agrees("rejected", "refused")
    BY ConstantsAssumption DEF Agrees, Owned, Active
  <2>8. RemoteInv' /\ InflightInv'
    BY <2>2, <2>4, <2>5, <2>7, MoveAgrees
  <2>9. lifecycle \in {"paused", "resuming"} => \A r \in Runs : state'[r] \notin Owned
    BY <2>4 DEF SetState, PauseInv, Owned, Active
  <2>10. PauseInv'
    BY <2>4, <2>9, CommitKeeps
  <2> QED
    BY <2>6, <2>8, <2>10 DEF Safe
<1>6. ASSUME NEW s \in inflight, SubmitAmbiguous(s) PROVE Safe'
  BY <1>6, UnavailableKeeps DEF SubmitAmbiguous
<1>7. CASE DriverCrash
  <2>1. UNCHANGED <<ledger, remote, lifecycle>> /\ inflight' = {}
    BY <1>7 DEF DriverCrash
  <2>2. LeaseInv' /\ ShardInv' /\ RecordInv' /\ RemoteInv'
    BY <2>1, LedgerKeeps
  <2>3. InflightInv' /\ PauseInv'
    BY <2>1 DEF InflightInv, PauseInv, ledger
  <2> QED
    BY <2>2, <2>3 DEF Safe
<1> QED
  BY <1>1, <1>2, <1>3, <1>4, <1>5, <1>6, <1>7 DEF CarefulDispatch

LEMMA SafeReconcile == IInv /\ ReconcileSteps => Safe'
<1> SUFFICES ASSUME IInv, ReconcileSteps PROVE Safe'
  OBVIOUS
<1> TypeOK /\ Safe /\ LeaseInv /\ ShardInv /\ RecordInv /\ RemoteInv /\ InflightInv /\ PauseInv
  BY DEF IInv, Safe
<1>1. ASSUME NEW l \in Lease, NEW s \in Reported(l), Observe(l, s) PROVE Safe'
  <2> DEFINE r == l[1]
  <2>1. /\ r \in Runs /\ l = Latest(r) /\ last[r] > 0
        /\ {r} \in SUBSET Runs /\ {l} = {Latest(q) : q \in {r}}
    BY <1>1, LeaseParts, ConstantsAssumption DEF Observe, Latest
  <2>2. /\ SetState({r}, s) /\ SetAttempt({Latest(q) : q \in {r}}, s)
        /\ Commit(lifecycle) /\ UNCHANGED <<last, accepted, place, shard, inflight, remote>>
        /\ state[r] \notin Terminal /\ attempt[l] # "lost"
        /\ remote[l] # "absent" \/ state[r] \in Owned
    BY <1>1, <2>1 DEF Observe, Selected
  <2>3. attempt[l] \in AttemptState /\ state[r] \in RunState /\ Agrees(attempt[l], remote[l])
    BY <2>1 DEF TypeOK, RemoteInv
  <2>4. state[r] \in Owned /\ accepted[r] = None
    <3>1. state[r] \in Active => attempt[l] = state[r]
      BY <2>1 DEF RecordInv, RecordOK
    <3>2. state[r] # "leased"
      BY <2>2, <2>3, <3>1 DEF Agrees, Owned, Active
    <3>3. state[r] \notin {"absent", "planned", "lost"}
      BY <2>1, <2>2, <2>3 DEF RecordInv, RecordOK, Agrees, Owned, Active
    <3>4. state[r] \in Owned
      BY <2>2, <2>3, <3>2, <3>3 DEF RunState, Owned
    <3> QED
      BY <2>1, <3>4, OwnersOfRecord DEF Owned
  <2>5. remote[l] # "absent"
    BY <2>1, <2>3, <2>4 DEF RecordInv, RecordOK, Agrees, Owned
  <2>6. \/ s \in Owned
        \/ s = "lost" /\ remote[l] \in {"refused", "dead"}
           /\ (remote[l] = "refused" => \A t \in inflight : l \notin t)
    BY <1>1, <2>5 DEF Reported, Lost, Owned, Active
  <2>7. LeaseInv' /\ ShardInv' /\ RecordInv'
    <3>1. s \in Active \union {"lost"}
      BY <2>6 DEF Owned
    <3> QED
      BY <2>1, <2>2, <2>4, <3>1, MoveKeeps
  <2>8. Agrees(s, remote[l])
    BY <2>5, <2>6, ConstantsAssumption DEF Agrees, Owned, Active
  <2>9. RemoteInv' /\ InflightInv'
    BY <2>1, <2>2, <2>6, <2>8, MoveAgrees
  <2>10. lifecycle \notin {"paused", "resuming"}
    BY <2>1, <2>4 DEF PauseInv
  <2>11. PauseInv'
    BY <2>2, <2>10, CommitKeeps
  <2> QED
    BY <2>7, <2>9, <2>11 DEF Safe
<1>2. ASSUME NEW l \in Lease, NEW o \in Outcomes, IngestAccept(l, o) PROVE Safe'
  <2> DEFINE r == l[1]
  <2>1. /\ r \in Runs /\ l = Latest(r) /\ last[r] > 0
        /\ {r} \in SUBSET Runs /\ {l} = {Latest(q) : q \in {r}}
    BY <1>2, LeaseParts, ConstantsAssumption DEF IngestAccept, Contradicts, Latest
  <2>2. /\ SetState({r}, o) /\ SetAttempt({Latest(q) : q \in {r}}, o)
        /\ Commit(lifecycle) /\ UNCHANGED <<last, place, shard, inflight, remote>>
        /\ accepted' = [accepted EXCEPT ![r] = [attempt |-> l[2], outcome |-> o]]
        /\ remote[l] \in {"finished", "dead"}
        /\ accepted[r] = None /\ state[r] \in Active
    BY <1>2, <2>1 DEF IngestAccept, Contradicts, Delivered
  <2>3. o \notin Active \union {"none", "lost", "withdrawn_before_submit", "rejected", "absent", "planned"}
    BY ConstantsAssumption DEF Active
  <2>4. \A k \in Lease : attempt'[k] = IF k = l THEN o ELSE attempt[k]
    BY <2>1, <2>2 DEF SetAttempt
  <2>5. attempt[l] # "none" /\ l[2] = last[r]
    BY <2>1, LatestLease
  <2>6. LeaseInv' /\ ShardInv'
    BY <2>2, <2>3, <2>4, <2>5, LeaseParts DEF LeaseInv, ShardInv, TypeOK
  <2>7. RecordInv'
    <3>1. \A q \in Runs : /\ (Latest(q))' = Latest(q)
                          /\ state'[q] = IF q = r THEN o ELSE state[q]
                          /\ accepted'[q] = IF q = r THEN [attempt |-> l[2], outcome |-> o]
                                                     ELSE accepted[q]
      BY <2>2 DEF Latest, SetState, TypeOK
    <3>2. \A q \in Runs \ {r} : last[q] > 0 => attempt'[Latest(q)] = attempt[Latest(q)]
      BY <2>1, <2>4, LatestLease
    <3>4. attempt'[Latest(r)] = o
      BY <2>1, <2>4
    <3>5. ASSUME NEW q \in Runs, q # r
          PROVE  RecordOK(q)'
      BY <2>2, <3>1, <3>2, <3>5 DEF RecordInv, RecordOK
    <3>6. RecordOK(r)'
      <4>1. [attempt |-> l[2], outcome |-> o] # None
        BY LeaseParts, ConstantsAssumption
      <4> QED
        BY <2>1, <2>2, <2>3, <2>5, <3>1, <3>4, <4>1 DEF RecordOK
    <3> QED
      BY <3>5, <3>6 DEF RecordInv, RecordOK
  <2>8. RemoteInv'
    BY <2>2, <2>3, <2>4 DEF RemoteInv, Agrees, Owned, Active
  <2>9. KnownShards' = KnownShards
    BY <2>2 DEF KnownShards
  <2>10. InflightInv'
    BY <2>2, <2>4, <2>9, ShardOfLeases DEF InflightInv
  <2>11. lifecycle \in {"paused", "resuming"} => \A q \in Runs : state'[q] \notin Owned
    BY <2>2, <2>3 DEF SetState, PauseInv, Owned
  <2>12. PauseInv'
    BY <2>2, <2>11, CommitKeeps
  <2> QED
    BY <2>6, <2>7, <2>8, <2>10, <2>12 DEF Safe
<1>3. ASSUME UNCHANGED <<ledger, remote, inflight>>, Commit(lifecycle) PROVE Safe'
  <2>1. LeaseInv' /\ ShardInv' /\ RecordInv' /\ RemoteInv' /\ InflightInv'
    BY <1>3, LedgerKeeps
  <2>2. PauseInv'
    BY <1>3, CommitKeeps DEF PauseInv, ledger
  <2> QED
    BY <2>1, <2>2 DEF Safe
<1>4. ASSUME NEW c \in Clusters, MarkUnreachable(c) PROVE Safe'
  BY <1>4, UnavailableKeeps DEF MarkUnreachable
<1> QED
  BY <1>1, <1>2, <1>3, <1>4 DEF ReconcileSteps, IngestQuarantine, ReconcileSucceeded

LEMMA SafeInit == Init => Safe
<1> SUFFICES ASSUME Init PROVE Safe
  OBVIOUS
<1>1. LeaseInv
  BY LeaseParts, ConstantsAssumption DEF Init, LeaseInv
<1>2. ShardInv /\ InflightInv /\ PauseInv
  BY DEF Init, ShardInv, InflightInv, PauseInv
<1>3. RecordInv
  BY DEF Init, RecordInv, RecordOK, Active, Terminal
<1>4. RemoteInv
  BY ConstantsAssumption DEF Init, RemoteInv, Agrees, Owned, Active
<1> QED
  BY <1>1, <1>2, <1>3, <1>4 DEF Safe

LEMMA SafeStep == IInv /\ [CarefulNext]_vars => Safe'
<1>1. IInv /\ UNCHANGED vars => Safe'
  BY LedgerKeeps DEF vars, IInv, Safe, PauseInv, ledger
<1> QED
  BY <1>1, SafeOperator, SafePlanner, SafeDispatch, SafeReconcile, SafeExternal DEF CarefulNext

(* An acknowledgement gives a Job to all leases of a shard.                *)
LEMMA JobTogether == JobInv /\ JobIsResident /\ IInv /\ [CarefulNext]_vars => JobInv'
<1> SUFFICES ASSUME JobInv, JobIsResident, IInv, [CarefulNext]_vars PROVE JobInv'
  OBVIOUS
<1> TypeOK /\ ShardInv /\ RemoteInv /\ LeaseInv /\ InflightInv
  BY DEF IInv, Safe
<1>1. CASE UNCHANGED <<job, shard>>
  BY <1>1 DEF JobInv
<1>2. ASSUME NEW s \in inflight, SubmitAcknowledged(s) PROVE JobInv'
  <2>1. job' = job \union s /\ shard' = shard
    BY <1>2 DEF SubmitAcknowledged, Acknowledge
  <2>2. s \in KnownShards
    BY DEF InflightInv
  <2>3. \A l \in s : l \in Lease /\ shard[l] = s
    <3>1. PICK m \in Lease : s = shard[m] /\ s # {}
      BY <2>2 DEF KnownShards
    <3>2. attempt[m] # "none"
      BY <3>1 DEF ShardInv
    <3> QED
      BY <3>1, <3>2 DEF ShardInv, TypeOK
  <2> QED
    BY <2>1, <2>3 DEF JobInv
<1>3. CASE PlanShards
  <2>1. PICK chosen \in SUBSET {r \in Runs : last[r] < MaxAttempts} :
          \E choice \in [chosen -> Clusters] : Lend(choice)
    BY <1>3 DEF PlanShards
  <2>2. PICK choice \in [chosen -> Clusters] : Lend(choice)
    BY <2>1
  <2>3. job' = job
    BY <1>3 DEF PlanShards
  <2>4. ASSUME NEW l \in job PROVE shard'[l] = shard[l]
    <3>1. l \in Lease /\ remote[l] # "absent"
      BY DEF JobIsResident, Resident
    <3>2. attempt[l] # "none"
      BY <3>1 DEF RemoteInv, Agrees
    <3>3. l[2] <= last[l[1]]
      BY <3>1, <3>2, LeaseParts DEF LeaseInv, TypeOK
    <3>4. DOMAIN choice = chosen
      OBVIOUS
    <3>5. \A r \in chosen : l # Fresh(r)
      BY <3>1, <3>3, FreshLease DEF TypeOK
    <3> QED
      BY <2>2, <3>1, <3>4, <3>5 DEF Lend
  <2> QED
    BY <2>3, <2>4 DEF JobInv
<1> QED
  BY <1>1, <1>2, <1>3
  DEF CarefulNext, OperatorSteps, PlannerSteps, CarefulDispatch, ReconcileSteps, ExternalSteps,
      RequestPause, BeginResume, FinishResume, SetMemberState, UpdateFleet,
      Enqueue, ReplanUnstarted, CancelPlanned, RetryLost, WithdrawPlanned,
      SubmitFence, SubmitWithdraw, SubmitRejected, SubmitAmbiguous, MarkUnavailable,
      DriverCrash, Observe, IngestAccept, IngestQuarantine, MarkUnreachable,
      ReconcileSucceeded, ExecutorDecides, WorkerEnds, BackoffElapses, BudgetExpires, vars, ledger

(***************************************************************************)
(* What passes the fence are the latest leases of its Runs.                *)
(***************************************************************************)
LEMMA UnsubmittedIsCurrent ==
  ASSUME IInv, JobInv, ReplacedHadJobs, NEW s \in KnownShards, Unsubmitted(s)
  PROVE  Current(s)
<1> TypeOK /\ ShardInv /\ LeaseInv
  BY DEF IInv, Safe
<1>1. ~ s \subseteq job
  BY DEF Unsubmitted
<1>2. PICK m \in Lease : s = shard[m] /\ s # {}
  BY DEF KnownShards
<1>3. attempt[m] # "none"
  BY <1>2 DEF ShardInv
<1>4. \A l \in s : l \in Lease /\ shard[l] = s /\ attempt[l] # "none"
  BY <1>2, <1>3 DEF ShardInv, TypeOK
<1>5. \A l \in s : l \notin job
  BY <1>1, <1>4 DEF JobInv
<1>6. ASSUME NEW l \in s PROVE l = Latest(l[1])
  <2>1. l \in Lease /\ l[1] \in Runs /\ l[2] \in Nat /\ l = <<l[1], l[2]>> /\ last[l[1]] \in Nat
    BY <1>4, LeaseParts, ConstantsAssumption DEF TypeOK
  <2>2. ~ (l[2] > last[l[1]])
    BY <1>4, <2>1 DEF LeaseInv
  <2>3. ~ (l[2] < last[l[1]])
    BY <1>4, <1>5 DEF ReplacedHadJobs
  <2>4. l[2] = last[l[1]]
    BY <2>1, <2>2, <2>3
  <2> QED
    BY <2>1, <2>4 DEF Latest
<1>7. s = Latests(s)
  BY <1>6 DEF Latests, RunsOf
<1> QED
  BY <1>7 DEF Current

LEMMA CarefulMoves == Careful /\ [Next]_vars => [CarefulNext]_vars
<1> SUFFICES ASSUME Careful, Next PROVE CarefulNext
  OBVIOUS
<1>1. ASSUME NEW s \in KnownShards, SubmitFence(s) \/ SubmitWithdraw(s)
      PROVE  CarefulNext
  <2>1. Unsubmitted(s)
    BY <1>1 DEF SubmitFence, SubmitWithdraw, Submittable
  <2>2. Current(s)
    BY <2>1, UnsubmittedIsCurrent DEF Careful
  <2> QED
    BY <1>1, <2>2 DEF CarefulNext, CarefulDispatch
<1> QED
  BY <1>1 DEF Next, DispatchSteps, CarefulNext, CarefulDispatch

(* The history of what was overtaken does not forget.                      *)
LEMMA Remembered == [Next]_vars /\ overtaken => overtaken'
<1> SUFFICES ASSUME [Next]_vars, overtaken PROVE overtaken'
  OBVIOUS
<1>1. CASE PlanShards
  BY <1>1, Zenon DEF PlanShards, Lend
<1>2. CASE overtaken' = overtaken
  BY <1>2
<1> QED
  BY <1>1, <1>2
  DEF Next, OperatorSteps, PlannerSteps, DispatchSteps, ReconcileSteps, ExternalSteps,
      RequestPause, BeginResume, FinishResume, SetMemberState, UpdateFleet,
      Enqueue, ReplanUnstarted, CancelPlanned, RetryLost, WithdrawPlanned,
      SubmitFence, SubmitWithdraw, SubmitAcknowledged, SubmitRejected, SubmitAmbiguous,
      MarkUnavailable, DriverCrash, Observe, IngestAccept, IngestQuarantine, MarkUnreachable,
      ReconcileSucceeded, ExecutorDecides, WorkerEnds, BackoffElapses, BudgetExpires, vars

(* As long as it remembers nothing, whatever is replaced had its Job.      *)
LEMMA ReplacedStep ==
  TypeOK /\ ReplacedHadJobs /\ [Next]_vars /\ ~overtaken' => ReplacedHadJobs'
<1> SUFFICES ASSUME TypeOK, ReplacedHadJobs, [Next]_vars, ~overtaken' PROVE ReplacedHadJobs'
  OBVIOUS
<1>1. CASE PlanShards
  <2>1. PICK chosen \in SUBSET {r \in Runs : last[r] < MaxAttempts} :
          \E choice \in [chosen -> Clusters] : Lend(choice)
    BY <1>1 DEF PlanShards
  <2>2. PICK choice \in [chosen -> Clusters] : Lend(choice)
    BY <2>1
  <2>3. DOMAIN choice = chosen /\ job' = job
    BY <1>1 DEF PlanShards
  <2>4. ~ \E r \in chosen : Overtakes(r)
    BY <2>2, <2>3, Zenon DEF Lend
  <2>5. \A r \in Runs : last'[r] = IF r \in chosen THEN last[r] + 1 ELSE last[r]
    BY <2>2, <2>3 DEF Lend
  <2> SUFFICES ASSUME NEW l \in Lease, l[2] < last'[l[1]] PROVE l \in job
    BY <2>3 DEF ReplacedHadJobs
  <2>6. /\ l[1] \in Runs /\ l[2] \in 1..MaxAttempts /\ l = <<l[1], l[2]>>
        /\ MaxAttempts \in Nat /\ last[l[1]] \in 0..MaxAttempts
    BY LeaseParts, ConstantsAssumption DEF TypeOK
  <2>7. CASE l[2] < last[l[1]]
    BY <2>7 DEF ReplacedHadJobs
  <2>8. CASE ~ (l[2] < last[l[1]])
    <3>1. l[1] \in chosen /\ l[2] = last[l[1]] /\ last[l[1]] > 0
      BY <2>5, <2>6, <2>8
    <3> QED
      BY <2>4, <2>6, <3>1 DEF Overtakes, Latest
  <2> QED
    BY <2>7, <2>8
<1>2. CASE last' = last /\ job \subseteq job'
  BY <1>2 DEF ReplacedHadJobs
<1> QED
  BY <1>1, <1>2
  DEF Next, OperatorSteps, PlannerSteps, DispatchSteps, ReconcileSteps, ExternalSteps,
      RequestPause, BeginResume, FinishResume, SetMemberState, UpdateFleet,
      Enqueue, ReplanUnstarted, CancelPlanned, RetryLost, WithdrawPlanned,
      SubmitFence, SubmitWithdraw, SubmitAcknowledged, Acknowledge, SubmitRejected,
      SubmitAmbiguous, MarkUnavailable, DriverCrash, Observe, IngestAccept, IngestQuarantine,
      MarkUnreachable, ReconcileSucceeded, ExecutorDecides, WorkerEnds, BackoffElapses,
      BudgetExpires, vars, ledger

(***************************************************************************)
(* Records, attempts, shards and what the executors hold stay in agreement *)
(* in every history of a Study, until a lease that never got a Job is      *)
(* replaced.                                                               *)
(***************************************************************************)
Guarded == ~overtaken => Careful

LEMMA GuardedStep == Guarded /\ [Next]_vars => Guarded'
<1> SUFFICES ASSUME Guarded, [Next]_vars, ~overtaken' PROVE Careful'
  BY DEF Guarded
<1>1. ~overtaken
  BY Remembered
<1>2. Careful /\ IInv /\ JobIsResident /\ JobInv /\ ReplacedHadJobs /\ TypeOK /\ InflightInv
      /\ ShardInv
  BY <1>1 DEF Guarded, Careful, IInv, Safe
<1>3. [CarefulNext]_vars
  BY <1>2, CarefulMoves
<1>4. Placed
  BY <1>2, ShardIsPlaced DEF InflightInv, Placed
<1>5. TypeOK' /\ Safe'
  BY <1>2, <1>3, <1>4, TypeMove, SafeStep
<1>6. JobIsResident' /\ JobInv'
  BY <1>2, <1>3, JobStep, JobTogether
<1>7. ReplacedHadJobs'
  BY <1>2, ReplacedStep
<1> QED
  BY <1>5, <1>6, <1>7 DEF Careful, IInv

THEOREM Invariance == Spec => []Guarded
<1>1. Init => Guarded
  <2>1. Init => IInv
    BY TypeInit, SafeInit DEF IInv
  <2>2. Init => JobIsResident /\ JobInv
    BY DEF Init, JobIsResident, JobInv
  <2>3. Init => ReplacedHadJobs
    BY LeaseParts, ConstantsAssumption DEF Init, ReplacedHadJobs
  <2> QED
    BY <2>1, <2>2, <2>3 DEF Guarded, Careful
<1> QED
  BY <1>1, GuardedStep, PTL DEF Spec

(***************************************************************************)
(* No second worker of a Run can be alive beside its owner.                *)
(***************************************************************************)
THEOREM LiveWorkIsOwned == Spec => []LiveIsOwned
<1>1. Guarded => LiveIsOwned
  <2> SUFFICES ASSUME IInv, NEW l \in Lease, remote[l] \in Live
               PROVE  l = Latest(l[1]) /\ state[l[1]] \in Owned
    BY DEF LiveIsOwned, Guarded, Careful
  <2> TypeOK /\ LeaseInv /\ RecordInv /\ RemoteInv
    BY DEF IInv, Safe
  <2>1. attempt[l] \in Owned
    BY DEF RemoteInv, Agrees, Live, TypeOK, AttemptState, Unspent, Owned
  <2>2. l = Latest(l[1]) /\ last[l[1]] > 0
    BY <2>1, UsedIsLatest DEF Owned, Active
  <2>3. state[l[1]] = attempt[l]
    BY <2>1, <2>2, LeaseParts, OwnersOfRecord DEF Owned
  <2> QED
    BY <2>1, <2>2, <2>3
<1> QED
  BY <1>1, Invariance, PTL

(***************************************************************************)
(* A paused Study has nothing alive anywhere, a pausing one waits for      *)
(* something it owns.                                                      *)
(***************************************************************************)
THEOREM PausedIsQuiescent == Spec => []PauseIsQuiescent
<1>1. Guarded /\ LiveIsOwned => PauseIsQuiescent
  BY LeaseParts DEF Guarded, Careful, IInv, Safe, PauseInv, LiveIsOwned, PauseIsQuiescent
<1> QED
  BY <1>1, Invariance, LiveWorkIsOwned, PTL

(***************************************************************************)
(* A withdrawn lease never reached an executor.                            *)
(***************************************************************************)
THEOREM WithdrawnStaysHome == Spec => []WithdrawnNeverSent
<1>1. Guarded => WithdrawnNeverSent
  BY DEF Guarded, Careful, IInv, Safe, RemoteInv, Agrees, WithdrawnNeverSent
<1> QED
  BY <1>1, Invariance, PTL

(***************************************************************************)
(* A shard crosses the provider boundary at most once: whatever is fenced  *)
(* was never sent before.                                                  *)
(***************************************************************************)
THEOREM SubmitsOnce == Spec => SubmittedOnce
<1>1. Guarded /\ [Next]_vars =>
        [~overtaken' => \A s \in inflight' \ inflight : \A l \in s : remote[l] = "absent"]_vars
  <2> SUFFICES ASSUME Guarded, Next, ~overtaken', NEW s \in inflight' \ inflight, NEW l \in s
               PROVE  remote[l] = "absent"
    BY DEF vars
  <2>0. Careful /\ IInv /\ CarefulNext
    <3>1. Careful /\ IInv
      BY Remembered DEF Guarded, Careful
    <3>2. CarefulNext \/ UNCHANGED vars
      BY <3>1, CarefulMoves
    <3> QED
      BY <3>1, <3>2 DEF vars
  <2> TypeOK /\ RecordInv /\ RemoteInv /\ LeaseInv
    BY <2>0 DEF IInv, Safe
  <2>1. s \in KnownShards /\ Current(s) /\ SubmitFence(s)
    <3>1. PICK t \in KnownShards : Current(t) /\ SubmitFence(t)
      BY <2>0 DEF CarefulNext, OperatorSteps, PlannerSteps, CarefulDispatch, ReconcileSteps,
         ExternalSteps, RequestPause, BeginResume, FinishResume, SetMemberState, UpdateFleet,
         Enqueue, ReplanUnstarted, CancelPlanned, RetryLost, WithdrawPlanned,
         PlanShards, SubmitWithdraw, SubmitAcknowledged, SubmitRejected, SubmitAmbiguous,
         DriverCrash, Observe, IngestAccept, IngestQuarantine, MarkUnreachable,
         ReconcileSucceeded, ExecutorDecides, WorkerEnds, BackoffElapses, BudgetExpires
    <3>2. inflight' = inflight \union {t}
      BY <3>1 DEF SubmitFence
    <3> QED
      BY <3>1, <3>2
  <2>2. l \in Lease /\ l = Latest(l[1]) /\ l[1] \in Runs /\ state[l[1]] = "leased"
    <3>1. l \in Lease /\ l[1] \in RunsOf(s)
      BY <2>1, ShardOfLeases, LeaseParts DEF RunsOf
    <3>2. PICK r \in RunsOf(s) : l = Latest(r)
      BY <2>1 DEF Current, Latests
    <3>3. l[1] = r
      BY <3>2 DEF Latest
    <3> QED
      BY <2>1, <3>1, <3>2, <3>3, LeaseParts DEF SubmitFence, Submittable, Unsubmitted
  <2>3. attempt[l] = "leased"
    BY <2>2 DEF RecordInv, RecordOK, Active
  <2> QED
    BY <2>2, <2>3 DEF RemoteInv, Agrees
<1> QED
  BY <1>1, Invariance, PTL DEF Spec, SubmittedOnce

(***************************************************************************)
(* Whatever a worker finished is accepted, or still acceptable.            *)
(***************************************************************************)
THEOREM FinishedStaysAcceptable == Spec => []FinishedIsAcceptable
<1>1. Guarded => FinishedIsAcceptable
  <2> SUFFICES ASSUME IInv, NEW l \in Lease, remote[l] = "finished"
               PROVE  \/ ~Contradicts(l)
                      \/ accepted[l[1]] # None /\ accepted[l[1]].attempt = l[2]
    BY DEF FinishedIsAcceptable, Guarded, Careful
  <2> TypeOK /\ LeaseInv /\ RecordInv /\ RemoteInv
    BY DEF IInv, Safe
  <2>1. attempt[l] \in Owned \union Outcomes /\ attempt[l] # "lost"
    BY DEF RemoteInv, Agrees, TypeOK, AttemptState, Unspent, Owned
  <2>2. l = Latest(l[1]) /\ last[l[1]] > 0 /\ l[1] \in Runs
    BY <2>1, UsedIsLatest, LeaseParts, ConstantsAssumption DEF Owned, Active
  <2>3. CASE attempt[l] \in Owned
    BY <2>1, <2>2, <2>3, OwnersOfRecord DEF Contradicts, Owned
  <2>4. CASE attempt[l] \in Outcomes
    <3>1. accepted[l[1]] # None
      <4>1. attempt[l] \notin Active \union {"lost", "withdrawn_before_submit", "rejected"}
        BY <2>4, ConstantsAssumption DEF Active
      <4>2. state[l[1]] \in RunState
        BY <2>2 DEF TypeOK
      <4> QED
        BY <2>2, <4>1, <4>2 DEF RecordInv, RecordOK, RunState
    <3>2. accepted[l[1]].attempt = last[l[1]] /\ l[2] = last[l[1]]
      BY <2>2, <3>1, LatestLease DEF RecordInv, RecordOK
    <3> QED
      BY <3>1, <3>2
  <2> QED
    BY <2>1, <2>3, <2>4
<1> QED
  BY <1>1, Invariance, PTL

(***************************************************************************)
(* Accepted evidence, the terminal state it gave its Run and its attempt   *)
(* never change again.                                                     *)
(***************************************************************************)
THEOREM AcceptedStaysFinal == Spec => AcceptedIsFinal
<1>1. Guarded /\ [Next]_vars =>
        [~overtaken' => \A r \in Runs : accepted[r] # None =>
           accepted'[r] = accepted[r] /\ state'[r] = state[r] /\ last'[r] = last[r]]_vars
  <2> DEFINE Final(r) ==
        accepted'[r] = accepted[r] /\ state'[r] = state[r] /\ last'[r] = last[r]
  <2> SUFFICES ASSUME Guarded, Next, ~overtaken', NEW r \in Runs, accepted[r] # None
               PROVE  Final(r)
    BY DEF vars
  <2> TypeOK /\ LeaseInv /\ ShardInv /\ RecordInv /\ InflightInv
    BY Remembered DEF Guarded, Careful, IInv, Safe
  <2>1. state[r] \in Terminal /\ state[r] \notin Active \union {"absent", "planned", "lost"}
    BY OwnersOfRecord, ConstantsAssumption DEF TypeOK, RunState
  <2>2. last[r] > 0 /\ attempt[Latest(r)] \notin Active
    BY <2>1, OwnersOfRecord DEF RecordInv, RecordOK
  <2>3. CASE OperatorSteps
    BY <2>3 DEF OperatorSteps, RequestPause, BeginResume, FinishResume, SetMemberState,
       UpdateFleet, ledger
  <2>4. CASE PlannerSteps
    BY <2>1, <2>2, <2>4 DEF PlannerSteps, Enqueue, ReplanUnstarted, CancelPlanned, RetryLost,
       Retryable, WithdrawPlanned, SetState
  <2>5. CASE PlanShards
    <3>1. PICK chosen \in SUBSET {q \in Runs : state[q] = "planned"} :
            \E choice \in [chosen -> Clusters] : Lend(choice)
      BY <2>5 DEF PlanShards
    <3>2. r \notin chosen
      BY <2>1
    <3> QED
      BY <2>5, <3>1, <3>2 DEF PlanShards, Lend, SetState
  <2>6. ASSUME NEW s \in KnownShards, SubmitFence(s) \/ SubmitWithdraw(s) PROVE Final(r)
    <3>1. r \notin RunsOf(s)
      BY <2>1, <2>6 DEF SubmitFence, SubmitWithdraw, Submittable, Unsubmitted, Active
    <3> QED
      BY <2>6, <3>1 DEF SubmitFence, SubmitWithdraw, SetState
  <2>7. ASSUME NEW s \in inflight, SubmitAcknowledged(s) PROVE Final(r)
    <3>1. r \notin RunsOf(Queued(s))
      BY <2>2 DEF RunsOf, Queued, Active
    <3> QED
      BY <2>7, <3>1 DEF SubmitAcknowledged, SetState
  <2>8. ASSUME NEW s \in inflight, SubmitRejected(s) PROVE Final(r)
    <3>1. \A l \in s : l \in Lease /\ attempt[l] \in Owned
      BY <2>8, ShardIsPlaced DEF InflightInv, SubmitRejected
    <3>2. \A l \in s : l = Latest(l[1])
      BY <3>1, UsedIsLatest DEF Owned, Active
    <3>3. r \notin RunsOf(s)
      BY <2>2, <3>1, <3>2 DEF RunsOf, Owned
    <3> QED
      BY <2>8, <3>3 DEF SubmitRejected, SetState
  <2>9. ASSUME NEW c, MarkUnavailable(c) PROVE Final(r)
    BY <2>1, <2>9 DEF MarkUnavailable, SetState, Owned
  <2>10. ASSUME NEW l \in Lease, NEW s \in Reported(l), Observe(l, s) PROVE Final(r)
    BY <2>1, <2>10 DEF Observe, SetState
  <2>11. ASSUME NEW l \in Lease, NEW o \in Outcomes, IngestAccept(l, o) PROVE Final(r)
    <3>1. r # l[1]
      BY <2>11 DEF IngestAccept, Contradicts
    <3> QED
      BY <2>11, <3>1 DEF IngestAccept, SetState, TypeOK
  <2>12. CASE UNCHANGED <<state, accepted, last>>
    BY <2>12
  <2> QED
    BY <2>3, <2>4, <2>5, <2>6, <2>7, <2>8, <2>9, <2>10, <2>11, <2>12
    DEF Next, DispatchSteps, ReconcileSteps, ExternalSteps, SubmitAmbiguous, MarkUnreachable,
        DriverCrash, IngestQuarantine, ReconcileSucceeded, ExecutorDecides, WorkerEnds,
        BackoffElapses, BudgetExpires, ledger
<1> QED
  BY <1>1, Invariance, PTL DEF Spec, AcceptedIsFinal


(***************************************************************************)
(* Counting: what the ledger spent and what the members hold.              *)
(***************************************************************************)
Spent == {l \in Lease : attempt[l] \notin Unspent}

\* Runs leased to c whose lease its executor has not taken up.
Pending(c) == {r \in ActiveOn(c) : Latest(r) \notin Resident}

CountInv ==
  /\ reserved = Cardinality(Spent) /\ reserved <= RunBudget
  /\ \A c \in Clusters :
       /\ Cardinality(Pending(c)) <= Capacity[c]
       /\ Cardinality(ActiveOn(c)) <= 2 * Capacity[c]
       /\ Cardinality(ActiveOn(c)) <= RunCap[c]
       /\ Cardinality(ShardsOn(c)) <= JobCap[c]
-----------------------------------------------------------------------------
(* Finite sets.                                                            *)
LEMMA Smaller ==
  ASSUME NEW S, IsFiniteSet(S), NEW T \in SUBSET S
  PROVE  /\ IsFiniteSet(T) /\ Cardinality(T) \in Nat /\ Cardinality(S) \in Nat
         /\ Cardinality(T) <= Cardinality(S)
BY FS_Subset, FS_CardinalityType

(* Disjoint sets add up.                                                   *)
LEMMA Joined ==
  ASSUME NEW S, IsFiniteSet(S), NEW T, IsFiniteSet(T), S \intersect T = {}
  PROVE  /\ IsFiniteSet(S \union T) /\ Cardinality(S) \in Nat /\ Cardinality(T) \in Nat
         /\ Cardinality(S \union T) = Cardinality(S) + Cardinality(T)
<1>1. Cardinality(S \intersect T) = 0
  BY FS_EmptySet
<1>2. Cardinality(S) \in Nat /\ Cardinality(T) \in Nat
  BY FS_CardinalityType
<1>3. IsFiniteSet(S \union T)
      /\ Cardinality(S \union T) = Cardinality(S) + Cardinality(T) - Cardinality(S \intersect T)
  BY FS_Union
<1> QED
  BY <1>1, <1>2, <1>3

(* What is taken away is subtracted.                                       *)
LEMMA Left ==
  ASSUME NEW S, IsFiniteSet(S), NEW T \in SUBSET S
  PROVE  Cardinality(S \ T) = Cardinality(S) - Cardinality(T)
<1>1. S \intersect T = T
  OBVIOUS
<1> QED
  BY <1>1, FS_Difference

\* One lease per Run of S: as many leases as Runs.
LEMMA OneEach ==
  ASSUME NEW S, NEW T, IsFiniteSet(S), NEW f \in [S -> T],
         \A x, y \in S : f[x] = f[y] => x = y, \A t \in T : \E x \in S : f[x] = t
  PROVE  IsFiniteSet(T) /\ Cardinality(T) = Cardinality(S)
<1>1. f \in Bijection(S, T)
  BY DEF Bijection, Injection, Surjection, IsInjective
<1>2. ExistsBijection(S, T)
  BY <1>1 DEF ExistsBijection
<1> QED
  BY <1>2, FS_Bijection

(* Members of S told apart by members of T are no more than those.         *)
LEMMA AtMost ==
  ASSUME NEW S, NEW T, IsFiniteSet(T), NEW f \in [S -> T],
         \A x, y \in S : f[x] = f[y] => x = y
  PROVE  IsFiniteSet(S) /\ Cardinality(S) <= Cardinality(T)
<1>1. f \in Injection(S, T)
  BY DEF Injection, IsInjective
<1> QED
  BY <1>1, FS_Injection

\* Before orders the Runs: of two of them, one is placed first.
LEMMA BeforeIsOrder ==
  ASSUME TypeOK
  PROVE  /\ \A r, q \in Runs : r # q => Before(r, q) \/ Before(q, r)
         /\ \A r \in Runs : ~ Before(r, r)
         /\ \A r, q, p \in Runs : Before(r, q) /\ Before(q, p) => Before(r, p)
<1>1. \A r \in Runs : r \in Int /\ PriorityRank[priority[r]] \in Int
  <2>1. \A p \in Priorities : PriorityRank[p] \in Int
    BY ConstantsAssumption DEF PriorityRank
  <2>2. \A r \in Runs : priority[r] \in Priorities
    BY DEF TypeOK
  <2>3. \A r \in Runs : r \in Int
    BY ConstantsAssumption
  <2> QED
    BY <2>1, <2>2, <2>3
<1> QED
  BY <1>1 DEF Before

(***************************************************************************)
(* A loop that places a Run only while fewer than n were placed before it  *)
(* places at most n.                                                       *)
(***************************************************************************)
LEMMA PlacedAtMost ==
  ASSUME TypeOK, NEW S \in SUBSET Runs, NEW n \in Nat,
         \A r \in S : Cardinality({q \in S : Before(q, r)}) < n
  PROVE  Cardinality(S) <= n
<1> DEFINE earlier(r) == {q \in S : Before(q, r)}
           f == [r \in S |-> Cardinality(earlier(r))]
<1>1. IsFiniteSet(S)
  BY FS_Subset, ConstantsAssumption
<1>2. \A r \in S : earlier(r) \in SUBSET S /\ IsFiniteSet(earlier(r)) /\ Cardinality(earlier(r)) \in Nat
  BY <1>1, Smaller
<1>3. f \in [S -> 0..(n - 1)]
  <2> SUFFICES ASSUME NEW r \in S PROVE Cardinality(earlier(r)) \in 0..(n - 1)
    OBVIOUS
  <2>1. Cardinality(earlier(r)) \in Nat /\ Cardinality(earlier(r)) < n
    BY <1>2
  <2> QED
    BY <2>1
<1>4. ASSUME NEW r \in S, NEW q \in S, Before(r, q) PROVE f[r] # f[q]
  <2>1. earlier(r) \in SUBSET earlier(q)
    BY <1>4, BeforeIsOrder
  <2>2. r \in earlier(q) /\ r \notin earlier(r)
    BY <1>4, BeforeIsOrder
  <2>3. IsFiniteSet(earlier(q))
    BY <1>2
  <2>4. Cardinality(earlier(q)) # Cardinality(earlier(r))
    BY <2>1, <2>2, <2>3, FS_Subset
  <2> QED
    BY <2>4
<1>5. \A r, q \in S : f[r] = f[q] => r = q
  <2> HIDE DEF f
  <2> QED
    BY <1>4, BeforeIsOrder
<1>6. IsFiniteSet(0..(n - 1)) /\ Cardinality(0..(n - 1)) = n
  BY FS_Interval
<1>7. Cardinality(S) <= Cardinality(0..(n - 1))
  <2> HIDE DEF f
  <2> QED
    BY <1>3, <1>5, <1>6, AtMost
<1> QED
  BY <1>6, <1>7

(***************************************************************************)
(* What a planning step lends.                                             *)
(***************************************************************************)
(* The limits a placement was within.                                      *)
LEMMA NotExcluded ==
  ASSUME NEW r, NEW c \in Clusters, NEW room, NEW n \in Nat, ~ Excluded(r, c, room, n),
         room[c] \in Nat, Cardinality(ActiveOn(c)) \in Nat, Cardinality(ShardsOn(c)) \in Int
  PROVE  /\ n < room[c] /\ n < RunCap[c] - Cardinality(ActiveOn(c))
         /\ Cardinality(ShardsOn(c)) < JobCap[c]
<1>1. RunCap[c] \in Nat /\ JobCap[c] \in Nat
  BY ConstantsAssumption
<1> QED
  BY <1>1 DEF Excluded

(* A further element adds at most one.                                     *)
LEMMA OneMore ==
  ASSUME NEW S, IsFiniteSet(S), NEW x
  PROVE  IsFiniteSet(S \union {x}) /\ Cardinality(S \union {x}) <= Cardinality(S) + 1
<1>1. Cardinality(S) \in Nat
  BY FS_CardinalityType
<1> QED
  BY <1>1, FS_AddElement

LEMMA Lending ==
  ASSUME IInv, CountInv, PlanShards
  PROVE  \E chosen \in SUBSET {r \in Runs : state[r] = "planned" /\ last[r] < MaxAttempts} :
         \E choice \in [chosen -> Clusters] :
         \E seen \in SUBSET Resident, slots \in [Clusters -> Nat] :
           LET on(c) == {r \in chosen : choice[r] = c} IN
           /\ Lend(choice) /\ Honest(slots, seen)
           /\ reserved + Cardinality(chosen) <= RunBudget
           /\ \A c \in Clusters : on(c) # {} =>
                /\ Cardinality(on(c)) <= Room(c, slots, seen)
                /\ Cardinality(ActiveOn(c)) + Cardinality(on(c)) <= RunCap[c]
                /\ Cardinality(ShardsOn(c)) < JobCap[c]
<1> TypeOK
  BY DEF IInv
<1> DEFINE planned == {r \in Runs : state[r] = "planned" /\ last[r] < MaxAttempts}
<1>1. PICK chosen \in SUBSET planned, seen \in SUBSET Resident, wave \in 1..Cardinality(Runs) :
        \E slots \in {f \in [Clusters -> UNION {0..Capacity[c] : c \in Clusters}] :
                        Honest(f, seen)} :
        \E choice \in [chosen -> Clusters] :
          LET room == [c \in Clusters |-> Room(c, slots, seen)] IN
          /\ Greedy(choice, planned, room, wave)
          /\ Lend(choice)
  BY DEF PlanShards
<1>2. PICK slots \in {f \in [Clusters -> UNION {0..Capacity[c] : c \in Clusters}] : Honest(f, seen)},
           choice \in [chosen -> Clusters] :
          /\ Greedy(choice, planned, [c \in Clusters |-> Room(c, slots, seen)], wave)
          /\ Lend(choice)
  BY <1>1
<1>3. slots \in [Clusters -> Nat] /\ Honest(slots, seen)
  <2>1. UNION {0..Capacity[c] : c \in Clusters} \subseteq Nat
    BY ConstantsAssumption
  <2> QED
    BY <2>1
<1> DEFINE room == [c \in Clusters |-> Room(c, slots, seen)]
           earlier(r) == {q \in chosen : Before(q, r)}
           on(c) == {r \in chosen : choice[r] = c}
<1>4. DOMAIN choice = chosen /\ chosen \subseteq planned /\ chosen \subseteq Runs
  OBVIOUS
<1>5. \A r \in chosen :
        /\ ~ Full(Cardinality(earlier(r)), wave)
        /\ ~ Excluded(r, choice[r], room, Cardinality({q \in earlier(r) : choice[q] = choice[r]}))
  BY <1>2, <1>4 DEF Greedy
<1>6. reserved \in Nat /\ reserved <= RunBudget /\ RunBudget \in Nat
  BY FiniteLease, FS_CardinalityType, ConstantsAssumption DEF CountInv, Spent
<1>7. IsFiniteSet(chosen) /\ Cardinality(chosen) \in Nat
  BY <1>4, ConstantsAssumption, Smaller
<1>8. reserved + Cardinality(chosen) <= RunBudget
  <2>1. ASSUME NEW r \in chosen PROVE Cardinality(earlier(r)) < RunBudget - reserved
    <3>1. Cardinality(earlier(r)) \in Nat
      BY <1>7, Smaller
    <3>2. ~ (reserved + Cardinality(earlier(r)) >= RunBudget)
      BY <1>5 DEF Full
    <3> QED
      BY <1>6, <3>1, <3>2
  <2>2. RunBudget - reserved \in Nat
    BY <1>6
  <2>3. Cardinality(chosen) <= RunBudget - reserved
    BY <1>4, <2>1, <2>2, PlacedAtMost
  <2> QED
    BY <1>6, <1>7, <2>3
<1>9. ASSUME NEW c \in Clusters, on(c) # {}
      PROVE  /\ Cardinality(on(c)) <= Room(c, slots, seen)
             /\ Cardinality(ActiveOn(c)) + Cardinality(on(c)) <= RunCap[c]
             /\ Cardinality(ShardsOn(c)) < JobCap[c]
  <2>1. on(c) \in SUBSET Runs /\ IsFiniteSet(on(c)) /\ Cardinality(on(c)) \in Nat
    BY <1>4, <1>7, Smaller
  <2>2. \A r \in on(c) : {q \in earlier(r) : choice[q] = choice[r]} = {q \in on(c) : Before(q, r)}
    OBVIOUS
  <2>3. \A r \in on(c) :
          ~ Excluded(r, c, room, Cardinality({q \in on(c) : Before(q, r)}))
    BY <1>5, <2>2
  <2>4. IsFiniteSet(ActiveOn(c)) /\ Cardinality(ActiveOn(c)) \in Nat
    BY ConstantsAssumption, Smaller DEF ActiveOn
  <2>5. Room(c, slots, seen) \in Nat
    <3>1. slots[c] \in Nat
      BY <1>3
    <3>2. Cardinality({r \in ActiveOn(c) : Latest(r) \notin seen}) \in Nat
      BY <2>4, Smaller
    <3> QED
      BY <3>1, <3>2 DEF Room
  <2>6. RunCap[c] \in Nat /\ JobCap[c] \in Nat
    BY ConstantsAssumption
  <2>7. \A r \in on(c) : Cardinality({q \in on(c) : Before(q, r)}) \in Nat
    BY <2>1, Smaller
  <2>13. ShardsOn(c) \in SUBSET (SUBSET Lease) /\ Cardinality(ShardsOn(c)) \in Int
    <3>1. \A r \in ActiveOn(c) : shard[Latest(r)] \in SUBSET Lease
      BY LatestLease DEF ActiveOn, IInv, Safe, TypeOK, RecordInv, RecordOK
    <3>2. ShardsOn(c) \in SUBSET (SUBSET Lease)
      BY <3>1 DEF ShardsOn
    <3>3. IsFiniteSet(SUBSET Lease)
      BY FiniteLease, FS_SUBSET
    <3> QED
      BY <3>2, <3>3, Smaller
  <2>8. ASSUME NEW r \in on(c)
        PROVE  /\ Cardinality({q \in on(c) : Before(q, r)}) < Room(c, slots, seen)
               /\ Cardinality({q \in on(c) : Before(q, r)}) < RunCap[c] - Cardinality(ActiveOn(c))
               /\ Cardinality(ShardsOn(c)) < JobCap[c]
    <3> DEFINE n == Cardinality({q \in on(c) : Before(q, r)})
    <3>1. n \in Nat /\ ~ Excluded(r, c, room, n)
      BY <2>3, <2>7
    <3>2. room[c] = Room(c, slots, seen)
      OBVIOUS
    <3> HIDE DEF n, room, on
    <3>3. n < room[c] /\ n < RunCap[c] - Cardinality(ActiveOn(c)) /\ Cardinality(ShardsOn(c)) < JobCap[c]
      BY <2>4, <2>5, <2>13, <3>1, <3>2, NotExcluded
    <3> QED
      BY <3>2, <3>3 DEF n
  <2>9. Cardinality(on(c)) <= Room(c, slots, seen)
    <3> HIDE DEF on
    <3> QED
      BY <2>1, <2>5, <2>8, PlacedAtMost
  <2>11. RunCap[c] - Cardinality(ActiveOn(c)) \in Nat
    BY <2>4, <2>6 DEF CountInv
  <2>12. Cardinality(on(c)) <= RunCap[c] - Cardinality(ActiveOn(c))
    <3> HIDE DEF on
    <3> QED
      BY <2>1, <2>8, <2>11, PlacedAtMost
  <2>14. Cardinality(ShardsOn(c)) < JobCap[c]
    BY <1>9, <2>8
  <2> QED
    BY <2>1, <2>4, <2>6, <2>9, <2>12, <2>14
<1>10. Lend(choice)
  BY <1>2
<1> HIDE DEF room, earlier
<1> QED
  BY <1>3, <1>8, <1>9, <1>10, SMTT(30)

(* An active Run holds its latest lease.                                   *)
LEMMA ActiveIsLeased ==
  ASSUME IInv, NEW r \in Runs, state[r] \in Active
  PROVE  Latest(r) \in Lease /\ Latest(r)[1] = r /\ last[r] > 0 /\ attempt[Latest(r)] = state[r]
<1> TypeOK /\ LeaseInv /\ RecordInv
  BY DEF IInv, Safe
<1>1. last[r] > 0 /\ attempt[Latest(r)] = state[r]
  BY DEF RecordInv, RecordOK
<1> QED
  BY <1>1, LatestLease

(* The Runs of a member are finitely many.                                 *)
LEMMA FiniteActive ==
  \A c \in Clusters :
    /\ IsFiniteSet(ActiveOn(c)) /\ Cardinality(ActiveOn(c)) \in Nat
    /\ IsFiniteSet(Pending(c)) /\ Cardinality(Pending(c)) \in Nat
<1>1. \A c \in Clusters : IsFiniteSet(ActiveOn(c)) /\ Cardinality(ActiveOn(c)) \in Nat
  BY ConstantsAssumption, Smaller DEF ActiveOn
<1> QED
  BY <1>1, Smaller DEF Pending

(* So are its allocations.                                                 *)
LEMMA FiniteShards ==
  ASSUME IInv, NEW c \in Clusters
  PROVE  IsFiniteSet(ShardsOn(c)) /\ Cardinality(ShardsOn(c)) \in Nat
<1>1. \A r \in ActiveOn(c) : shard[Latest(r)] \in SUBSET Lease
  BY ActiveIsLeased DEF ActiveOn, IInv, TypeOK
<1>2. ShardsOn(c) \in SUBSET (SUBSET Lease)
  BY <1>1 DEF ShardsOn
<1>3. IsFiniteSet(SUBSET Lease)
  BY FiniteLease, FS_SUBSET
<1> QED
  BY <1>2, <1>3, Smaller

(***************************************************************************)
(* However old the offer, what it had left covers the new leases and those *)
(* that are not taken up: it did not count these.  What it counted is one  *)
(* full wave at most.                                                      *)
(***************************************************************************)
LEMMA OfferCovers ==
  ASSUME IInv, CountInv, NEW c \in Clusters, NEW seen \in SUBSET Resident,
         NEW slots \in [Clusters -> Nat], Honest(slots, seen),
         NEW n \in Nat, n > 0, n <= Room(c, slots, seen)
  PROVE  /\ Cardinality(Pending(c)) + n <= Capacity[c]
         /\ Cardinality(ActiveOn(c)) + n <= 2 * Capacity[c]
<1> DEFINE unseen == {r \in ActiveOn(c) : Latest(r) \notin seen}
           counted == {r \in ActiveOn(c) : Latest(r) \in seen}
<1>1. IsFiniteSet(unseen) /\ IsFiniteSet(counted) /\ unseen \intersect counted = {}
      /\ ActiveOn(c) = unseen \union counted
  BY FiniteActive, Smaller
<1>2. /\ Cardinality(unseen) \in Nat /\ Cardinality(counted) \in Nat
      /\ Cardinality(ActiveOn(c)) = Cardinality(unseen) + Cardinality(counted)
  BY <1>1, Joined
<1>3. IsFiniteSet(At(seen, c)) /\ Cardinality(At(seen, c)) \in Nat
  BY FiniteLease, FS_CardinalityType DEF At, Resident
<1>4. Cardinality(counted) <= Cardinality(At(seen, c))
  <2> DEFINE f == [r \in counted |-> Latest(r)]
  <2>1. f \in [counted -> At(seen, c)]
    BY DEF ActiveOn, At
  <2>2. \A x, y \in counted : f[x] = f[y] => x = y
    BY DEF Latest
  <2> HIDE DEF f
  <2> QED
    BY <1>3, <2>1, <2>2, AtMost
<1>5. /\ slots[c] \in Nat /\ Capacity[c] \in Nat
      /\ slots[c] <= Capacity[c] /\ Cardinality(At(seen, c)) <= Capacity[c]
  BY ConstantsAssumption DEF Honest
<1>6. n <= slots[c] - Cardinality(unseen)
  BY <1>2, <1>5 DEF Room
<1>7. Cardinality(Pending(c)) <= Cardinality(unseen) /\ Cardinality(Pending(c)) \in Nat
  <2>1. Pending(c) \in SUBSET unseen
    BY DEF Pending
  <2> HIDE DEF unseen
  <2> QED
    BY <1>1, <2>1, Smaller
<1> QED
  BY <1>2, <1>3, <1>4, <1>5, <1>6, <1>7

(* A planning step keeps every limit: Lending, OfferCovers.                *)
LEMMA PlanCounts == IInv /\ CountInv /\ PlanShards => CountInv'
<1> SUFFICES ASSUME IInv, CountInv, PlanShards PROVE CountInv'
  OBVIOUS
<1> TypeOK /\ LeaseInv /\ RecordInv
  BY DEF IInv, Safe
<1>0. PICK chosen \in SUBSET {r \in Runs : state[r] = "planned" /\ last[r] < MaxAttempts} :
        \E choice \in [chosen -> Clusters] :
        \E seen \in SUBSET Resident, slots \in [Clusters -> Nat] :
           LET on(c) == {r \in chosen : choice[r] = c} IN
           /\ Lend(choice) /\ Honest(slots, seen)
           /\ reserved + Cardinality(chosen) <= RunBudget
           /\ \A c \in Clusters : on(c) # {} =>
                /\ Cardinality(on(c)) <= Room(c, slots, seen)
                /\ Cardinality(ActiveOn(c)) + Cardinality(on(c)) <= RunCap[c]
                /\ Cardinality(ShardsOn(c)) < JobCap[c]
  BY Lending
<1>1. PICK choice \in [chosen -> Clusters], seen \in SUBSET Resident, slots \in [Clusters -> Nat] :
           LET on(c) == {r \in chosen : choice[r] = c} IN
           /\ Lend(choice) /\ Honest(slots, seen)
           /\ reserved + Cardinality(chosen) <= RunBudget
           /\ \A c \in Clusters : on(c) # {} =>
                /\ Cardinality(on(c)) <= Room(c, slots, seen)
                /\ Cardinality(ActiveOn(c)) + Cardinality(on(c)) <= RunCap[c]
                /\ Cardinality(ShardsOn(c)) < JobCap[c]
  BY <1>0
<1> DEFINE on(c) == {r \in chosen : choice[r] = c}
           new == {Fresh(r) : r \in chosen}
<1>2. DOMAIN choice = chosen /\ chosen \subseteq Runs
      /\ \A r \in chosen : state[r] = "planned" /\ last[r] < MaxAttempts
  OBVIOUS
<1>3. \A r \in chosen : Fresh(r) \in Lease /\ Fresh(r)[1] = r /\ Fresh(r)[2] = last[r] + 1
  BY <1>2, FreshLease
<1>4. \A r \in Runs : /\ state'[r] = IF r \in chosen THEN "leased" ELSE state[r]
                      /\ last'[r] = IF r \in chosen THEN last[r] + 1 ELSE last[r]
  BY <1>1, <1>2 DEF Lend, SetState
<1>5. ASSUME NEW r \in chosen
      PROVE  /\ (Latest(r))' = Fresh(r) /\ place'[Fresh(r)] = choice[r]
             /\ shard'[Fresh(r)] = Wave(choice, r)
  <2>1. (Latest(r))' = Fresh(r)
    BY <1>2, <1>4 DEF Latest, Fresh
  <2> QED
    BY <1>1, <1>2, <1>3, <2>1 DEF Lend
<1>6. ASSUME NEW r \in Runs, r \notin chosen, state[r] \in Active
      PROVE  /\ (Latest(r))' = Latest(r) /\ place'[Latest(r)] = place[Latest(r)]
             /\ shard'[Latest(r)] = shard[Latest(r)]
  <2>1. Latest(r) \in Lease /\ Latest(r)[1] = r
    BY <1>6, ActiveIsLeased
  <2>2. Latest(r) \notin new
    BY <1>3, <1>6, <2>1
  <2>3. (Latest(r))' = Latest(r)
    BY <1>4, <1>6 DEF Latest
  <2> QED
    BY <1>1, <1>2, <2>1, <2>2, <2>3 DEF Lend
<1>7. ASSUME NEW c \in Clusters
      PROVE  ActiveOn(c)' = ActiveOn(c) \union on(c) /\ ActiveOn(c) \intersect on(c) = {}
  <2>1. ActiveOn(c)' = {r \in Runs : state'[r] \in Active /\ place'[(Latest(r))'] = c}
    BY DEF ActiveOn
  <2>2. \A r \in chosen : state[r] \notin Active /\ state'[r] \in Active
    BY <1>2, <1>4 DEF Active
  <2>3. \A r \in Runs : r \in ActiveOn(c)' <=> r \in ActiveOn(c) \/ r \in on(c)
    BY <1>4, <1>5, <1>6, <2>1, <2>2 DEF ActiveOn
  <2>4. ActiveOn(c)' \subseteq Runs /\ ActiveOn(c) \subseteq Runs /\ on(c) \subseteq Runs
    BY <1>2, <2>1 DEF ActiveOn
  <2> QED
    BY <2>2, <2>3, <2>4 DEF ActiveOn
<1>8. IsFiniteSet(chosen) /\ Cardinality(chosen) \in Nat
  BY <1>2, ConstantsAssumption, Smaller
<1>9. ASSUME NEW c \in Clusters
      PROVE  /\ Cardinality(Pending(c))' <= Capacity[c]
             /\ Cardinality(ActiveOn(c))' <= 2 * Capacity[c]
             /\ Cardinality(ActiveOn(c))' <= RunCap[c]
  <2>1. IsFiniteSet(on(c)) /\ Cardinality(on(c)) \in Nat
    BY <1>8, Smaller
  <2>2. Cardinality(ActiveOn(c))' = Cardinality(ActiveOn(c)) + Cardinality(on(c))
    BY <1>7, <2>1, FiniteActive, Joined
  <2>5. Pending(c)' \subseteq Pending(c) \union on(c)
    <3>1. Resident' = Resident
      BY DEF PlanShards, Resident
    <3>2. Pending(c)' = {r \in ActiveOn(c)' : (Latest(r))' \notin Resident}
      BY <3>1 DEF Pending
    <3>3. \A r \in ActiveOn(c) : (Latest(r))' = Latest(r)
      BY <1>2, <1>6 DEF ActiveOn, Active
    <3> QED
      BY <1>7, <3>2, <3>3 DEF Pending
  <2>6. Cardinality(Pending(c))' <= Cardinality(Pending(c)) + Cardinality(on(c))
        /\ Cardinality(Pending(c))' \in Nat
    <3>1. Pending(c) \intersect on(c) = {}
      BY <1>7 DEF Pending
    <3> HIDE DEF on
    <3>2. Cardinality(Pending(c) \union on(c)) = Cardinality(Pending(c)) + Cardinality(on(c))
          /\ IsFiniteSet(Pending(c) \union on(c))
      BY <2>1, <3>1, FiniteActive, Joined, FS_Union
    <3>3. Cardinality(Pending(c))' <= Cardinality(Pending(c) \union on(c))
          /\ Cardinality(Pending(c))' \in Nat
      BY <2>5, <3>2, Smaller
    <3> QED
      BY <3>2, <3>3
  <2>3. CASE on(c) = {}
    <3>1. Cardinality(on(c)) = 0
      BY <2>3, FS_EmptySet
    <3> QED
      BY <2>2, <2>6, <3>1, FiniteActive, ConstantsAssumption DEF CountInv
  <2>4. CASE on(c) # {}
    <3>1. Cardinality(on(c)) > 0
      BY <2>1, <2>4, FS_EmptySet
    <3>2. Cardinality(on(c)) <= Room(c, slots, seen) /\ Honest(slots, seen)
      BY <1>1, <2>4
    <3>3. /\ Cardinality(Pending(c)) + Cardinality(on(c)) <= Capacity[c]
          /\ Cardinality(ActiveOn(c)) + Cardinality(on(c)) <= 2 * Capacity[c]
      BY <2>1, <3>1, <3>2, OfferCovers
    <3>4. Cardinality(ActiveOn(c)) + Cardinality(on(c)) <= RunCap[c]
      BY <1>1, <2>4
    <3> QED
      BY <2>1, <2>2, <2>6, <3>3, <3>4, FiniteActive, ConstantsAssumption
  <2> QED
    BY <2>3, <2>4
<1>10. ASSUME NEW c \in Clusters PROVE Cardinality(ShardsOn(c))' <= JobCap[c]
  <2> DEFINE wave == {Fresh(q) : q \in on(c)}
  <2>1. ShardsOn(c)' = {shard'[(Latest(r))'] : r \in ActiveOn(c)'}
    BY DEF ShardsOn
  <2>2. \A r \in on(c) : shard'[(Latest(r))'] = wave
    BY <1>2, <1>5 DEF Wave
  <2>3. \A r \in ActiveOn(c) : shard'[(Latest(r))'] = shard[Latest(r)]
    BY <1>2, <1>6 DEF ActiveOn, Active
  <2>4. ShardsOn(c)' \subseteq ShardsOn(c) \union {wave}
    BY <1>7, <2>1, <2>2, <2>3 DEF ShardsOn
  <2>5. IsFiniteSet(ShardsOn(c)) /\ Cardinality(ShardsOn(c)) \in Nat /\ JobCap[c] \in Nat
    BY FiniteShards, ConstantsAssumption
  <2>6. CASE on(c) = {}
    <3>1. ShardsOn(c)' \subseteq ShardsOn(c)
      BY <1>7, <2>1, <2>3, <2>6 DEF ShardsOn
    <3>2. Cardinality(ShardsOn(c))' <= Cardinality(ShardsOn(c)) /\ Cardinality(ShardsOn(c))' \in Nat
      BY <2>5, <3>1, Smaller
    <3> QED
      BY <2>5, <3>2 DEF CountInv
  <2>7. CASE on(c) # {}
    <3>1. /\ IsFiniteSet(ShardsOn(c) \union {wave})
          /\ Cardinality(ShardsOn(c) \union {wave}) <= Cardinality(ShardsOn(c)) + 1
      <4> HIDE DEF wave
      <4> QED
        BY <2>5, OneMore
    <3>2. /\ Cardinality(ShardsOn(c))' <= Cardinality(ShardsOn(c) \union {wave})
          /\ Cardinality(ShardsOn(c))' \in Nat
          /\ Cardinality(ShardsOn(c) \union {wave}) \in Nat
      BY <2>4, <3>1, Smaller
    <3>3. Cardinality(ShardsOn(c)) < JobCap[c]
      BY <1>1, <2>7
    <3> QED
      BY <2>5, <3>1, <3>2, <3>3
  <2> QED
    BY <2>6, <2>7
<1>11. Spent' = Spent \union new /\ Spent \intersect new = {}
  <2>1. attempt' = [l \in Lease |-> IF l \in new THEN "leased" ELSE attempt[l]]
    BY <1>1, <1>2 DEF Lend, SetAttempt
  <2>2. \A l \in new : l \in Lease /\ attempt[l] = "none"
    BY <1>2, <1>3, ConstantsAssumption DEF LeaseInv, TypeOK
  <2> QED
    BY <2>1, <2>2 DEF Spent, Unspent
<1>12. IsFiniteSet(new) /\ Cardinality(new) = Cardinality(chosen)
  <2> DEFINE f == [r \in chosen |-> Fresh(r)]
  <2>1. f \in [chosen -> new] /\ (\A t \in new : \E r \in chosen : f[r] = t)
    OBVIOUS
  <2>2. \A x, y \in chosen : f[x] = f[y] => x = y
    BY <1>3
  <2> HIDE DEF f, new
  <2> QED
    BY <1>8, <2>1, <2>2, OneEach
<1>13. reserved' = Cardinality(Spent') /\ reserved' <= RunBudget
  <2>1. IsFiniteSet(Spent)
    BY FiniteLease DEF Spent
  <2>2. Cardinality(Spent') = Cardinality(Spent) + Cardinality(chosen)
    <3> HIDE DEF new
    <3> QED
      BY <1>11, <1>12, <2>1, Joined
  <2>3. reserved' = reserved + Cardinality(chosen)
    BY <1>1, <1>2 DEF Lend
  <2> QED
    BY <1>1, <2>2, <2>3 DEF CountInv
<1> QED
  BY <1>9, <1>10, <1>13 DEF CountInv

(***************************************************************************)
(* Every other step leaves places alone, activates no Run, and gives back  *)
(* exactly the reservations of the attempts it unspends.                   *)
(***************************************************************************)
Returns ==
  /\ UNCHANGED <<last, place, shard>>
  /\ \A r \in Runs : state'[r] \in Active => state[r] \in Active
  /\ \E s \in SUBSET Spent : Spent' = Spent \ s /\ reserved' = reserved - Cardinality(s)

(* What an executor took up stays taken up.                                *)
LEMMA ResidentStays == [Next]_vars => Resident \subseteq Resident'
<1> SUFFICES ASSUME [Next]_vars PROVE Resident \subseteq Resident'
  OBVIOUS
<1>1. ASSUME NEW s, SubmitFence(s) PROVE Resident \subseteq Resident'
  BY <1>1 DEF SubmitFence, Resident
<1>2. ASSUME NEW s \in KnownShards, NEW a \in {"accepted", "refused"}, ExecutorDecides(s, a)
      PROVE  Resident \subseteq Resident'
  BY <1>2 DEF ExecutorDecides, SetRemote, Resident
<1>3. ASSUME NEW l \in Lease, NEW s \in {"finished", "dead"}, WorkerEnds(l, s)
      PROVE  Resident \subseteq Resident'
  BY <1>3 DEF WorkerEnds, SetRemote, Resident
<1>4. CASE remote' = remote
  BY <1>4 DEF Resident
<1> QED
  BY <1>1, <1>2, <1>3, <1>4
  DEF Next, OperatorSteps, PlannerSteps, DispatchSteps, ReconcileSteps, ExternalSteps,
      RequestPause, BeginResume, FinishResume, SetMemberState, UpdateFleet,
      Enqueue, ReplanUnstarted, CancelPlanned, RetryLost, WithdrawPlanned, PlanShards,
      SubmitWithdraw, SubmitAcknowledged, SubmitRejected, SubmitAmbiguous,
      MarkUnavailable, DriverCrash, Observe, IngestAccept, IngestQuarantine, MarkUnreachable,
      ReconcileSucceeded, BackoffElapses, BudgetExpires, vars

(* Steps of the second kind keep every limit too.                          *)
LEMMA ReturnsCounts ==
  IInv /\ CountInv /\ Returns /\ Resident \subseteq Resident' => CountInv'
<1> SUFFICES ASSUME IInv, CountInv, Returns, Resident \subseteq Resident' PROVE CountInv'
  OBVIOUS
<1>1. PICK s \in SUBSET Spent : Spent' = Spent \ s /\ reserved' = reserved - Cardinality(s)
  BY DEF Returns
<1>2. IsFiniteSet(Spent) /\ Cardinality(Spent) \in Nat
  BY FiniteLease, FS_CardinalityType DEF Spent
<1>3. Cardinality(Spent') = Cardinality(Spent) - Cardinality(s) /\ Cardinality(s) \in Nat
  BY <1>1, <1>2, Left, Smaller
<1>4. reserved' = Cardinality(Spent') /\ reserved' <= RunBudget
  BY <1>1, <1>2, <1>3, ConstantsAssumption DEF CountInv
<1>5. ASSUME NEW c \in Clusters
      PROVE  /\ Cardinality(Pending(c))' <= Capacity[c]
             /\ Cardinality(ActiveOn(c))' <= 2 * Capacity[c]
             /\ Cardinality(ActiveOn(c))' <= RunCap[c]
             /\ Cardinality(ShardsOn(c))' <= JobCap[c]
  <2>1. \A r \in Runs : (Latest(r))' = Latest(r)
    BY DEF Returns, Latest
  <2>2. ActiveOn(c)' = {r \in Runs : state'[r] \in Active /\ place[Latest(r)] = c}
    BY <2>1 DEF ActiveOn, Returns
  <2>3. ActiveOn(c)' \subseteq ActiveOn(c)
    BY <2>2 DEF ActiveOn, Returns
  <2>4. ShardsOn(c)' = {shard[Latest(r)] : r \in ActiveOn(c)'}
    BY <2>1, <2>2 DEF ShardsOn, Returns
  <2>5. ShardsOn(c)' \subseteq ShardsOn(c)
    BY <2>3, <2>4 DEF ShardsOn
  <2>6. /\ Cardinality(ActiveOn(c))' <= Cardinality(ActiveOn(c))
        /\ Cardinality(ActiveOn(c))' \in Nat /\ Cardinality(ActiveOn(c)) \in Nat
    BY <2>3, FiniteActive, Smaller
  <2>7. /\ Cardinality(ShardsOn(c))' <= Cardinality(ShardsOn(c))
        /\ Cardinality(ShardsOn(c))' \in Nat /\ Cardinality(ShardsOn(c)) \in Nat
    BY <2>5, FiniteShards, Smaller
  <2>8. Pending(c)' \subseteq Pending(c)
    <3>1. Pending(c)' = {r \in ActiveOn(c)' : Latest(r) \notin Resident'}
      BY <2>1, <2>3 DEF Pending, ActiveOn
    <3> QED
      BY <2>3, <3>1 DEF Pending
  <2>9. /\ Cardinality(Pending(c))' <= Cardinality(Pending(c))
        /\ Cardinality(Pending(c))' \in Nat /\ Cardinality(Pending(c)) \in Nat
    BY <2>8, FiniteActive, Smaller
  <2> QED
    BY <2>6, <2>7, <2>9, ConstantsAssumption DEF CountInv
<1> QED
  BY <1>4, <1>5 DEF CountInv

(* A step that leaves the attempts alone returns nothing.                  *)
LEMMA NothingReturned ==
  ASSUME UNCHANGED <<last, place, shard, attempt, reserved>>, reserved \in Int,
         \A r \in Runs : state'[r] \in Active => state[r] \in Active
  PROVE  Returns
<1>1. Spent' = Spent \ {} /\ {} \in SUBSET Spent
  BY DEF Spent
<1>2. reserved' = reserved - Cardinality({})
  BY FS_EmptySet
<1> QED
  BY <1>1, <1>2 DEF Returns

(* Attempts that stay spent return nothing.                                *)
LEMMA SpentStays ==
  ASSUME TypeOK, NEW L \in SUBSET Spent, NEW a, a \notin Unspent, SetAttempt(L, a),
         UNCHANGED <<last, place, shard, reserved>>,
         \A r \in Runs : state'[r] \in Active => state[r] \in Active
  PROVE  Returns
<1>1. Spent' = Spent \ {} /\ {} \in SUBSET Spent
  BY DEF Spent, SetAttempt
<1>2. reserved' = reserved - Cardinality({})
  BY FS_EmptySet DEF TypeOK
<1> QED
  BY <1>1, <1>2 DEF Returns

(* Attempts that are refunded are returned exactly.                        *)
LEMMA SpentReturned ==
  ASSUME TypeOK, NEW s \in SUBSET Spent, NEW a \in Unspent, SetAttempt(s, a), Refund(s),
         UNCHANGED <<last, place, shard>>,
         \A r \in Runs : state'[r] \in Active => state[r] \in Active
  PROVE  Returns
<1>1. Spent' = Spent \ s
  BY DEF Spent, SetAttempt
<1> QED
  BY <1>1 DEF Returns, Refund

(* The attempt of an active or lost Run is spent.                          *)
LEMMA ActiveIsSpent ==
  ASSUME IInv, NEW r \in Runs, state[r] \in Active \union {"lost"}
  PROVE  Latest(r) \in Spent
<1>1. last[r] > 0 /\ attempt[Latest(r)] = state[r]
  BY DEF IInv, Safe, RecordInv, RecordOK
<1>2. Latest(r) \in Lease
  BY <1>1, LatestLease DEF IInv, Safe
<1> QED
  BY <1>1, <1>2 DEF Spent, Unspent, Active

\* The leases of a shard that is submitted are the latest of their Runs.
LEMMA ShardRuns ==
  ASSUME TypeOK, NEW s \in SUBSET Lease
  PROVE  RunsOf(s) \in SUBSET Runs
BY LeaseParts DEF RunsOf

(* The steps of the operator, the planner and the members.                 *)
LEMMA PlannerReturns == IInv /\ (OperatorSteps \/ PlannerSteps \/ ExternalSteps) => Returns
<1> SUFFICES ASSUME IInv, OperatorSteps \/ PlannerSteps \/ ExternalSteps PROVE Returns
  OBVIOUS
<1>0. reserved \in Int /\ state \in [Runs -> RunState]
  BY DEF IInv, TypeOK
<1>1. /\ UNCHANGED <<last, place, shard, attempt, reserved>>
      /\ \/ state' = state
         \/ \E R \in SUBSET Runs, s \in {"planned", "cancelled"} : SetState(R, s)
  <2>1. CASE OperatorSteps
    BY <2>1 DEF OperatorSteps, RequestPause, BeginResume, FinishResume, SetMemberState, UpdateFleet, ledger
  <2>2. CASE PlannerSteps
    BY <2>2 DEF PlannerSteps, Enqueue, ReplanUnstarted, CancelPlanned, RetryLost, WithdrawPlanned
  <2>3. CASE ExternalSteps
    BY <2>3 DEF ExternalSteps, ExecutorDecides, WorkerEnds, BackoffElapses, BudgetExpires, ledger
  <2> QED
    BY <2>1, <2>2, <2>3
<1>2. \A r \in Runs : state'[r] \in Active => state[r] \in Active
  BY <1>0, <1>1 DEF SetState, Active
<1> QED
  BY <1>0, <1>1, <1>2, NothingReturned

(* An unavailable member keeps its leases.                                 *)
LEMMA UnavailableReturns ==
  ASSUME IInv, NEW c, MarkUnavailable(c)
  PROVE  Returns
<1> DEFINE owned == {r \in Runs : state[r] \in Owned /\ place[Latest(r)] = c}
           L == {Latest(r) : r \in owned}
<1>1. L \in SUBSET Spent
  BY ActiveIsSpent DEF Owned
<1>2. \A r \in Runs : state'[r] \in Active => state[r] \in Active
  BY DEF MarkUnavailable, SetState, Owned
<1>3. SetAttempt(L, "unknown_remote") /\ UNCHANGED <<last, place, shard, reserved>>
  BY DEF MarkUnavailable
<1>4. "unknown_remote" \notin Unspent /\ TypeOK
  BY DEF Unspent, IInv
<1> HIDE DEF L
<1> QED
  BY <1>1, <1>2, <1>3, <1>4, SpentStays

(* Dispatch lends, or returns the shards it withdraws or sees refused.     *)
LEMMA DispatchReturns == IInv /\ CarefulDispatch => PlanShards \/ Returns
<1> SUFFICES ASSUME IInv, CarefulDispatch PROVE PlanShards \/ Returns
  OBVIOUS
<1> TypeOK /\ LeaseInv /\ ShardInv /\ RecordInv /\ RemoteInv /\ InflightInv
  BY DEF IInv, Safe
<1>0. "leased" \in Active /\ "unknown_remote" \in Active /\ "queued" \in Active
      /\ "unknown_remote" \notin Unspent /\ "queued" \notin Unspent
      /\ "withdrawn_before_submit" \in Unspent /\ "rejected" \in Unspent
      /\ "planned" \notin Active /\ "failed" \notin Active
  BY DEF Active, Unspent
<1>1. ASSUME NEW s \in KnownShards, Submittable(s)
      PROVE  /\ RunsOf(s) \in SUBSET Runs /\ Latests(s) \in SUBSET Spent
             /\ \A r \in RunsOf(s) : state[r] \in Active
  <2>1. RunsOf(s) \in SUBSET Runs
    BY ShardOfLeases, ShardRuns
  <2>2. \A r \in RunsOf(s) : state[r] \in Active
    BY <1>0, <1>1 DEF Submittable, Unsubmitted
  <2> QED
    BY <2>1, <2>2, ActiveIsSpent DEF Latests
<1>2. ASSUME NEW s \in KnownShards, SubmitFence(s) PROVE Returns
  <2>1. Submittable(s) /\ SetAttempt(Latests(s), "unknown_remote")
        /\ UNCHANGED <<last, place, shard, reserved>>
    BY <1>2 DEF SubmitFence
  <2>2. \A r \in Runs : state'[r] \in Active => state[r] \in Active
    BY <1>1, <1>2, <2>1 DEF SubmitFence, SetState
  <2> QED
    BY <1>0, <1>1, <2>1, <2>2, SpentStays
<1>3. ASSUME NEW s \in KnownShards, Current(s), SubmitWithdraw(s) PROVE Returns
  <2>1. Submittable(s) /\ SetAttempt(s, "withdrawn_before_submit") /\ Refund(s)
        /\ UNCHANGED <<last, place, shard>>
    BY <1>3 DEF SubmitWithdraw, Current
  <2>2. \A r \in Runs : state'[r] \in Active => state[r] \in Active
    BY <1>0, <1>3 DEF SubmitWithdraw, SetState
  <2>3. s \in SUBSET Spent
    BY <1>1, <1>3, <2>1 DEF Current
  <2> QED
    BY <1>0, <2>1, <2>2, <2>3, SpentReturned
<1>4. ASSUME NEW s \in inflight, SubmitAcknowledged(s) PROVE Returns
  <2>1. s \in SUBSET Lease
    BY DEF TypeOK
  <2>2. \A l \in Queued(s) : l \in Spent /\ l[1] \in Runs /\ state[l[1]] \in Active
    <3> SUFFICES ASSUME NEW l \in Queued(s)
                 PROVE  l \in Spent /\ l[1] \in Runs /\ state[l[1]] \in Active
      OBVIOUS
    <3>1. l \in Lease /\ l[1] \in Runs /\ l = Latest(l[1]) /\ attempt[l] = "unknown_remote"
      BY <2>1, LeaseParts DEF Queued
    <3>2. last[l[1]] > 0
      BY <3>1, UsedIsLatest
    <3>3. state[l[1]] = attempt[l]
      BY <1>0, <3>1, <3>2, OwnersOfRecord
    <3> QED
      BY <1>0, <3>1, <3>3 DEF Spent
  <2>3. SetAttempt(Queued(s), "queued") /\ UNCHANGED <<last, place, shard, reserved>>
        /\ SetState(RunsOf(Queued(s)), "queued")
    BY <1>4 DEF SubmitAcknowledged
  <2>4. \A r \in Runs : state'[r] \in Active => state[r] \in Active
    BY <2>2, <2>3 DEF SetState, RunsOf
  <2>5. Queued(s) \in SUBSET Spent
    BY <2>2
  <2> QED
    BY <1>0, <2>3, <2>4, <2>5, SpentStays
<1>5. ASSUME NEW s \in inflight, SubmitRejected(s) PROVE Returns
  <2>1. \A l \in s : /\ l \in Lease /\ l[1] \in Runs /\ attempt[l] \in Owned
                     /\ l = Latest(l[1]) /\ l \in Spent
    <3> SUFFICES ASSUME NEW l \in s
                 PROVE  /\ l \in Lease /\ l[1] \in Runs /\ attempt[l] \in Owned
                        /\ l = Latest(l[1]) /\ l \in Spent
      OBVIOUS
    <3>1. l \in Lease /\ l[1] \in Runs
      BY LeaseParts DEF TypeOK
    <3>2. attempt[l] \in Owned
      BY <1>5 DEF SubmitRejected, InflightInv
    <3>3. l = Latest(l[1])
      BY <3>1, <3>2, UsedIsLatest DEF Owned, Active
    <3> QED
      BY <3>1, <3>2, <3>3 DEF Spent, Owned, Active, Unspent
  <2>2. Latests(s) = s
    BY <2>1 DEF Latests, RunsOf
  <2>3. SetAttempt(s, "rejected") /\ Refund(s) /\ UNCHANGED <<last, place, shard>>
    BY <1>5, <2>2 DEF SubmitRejected
  <2>4. \A r \in Runs : state'[r] \in Active => state[r] \in Active
    BY <1>0, <1>5 DEF SubmitRejected, SetState
  <2>5. s \in SUBSET Spent
    BY <2>1
  <2> QED
    BY <1>0, <2>3, <2>4, <2>5, SpentReturned
<1>6. ASSUME NEW s \in inflight, SubmitAmbiguous(s) PROVE Returns
  BY <1>6, UnavailableReturns DEF SubmitAmbiguous
<1>7. CASE DriverCrash
  BY <1>7, NothingReturned DEF DriverCrash, ledger, TypeOK
<1> QED
  BY <1>2, <1>3, <1>4, <1>5, <1>6, <1>7 DEF CarefulDispatch

(* Observations and results return nothing.                                *)
LEMMA ReconcileReturns == IInv /\ ReconcileSteps => Returns
<1> SUFFICES ASSUME IInv, ReconcileSteps PROVE Returns
  OBVIOUS
<1> TypeOK /\ LeaseInv /\ RecordInv /\ RemoteInv
  BY DEF IInv, Safe
<1>1. ASSUME NEW l \in Lease, NEW s \in Reported(l), Observe(l, s) PROVE Returns
  <2>1. l[1] \in Runs /\ l = Latest(l[1]) /\ state[l[1]] \notin Terminal /\ attempt[l] # "lost"
    BY <1>1, LeaseParts DEF Observe
  <2>2. remote[l] # "absent" \/ state[l[1]] \in Owned
    BY <1>1 DEF Observe, Selected
  <2>3. attempt[l] \notin {"none", "withdrawn_before_submit"}
    <3>1. CASE remote[l] # "absent"
      BY <3>1 DEF RemoteInv, Agrees
    <3>2. CASE state[l[1]] \in Owned
      BY <2>1, <3>2 DEF RecordInv, RecordOK, Owned, Active
    <3> QED
      BY <2>2, <3>1, <3>2
  <2>4. last[l[1]] > 0
    BY <2>1, <2>3, UsedIsLatest
  <2>5. state[l[1]] \in Active
    <3>1. state[l[1]] \in RunState
      BY <2>1 DEF TypeOK
    <3>2. state[l[1]] # "absent" /\ state[l[1]] # "planned" /\ state[l[1]] # "lost"
      BY <2>1, <2>3, <2>4 DEF RecordInv, RecordOK
    <3> QED
      BY <2>1, <3>1, <3>2 DEF RunState
  <2>6. l \in Spent
    BY <2>1, <2>5, ActiveIsSpent
  <2>7. SetAttempt({l}, s) /\ SetState({l[1]}, s) /\ UNCHANGED <<last, place, shard, reserved>>
    BY <1>1 DEF Observe
  <2>8. s \notin Unspent
    BY DEF Reported, Unspent
  <2>9. \A r \in Runs : state'[r] \in Active => state[r] \in Active
    BY <2>5, <2>7 DEF SetState
  <2> QED
    BY <2>6, <2>7, <2>8, <2>9, SpentStays
<1>2. ASSUME NEW l \in Lease, NEW o \in Outcomes, IngestAccept(l, o) PROVE Returns
  <2>1. l[1] \in Runs /\ l = Latest(l[1]) /\ state[l[1]] \in Active
    BY <1>2, LeaseParts DEF IngestAccept, Contradicts
  <2>2. l \in Spent
    BY <2>1, ActiveIsSpent
  <2>3. SetAttempt({l}, o) /\ SetState({l[1]}, o) /\ UNCHANGED <<last, place, shard, reserved>>
    BY <1>2 DEF IngestAccept
  <2>4. o \notin Unspent
    BY ConstantsAssumption DEF Unspent
  <2>5. \A r \in Runs : state'[r] \in Active => state[r] \in Active
    BY <2>1, <2>3 DEF SetState
  <2> QED
    BY <2>2, <2>3, <2>4, <2>5, SpentStays
<1>3. ASSUME NEW l \in Lease, NEW o \in Outcomes, IngestQuarantine(l, o) PROVE Returns
  BY <1>3, NothingReturned DEF IngestQuarantine, ledger, TypeOK
<1>4. ASSUME NEW c \in Clusters, MarkUnreachable(c) PROVE Returns
  BY <1>4, UnavailableReturns DEF MarkUnreachable
<1>5. ASSUME NEW c \in Clusters, ReconcileSucceeded(c) PROVE Returns
  BY <1>5, NothingReturned DEF ReconcileSucceeded, ledger, TypeOK
<1> QED
  BY <1>1, <1>2, <1>3, <1>4, <1>5 DEF ReconcileSteps

(* An empty ledger spent nothing.                                          *)
LEMMA CountInit == Init => CountInv
<1> SUFFICES ASSUME Init PROVE CountInv
  OBVIOUS
<1>1. Spent = {} /\ \A c \in Clusters : ActiveOn(c) = {} /\ Pending(c) = {} /\ ShardsOn(c) = {}
  BY DEF Init, Spent, Unspent, ActiveOn, Pending, ShardsOn, Active
<1>2. Cardinality({}) = 0
  BY FS_EmptySet
<1>3. reserved = 0 /\ RunBudget \in Nat
  BY ConstantsAssumption DEF Init
<1>4. ASSUME NEW c \in Clusters
      PROVE  /\ Cardinality(Pending(c)) <= Capacity[c]
             /\ Cardinality(ActiveOn(c)) <= 2 * Capacity[c]
             /\ Cardinality(ActiveOn(c)) <= RunCap[c]
             /\ Cardinality(ShardsOn(c)) <= JobCap[c]
  <2>1. Capacity[c] \in Nat /\ RunCap[c] \in Nat /\ JobCap[c] \in Nat
    BY ConstantsAssumption
  <2>2. ActiveOn(c) = {} /\ Pending(c) = {} /\ ShardsOn(c) = {}
    BY <1>1
  <2> QED
    BY <1>2, <2>1, <2>2
<1> QED
  BY <1>1, <1>2, <1>3, <1>4 DEF CountInv

(***************************************************************************)
(* The counter is exact, and no member is lent more than its limits, until *)
(* a lease that never got a Job is replaced.                               *)
(***************************************************************************)
Counted == ~overtaken => CountInv

THEOREM Counts == Spec => []Counted
<1>1. Guarded /\ Counted /\ [Next]_vars => Counted'
  <2> SUFFICES ASSUME Guarded, Counted, [Next]_vars, ~overtaken' PROVE CountInv'
    BY DEF Counted
  <2>1. Careful /\ IInv /\ CountInv
    BY Remembered DEF Guarded, Careful, Counted
  <2>2. UNCHANGED vars => Returns
    BY <2>1, NothingReturned DEF IInv, TypeOK, vars, ledger
  <2>3. [CarefulNext]_vars
    BY <2>1, CarefulMoves
  <2>4. PlanShards \/ Returns
    BY <2>1, <2>2, <2>3, PlannerReturns, DispatchReturns, ReconcileReturns DEF CarefulNext
  <2> QED
    BY <2>1, <2>4, PlanCounts, ReturnsCounts, ResidentStays
<1>2. Init => Counted
  BY CountInit DEF Counted
<1> QED
  BY <1>1, <1>2, Invariance, PTL DEF Spec

(***************************************************************************)
(* What is leased to a member and not taken up fits its capacity, it is    *)
(* sent no more than that beside the wave it works on, and its caps hold.  *)
(***************************************************************************)
THEOREM NeverOverbooks == Spec => []NoOverbooking
<1>1. Guarded /\ Counted /\ LiveIsOwned => NoOverbooking
  <2> SUFFICES ASSUME IInv, CountInv, LiveIsOwned, ~overtaken, NEW c \in Clusters
               PROVE  Cardinality({l \in Lease : place[l] = c /\ remote[l] \in Live})
                        <= 2 * Capacity[c]
    BY DEF NoOverbooking, CountInv, Counted, Guarded, Careful, Pending
  <2> DEFINE live == {l \in Lease : place[l] = c /\ remote[l] \in Live}
             f == [l \in live |-> l[1]]
  <2>1. \A l \in live : l = Latest(l[1]) /\ l[1] \in ActiveOn(c)
    BY LeaseParts DEF LiveIsOwned, ActiveOn, Owned
  <2>2. f \in [live -> ActiveOn(c)] /\ \A x, y \in live : f[x] = f[y] => x = y
    BY <2>1
  <2>3. IsFiniteSet(live) /\ Cardinality(live) \in Nat
    BY FiniteLease, FS_CardinalityType
  <2>4. Cardinality(live) <= Cardinality(ActiveOn(c))
    <3> HIDE DEF f, live
    <3> QED
      BY <2>2, FiniteActive, AtMost
  <2> QED
    BY <2>3, <2>4, FiniteActive, ConstantsAssumption DEF CountInv
<1> QED
  BY <1>1, Counts, LiveWorkIsOwned, Invariance, PTL

(***************************************************************************)
(* An attempt an executor took was never refunded.                         *)
(***************************************************************************)
THEOREM StaysInBudget == Spec => []BudgetCoversWork
<1>1. Guarded /\ Counted => BudgetCoversWork
  <2> SUFFICES ASSUME IInv, CountInv PROVE Cardinality(Resident) <= RunBudget
    BY DEF Guarded, Careful, Counted, BudgetCoversWork
  <2>1. Resident \subseteq Spent
    BY DEF IInv, Safe, RemoteInv, Agrees, Resident, Spent, Unspent
  <2>2. IsFiniteSet(Spent)
    BY FiniteLease DEF Spent
  <2>3. Cardinality(Resident) <= Cardinality(Spent) /\ Cardinality(Resident) \in Nat
        /\ Cardinality(Spent) \in Nat
    BY <2>1, <2>2, Smaller
  <2> QED
    BY <2>3, ConstantsAssumption DEF CountInv
<1> QED
  BY <1>1, Counts, Invariance, PTL

(***************************************************************************)
(* attempts_reserved is what the attempts say.                             *)
(***************************************************************************)
THEOREM RefundsBalance == Spec => []Accounting
<1>1. Counted => Accounting
  BY DEF Counted, CountInv, Accounting, Spent
<1> QED
  BY <1>1, Counts, PTL

(***************************************************************************)
(* What a planning step decides: the Runs it lends are those the loop over *)
(* all planned Runs places, in their order.                                *)
(***************************************************************************)
LEMMA Deciding ==
  ASSUME PlanShards
  PROVE  \E chosen \in SUBSET {r \in Runs : state[r] = "planned" /\ last[r] < MaxAttempts},
            wave \in Nat, room \in [Clusters -> Nat] :
         \E choice \in [chosen -> Clusters] :
           /\ Greedy(choice, {r \in Runs : state[r] = "planned" /\ last[r] < MaxAttempts}, room, wave)
           /\ SetState(chosen, "leased")
<1> DEFINE planned == {r \in Runs : state[r] = "planned" /\ last[r] < MaxAttempts}
<1>1. PICK chosen \in SUBSET planned, seen \in SUBSET Resident, wave \in 1..Cardinality(Runs) :
        \E slots \in {f \in [Clusters -> UNION {0..Capacity[c] : c \in Clusters}] :
                        Honest(f, seen)} :
        \E choice \in [chosen -> Clusters] :
          LET room == [c \in Clusters |-> Room(c, slots, seen)] IN
          /\ Greedy(choice, planned, room, wave)
          /\ Lend(choice)
  BY DEF PlanShards
<1>2. PICK slots \in {f \in [Clusters -> UNION {0..Capacity[c] : c \in Clusters}] : Honest(f, seen)},
           choice \in [chosen -> Clusters] :
          /\ Greedy(choice, planned, [c \in Clusters |-> Room(c, slots, seen)], wave)
          /\ Lend(choice)
  BY <1>1
<1>3. \A c \in Clusters : slots[c] \in Nat
  BY ConstantsAssumption
<1>4. \A c \in Clusters : Room(c, slots, seen) \in Nat
  <2> SUFFICES ASSUME NEW c \in Clusters PROVE Room(c, slots, seen) \in Nat
    OBVIOUS
  <2> DEFINE unseen == {r \in ActiveOn(c) : Latest(r) \notin seen}
  <2>1. Cardinality(unseen) \in Nat
    BY FiniteActive, Smaller
  <2>2. Room(c, slots, seen) = IF slots[c] <= Cardinality(unseen) THEN 0
                               ELSE slots[c] - Cardinality(unseen)
    BY DEF Room
  <2> QED
    BY <1>3, <2>1, <2>2
<1>5. [c \in Clusters |-> Room(c, slots, seen)] \in [Clusters -> Nat]
  BY <1>4
<1>6. wave \in Nat
  BY ConstantsAssumption, FS_CardinalityType
<1>7. DOMAIN choice = chosen
  OBVIOUS
<1>8. SetState(chosen, "leased")
  BY <1>2, <1>7 DEF Lend
<1> QED
  BY <1>2, <1>5, <1>6, <1>8

(***************************************************************************)
(* A limit that stops the more urgent Run stops the less urgent one too:   *)
(* the loop has placed no fewer Runs when it comes to that.                *)
(***************************************************************************)
LEMMA LaterIsFull ==
  ASSUME NEW n \in Nat, NEW m \in Nat, n <= m, NEW wave \in Nat, reserved \in Int, Full(n, wave)
  PROVE  Full(m, wave)
BY ConstantsAssumption DEF Full

LEMMA LaterIsExcluded ==
  ASSUME NEW r \in Runs, NEW q \in Runs, Compatible[q] \subseteq Compatible[r],
         NEW c \in Clusters, NEW room \in [Clusters -> Nat],
         NEW n \in Nat, NEW m \in Nat, n <= m, Excluded(r, c, room, n)
  PROVE  Excluded(q, c, room, m)
<1>1. Cardinality(ActiveOn(c)) \in Nat /\ RunCap[c] \in Nat /\ room[c] \in Nat
  BY FiniteActive, ConstantsAssumption
<1>2. room[c] <= n => room[c] <= m
  BY <1>1
<1>3. Cardinality(ActiveOn(c)) + n >= RunCap[c] => Cardinality(ActiveOn(c)) + m >= RunCap[c]
  BY <1>1
<1> QED
  BY <1>2, <1>3 DEF Excluded

(***************************************************************************)
(* The loop overtakes no Run that could take the place of the overtaker.   *)
(***************************************************************************)
LEMMA GreedyIsFair ==
  ASSUME TypeOK, NEW planned \in SUBSET Runs, NEW chosen \in SUBSET planned,
         NEW wave \in Nat, NEW room \in [Clusters -> Nat], NEW choice \in [chosen -> Clusters],
         Greedy(choice, planned, room, wave),
         NEW r \in planned, NEW q \in chosen, Before(r, q),
         Compatible[q] \subseteq Compatible[r]
  PROVE  r \in chosen
<1> SUFFICES ASSUME r \notin chosen PROVE FALSE
  OBVIOUS
<1> DEFINE earlier(p) == {x \in chosen : Before(x, p)}
           there(p, c) == {x \in earlier(p) : choice[x] = c}
<1>1. DOMAIN choice = chosen /\ chosen \subseteq Runs /\ r \in Runs /\ q \in Runs
  OBVIOUS
<1>2. /\ ~ Full(Cardinality(earlier(q)), wave)
      /\ ~ Excluded(q, choice[q], room, Cardinality(there(q, choice[q])))
  BY <1>1 DEF Greedy
<1>3. \/ Full(Cardinality(earlier(r)), wave)
      \/ \A c \in Clusters : Excluded(r, c, room, Cardinality(there(r, c)))
  BY <1>1 DEF Greedy
<1>4. earlier(r) \in SUBSET earlier(q)
  <2> SUFFICES ASSUME NEW p \in earlier(r) PROVE Before(p, q)
    OBVIOUS
  <2>1. p \in Runs /\ Before(p, r) /\ Before(r, q)
    BY <1>1
  <2> QED
    BY <1>1, <2>1, BeforeIsOrder
<1>5. IsFiniteSet(earlier(q))
  <2>1. earlier(q) \in SUBSET Runs
    BY <1>1
  <2> HIDE DEF earlier
  <2> QED
    BY <2>1, ConstantsAssumption, FS_Subset
<1>6. /\ Cardinality(earlier(r)) \in Nat /\ Cardinality(earlier(q)) \in Nat
      /\ Cardinality(earlier(r)) <= Cardinality(earlier(q))
  <2> HIDE DEF earlier
  <2> QED
    BY <1>4, <1>5, Smaller
<1>7. ASSUME NEW c \in Clusters
      PROVE  /\ Cardinality(there(r, c)) \in Nat /\ Cardinality(there(q, c)) \in Nat
             /\ Cardinality(there(r, c)) <= Cardinality(there(q, c))
  <2>1. there(r, c) \in SUBSET there(q, c)
    BY <1>4
  <2>2. there(q, c) \in SUBSET earlier(q)
    OBVIOUS
  <2>3. IsFiniteSet(there(q, c))
    <3> HIDE DEF earlier, there
    <3> QED
      BY <1>5, <2>2, FS_Subset
  <2> HIDE DEF there
  <2> QED
    BY <2>1, <2>3, Smaller
<1>8. reserved \in Int /\ choice[q] \in Clusters
  BY DEF TypeOK
<1> HIDE DEF earlier, there
<1>9. CASE Full(Cardinality(earlier(r)), wave)
  BY <1>2, <1>6, <1>8, <1>9, LaterIsFull
<1>10. CASE \A c \in Clusters : Excluded(r, c, room, Cardinality(there(r, c)))
  <2>1. Excluded(r, choice[q], room, Cardinality(there(r, choice[q])))
    BY <1>8, <1>10
  <2> QED
    BY <1>1, <1>2, <1>7, <1>8, <2>1, LaterIsExcluded
<1> QED
  BY <1>3, <1>9, <1>10

(* Only plan_shards leases a planned Run.                                  *)
LEMMA OnlyPlanLeases ==
  ASSUME Next, NEW q \in Runs, state[q] = "planned", state'[q] = "leased"
  PROVE  PlanShards
<1> SUFFICES ASSUME ~ PlanShards PROVE FALSE
  OBVIOUS
<1>1. CASE OperatorSteps
  BY <1>1 DEF OperatorSteps, RequestPause, BeginResume, FinishResume, SetMemberState,
     UpdateFleet, ledger
<1>2. CASE PlannerSteps
  BY <1>2 DEF PlannerSteps, Enqueue, ReplanUnstarted, CancelPlanned, RetryLost, WithdrawPlanned,
     SetState
<1>3. ASSUME NEW R, NEW s, SetState(R, s), s # "leased" PROVE FALSE
  BY <1>3 DEF SetState
<1>4. state' # state
  OBVIOUS
<1>5. CASE DispatchSteps
  BY <1>3, <1>4, <1>5 DEF DispatchSteps, SubmitFence, SubmitWithdraw, SubmitAcknowledged,
     SubmitRejected, SubmitAmbiguous, MarkUnavailable, DriverCrash, ledger
<1>6. CASE ReconcileSteps
  <2>1. "leased" \notin Outcomes /\ \A l \in Lease : "leased" \notin Reported(l)
    BY ConstantsAssumption DEF Reported
  <2>2. ASSUME NEW l \in Lease, NEW s \in Reported(l), Observe(l, s) PROVE FALSE
    BY <1>3, <2>1, <2>2 DEF Observe
  <2>3. ASSUME NEW l \in Lease, NEW o \in Outcomes, IngestAccept(l, o) PROVE FALSE
    BY <1>3, <2>1, <2>3 DEF IngestAccept
  <2>4. ASSUME NEW l \in Lease, NEW o \in Outcomes, IngestQuarantine(l, o) PROVE FALSE
    BY <1>4, <2>4 DEF IngestQuarantine, ledger
  <2>5. ASSUME NEW c \in Clusters, MarkUnreachable(c) \/ ReconcileSucceeded(c) PROVE FALSE
    BY <1>3, <1>4, <2>5 DEF MarkUnreachable, MarkUnavailable, ReconcileSucceeded, ledger
  <2> QED
    BY <1>6, <2>2, <2>3, <2>4, <2>5 DEF ReconcileSteps
<1>7. CASE ExternalSteps
  BY <1>4, <1>7 DEF ExternalSteps, ExecutorDecides, WorkerEnds, BackoffElapses, BudgetExpires, ledger
<1> QED
  BY <1>1, <1>2, <1>5, <1>6, <1>7 DEF Next

(* A step of the planner keeps the order, and no other step leases.        *)
LEMMA UrgentStep ==
  TypeOK /\ [Next]_vars =>
    [\A r, q \in Runs :
       /\ state[r] = "planned" /\ state[q] = "planned" /\ last[r] < MaxAttempts
       /\ PriorityRank[priority[r]] < PriorityRank[priority[q]]
       /\ Compatible[q] \subseteq Compatible[r]
       /\ state'[q] = "leased"
       => state'[r] = "leased"]_vars
<1> SUFFICES ASSUME TypeOK, Next, NEW r \in Runs, NEW q \in Runs,
                    state[r] = "planned", state[q] = "planned", last[r] < MaxAttempts,
                    PriorityRank[priority[r]] < PriorityRank[priority[q]],
                    Compatible[q] \subseteq Compatible[r], state'[q] = "leased"
             PROVE  state'[r] = "leased"
  BY DEF vars
<1> DEFINE planned == {p \in Runs : state[p] = "planned" /\ last[p] < MaxAttempts}
<1>1. PlanShards
  BY OnlyPlanLeases
<1>2. PICK chosen \in SUBSET planned, wave \in Nat, room \in [Clusters -> Nat] :
       \E choice \in [chosen -> Clusters] :
         Greedy(choice, planned, room, wave) /\ SetState(chosen, "leased")
  BY <1>1, Deciding
<1>3. PICK choice \in [chosen -> Clusters] :
        Greedy(choice, planned, room, wave) /\ SetState(chosen, "leased")
  BY <1>2
<1>4. q \in chosen
  BY <1>3 DEF SetState
<1>5. r \in planned /\ Before(r, q)
  BY DEF Before
<1>6. r \in chosen
  BY <1>3, <1>4, <1>5, GreedyIsFair
<1> QED
  BY <1>3, <1>6 DEF SetState

(***************************************************************************)
(* Whatever the offers, the caps and the wave, plan_shards leases no Run   *)
(* before a more urgent one that could go wherever it can go.              *)
(***************************************************************************)
THEOREM UrgentFirst == Spec => UrgentRunsFirst
<1> QED
  BY UrgentStep, TypeCorrect, PTL DEF Spec, UrgentRunsFirst
=============================================================================
