-------------------------- MODULE StudyRefinementProofs --------------------------
(***************************************************************************)
(* StudyCoordinator implements ExclusiveRuns: every step of the ledger, of *)
(* its executors or of its clock is a step of the promise or changes       *)
(* nothing of it.                                                          *)
(***************************************************************************)
EXTENDS StudyCoordinatorProofs

Promised == [Promise!Next]_(Promise!vars)

\* Steps that move no owner, nothing alive and no evidence.
LEMMA Stutter ==
  UNCHANGED <<last, Owners, Alive, Settled>> => Promised
BY DEF Promised, Promise!vars

\* Only an owner that was sent can have something alive.
LEMMA AliveIsOwned ==
  ASSUME IInv, NEW r \in Runs
  PROVE  /\ Alive[r] \subseteq {last[r]}
         /\ state[r] \notin Owned => Alive[r] = {}
         /\ last[r] > 0 /\ remote[Latest(r)] \notin Live => Alive[r] = {}
<1> TypeOK /\ LeaseInv /\ RecordInv /\ RemoteInv
  BY DEF IInv, Safe
<1> SUFFICES ASSUME NEW a \in 1..MaxAttempts, remote[<<r, a>>] \in Live
             PROVE  a = last[r] /\ <<r, a>> = Latest(r) /\ state[r] \in Owned
  BY DEF Alive
<1> DEFINE l == <<r, a>>
<1>1. l \in Lease /\ l[1] = r /\ l[2] = a
  BY LeaseParts
<1>2. attempt[l] \in Owned
  BY <1>1 DEF RemoteInv, Agrees, Live, TypeOK, AttemptState, Unspent, Owned
<1>3. l = Latest(r) /\ last[r] > 0
  BY <1>1, <1>2, UsedIsLatest DEF Owned, Active
<1>4. a = last[r]
  BY <1>1, <1>3, LatestLease
<1>5. state[r] \in Owned
  BY <1>2, <1>3, OwnersOfRecord DEF Owned
<1> QED
  BY <1>3, <1>4, <1>5

\* Alive and Settled depend on remote and accepted only.
LEMMA SameParts ==
  /\ UNCHANGED state => UNCHANGED Owners
  /\ UNCHANGED remote => UNCHANGED Alive
  /\ UNCHANGED accepted => UNCHANGED Settled
BY DEF Owners, Alive, Settled

LEMMA PromisedOperator == IInv /\ OperatorSteps => Promised
<1> SUFFICES ASSUME OperatorSteps PROVE Promised
  OBVIOUS
<1>1. UNCHANGED <<last, state, remote, accepted>>
  BY DEF OperatorSteps, RequestPause, BeginResume, FinishResume, SetMemberState, UpdateFleet, ledger
<1> QED
  BY <1>1, SameParts, Stutter

LEMMA PromisedPlanner == IInv /\ PlannerSteps => Promised
<1> SUFFICES ASSUME PlannerSteps PROVE Promised
  OBVIOUS
<1>1. UNCHANGED <<last, remote, accepted>>
  BY DEF PlannerSteps, Enqueue, ReplanUnstarted, CancelPlanned, RetryLost, WithdrawPlanned
<1>2. \A q \in Runs : state'[q] \in Active <=> state[q] \in Active
  BY DEF PlannerSteps, Enqueue, ReplanUnstarted, CancelPlanned, RetryLost, Retryable,
     WithdrawPlanned, SetState, Active
<1>3. UNCHANGED Owners
  BY <1>2 DEF Owners
<1> QED
  BY <1>1, <1>3, SameParts, Stutter

LEMMA PromisedExternal == IInv /\ ExternalSteps => Promised
<1> SUFFICES ASSUME IInv, ExternalSteps PROVE Promised
  OBVIOUS
<1> TypeOK
  BY DEF IInv
<1>1. UNCHANGED <<last, state, accepted>>
  BY DEF ExternalSteps, ExecutorDecides, WorkerEnds, BackoffElapses, BudgetExpires, ledger
<1>2. ASSUME NEW L \in SUBSET Lease, NEW s, SetRemote(L, s), s \notin Live
      PROVE  Promised
  <2> DEFINE R == {r \in Runs : Alive'[r] # Alive[r]}
  <2>1. \A l \in Lease : remote'[l] = IF l \in L THEN s ELSE remote[l]
    BY <1>2 DEF SetRemote
  <2>2. \A r \in Runs : Alive[r] \subseteq {last[r]} /\ Alive'[r] \subseteq Alive[r]
    BY <1>2, <2>1, AliveIsOwned, LeaseParts DEF Alive
  <2>3. \A r \in R : Alive'[r] = {}
    BY <2>2
  <2>4. Alive' = [r \in Runs |-> IF r \in R THEN {} ELSE Alive[r]]
    <3>1. Alive' = [r \in Runs |-> Alive'[r]]
      BY DEF Alive
    <3> QED
      BY <2>3, <3>1
  <2>5. Promise!Stop(R)
    BY <1>1, <2>4, SameParts DEF Promise!Stop
  <2> QED
    BY <2>5 DEF Promised, Promise!Next
<1>3. ASSUME NEW L \in SUBSET Lease, NEW s \in Live, SetRemote(L, s),
             \A l \in L : remote[l] \in Live
      PROVE  Promised
  <2>1. \A l \in Lease : remote'[l] \in Live <=> remote[l] \in Live
    BY <1>3 DEF SetRemote
  <2>2. UNCHANGED Alive
    BY <2>1, LeaseParts DEF Alive
  <2> QED
    BY <1>1, <2>2, SameParts, Stutter
<1>4. ASSUME NEW s \in KnownShards, NEW a \in {"accepted", "refused"}, ExecutorDecides(s, a)
      PROVE  Promised
  <2>1. s \in SUBSET Lease /\ SetRemote(s, a) /\ \A l \in s : remote[l] \in Live
    BY <1>4, ShardOfLeases DEF ExecutorDecides, Live
  <2>2. CASE a = "accepted"
    BY <1>3, <2>1, <2>2 DEF Live
  <2>3. CASE a = "refused"
    BY <1>2, <2>1, <2>3 DEF Live
  <2> QED
    BY <2>2, <2>3
<1>5. ASSUME NEW l \in Lease, NEW s \in {"finished", "dead"}, WorkerEnds(l, s) PROVE Promised
  <2>1. {l} \in SUBSET Lease /\ SetRemote({l}, s) /\ s \notin Live
    BY <1>5 DEF WorkerEnds, Live
  <2> QED
    BY <1>2, <2>1
<1>6. CASE UNCHANGED remote
  BY <1>1, <1>6, SameParts, Stutter
<1> QED
  BY <1>4, <1>5, <1>6 DEF ExternalSteps, BackoffElapses, BudgetExpires

\* A step that moves the state of R only, keeping or giving up its ownership.
LEMMA PromisedMove ==
  ASSUME IInv, NEW R \in SUBSET Runs, NEW s, SetState(R, s),
         UNCHANGED <<last, accepted, remote>>, R \subseteq Owners,
         s \notin Active => \A r \in R : Alive[r] = {}
  PROVE  Promised
<1>1. CASE s \in Active
  <2>1. UNCHANGED Owners
    BY <1>1 DEF Owners, SetState
  <2> QED
    BY <2>1, SameParts, Stutter
<1>2. CASE s \notin Active
  <2>1. Owners' = Owners \ R
    BY <1>2 DEF Owners, SetState
  <2>2. Promise!Release(R)
    BY <1>2, <2>1, SameParts DEF Promise!Release
  <2> QED
    BY <2>2 DEF Promised, Promise!Next
<1> QED
  BY <1>1, <1>2

LEMMA PromisedUnavailable ==
  ASSUME IInv, NEW c, MarkUnavailable(c) PROVE Promised
<1> DEFINE R == {r \in Runs : state[r] \in Owned /\ place[Latest(r)] = c}
<1>1. SetState(R, "unknown_remote") /\ UNCHANGED <<last, accepted, remote>>
  BY DEF MarkUnavailable
<1>2. R \in SUBSET Runs /\ R \subseteq Owners /\ "unknown_remote" \in Active
  BY DEF Owners, Owned, Active
<1> QED
  BY <1>1, <1>2, PromisedMove

LEMMA PromisedDispatch == IInv /\ CarefulDispatch => Promised
<1> SUFFICES ASSUME IInv, CarefulDispatch PROVE Promised
  OBVIOUS
<1> TypeOK /\ LeaseInv /\ ShardInv /\ RecordInv /\ RemoteInv /\ InflightInv
  BY DEF IInv, Safe
<1>1. CASE PlanShards
  <2>1. PICK chosen \in SUBSET {r \in Runs : state[r] = "planned"} :
          \E choice \in [chosen -> Clusters] : Lend(choice)
    BY <1>1 DEF PlanShards
  <2>2. PICK choice \in [chosen -> Clusters] : Lend(choice)
    BY <2>1
  <2>3. UNCHANGED <<accepted, remote>>
    BY <1>1 DEF PlanShards
  <2>4. \A r \in chosen : r \in Runs /\ state[r] = "planned" /\ r \notin Owners
    BY <2>1 DEF Owners, Active
  <2>5. \A r \in chosen : Alive[r] = {} /\ Settled[r] = None
    BY <2>4, AliveIsOwned, OwnersOfRecord DEF Owned, Active, Settled
  <2>6. Owners' = Owners \union chosen
    BY <2>2, <2>4 DEF Owners, Lend, SetState, Active
  <2>7. last' = [r \in Runs |-> IF r \in chosen THEN last[r] + 1 ELSE last[r]]
    BY <2>2 DEF Lend
  <2>8. Promise!Grant(chosen)
    BY <2>3, <2>4, <2>5, <2>6, <2>7, SameParts DEF Promise!Grant
  <2> QED
    BY <2>1, <2>8 DEF Promised, Promise!Next
<1>2. ASSUME NEW s \in KnownShards, Current(s), SubmitFence(s) PROVE Promised
  <2> DEFINE R == RunsOf(s)
  <2>1. /\ s \in SUBSET Lease /\ R \in SUBSET Runs /\ s = {Latest(r) : r \in R}
    BY <1>2, ShardIsPlaced, LeaseParts DEF Current, Latests, RunsOf
  <2>2. /\ SetState(R, "unknown_remote") /\ UNCHANGED <<last, accepted>>
        /\ \A r \in R : state[r] = "leased"
    BY <1>2 DEF SubmitFence, Submittable, Unsubmitted
  <2>3. ASSUME NEW r \in R
        PROVE  /\ r \in Runs /\ r \in Owners /\ Alive[r] = {}
               /\ last[r] \in 1..MaxAttempts /\ remote[Latest(r)] = "absent"
    <3>1. r \in Runs /\ state[r] = "leased" /\ r \in Owners
      BY <2>1, <2>2 DEF Owners, Active
    <3>2. last[r] > 0 /\ attempt[Latest(r)] = "leased"
      BY <3>1 DEF RecordInv, RecordOK, Active
    <3>3. remote[Latest(r)] = "absent" /\ last[r] \in 1..MaxAttempts
      BY <3>1, <3>2, LatestLease, LeaseParts DEF RemoteInv, Agrees
    <3> QED
      BY <3>1, <3>3, AliveIsOwned DEF Owned
  <2>4. \A l \in Lease : remote'[l] = IF l \in s THEN "sent" ELSE remote[l]
    BY <1>2, <2>1, <2>3 DEF SubmitFence
  <2>5. Alive' = [r \in Runs |-> IF r \in R THEN {last[r]} ELSE Alive[r]]
    <3>1. ASSUME NEW r \in Runs
          PROVE  {a \in 1..MaxAttempts : remote'[<<r, a>>] \in Live}
                   = IF r \in R THEN {last[r]} ELSE Alive[r]
      <4>1. \A a \in 1..MaxAttempts : <<r, a>> \in s <=> r \in R /\ a = last[r]
        BY <2>1 DEF Latest
      <4>2. \A a \in 1..MaxAttempts :
              remote'[<<r, a>>] = IF r \in R /\ a = last[r] THEN "sent" ELSE remote[<<r, a>>]
        BY <2>4, <4>1, LeaseParts
      <4>3. Alive[r] = {a \in 1..MaxAttempts : remote[<<r, a>>] \in Live}
        BY DEF Alive
      <4>4. CASE r \in R
        BY <2>3, <4>2, <4>3, <4>4 DEF Live
      <4>5. CASE r \notin R
        BY <4>2, <4>3, <4>5
      <4> QED
        BY <4>4, <4>5
    <3> QED
      BY <3>1 DEF Alive
  <2>6. UNCHANGED Owners
    BY <2>1, <2>2 DEF Owners, SetState, Active
  <2>7. Promise!Start(R)
    BY <2>2, <2>3, <2>5, <2>6, SameParts DEF Promise!Start
  <2> QED
    BY <2>1, <2>7 DEF Promised, Promise!Next
<1>3. ASSUME NEW s \in KnownShards, SubmitWithdraw(s) PROVE Promised
  <2>1. RunsOf(s) \in SUBSET Runs
    BY ShardIsPlaced, LeaseParts DEF RunsOf
  <2>2. /\ SetState(RunsOf(s), "planned") /\ UNCHANGED <<last, accepted, remote>>
        /\ \A r \in RunsOf(s) : state[r] = "leased"
    BY <1>3 DEF SubmitWithdraw, Submittable, Unsubmitted
  <2>3. \A r \in RunsOf(s) : r \in Owners /\ Alive[r] = {}
    BY <2>1, <2>2, AliveIsOwned DEF Owners, Owned, Active
  <2> QED
    BY <2>1, <2>2, <2>3, PromisedMove
<1>4. ASSUME NEW s \in inflight, SubmitAcknowledged(s) PROVE Promised
  <2> DEFINE R == RunsOf(Queued(s))
  <2>1. s \in SUBSET Lease
    BY ShardIsPlaced DEF InflightInv
  <2>2. /\ SetState(R, "queued") /\ UNCHANGED <<last, accepted, remote>>
    BY <1>4 DEF SubmitAcknowledged
  <2>3. \A r \in R : r \in Runs /\ Latest(r) \in Lease /\ attempt[Latest(r)] = "unknown_remote"
    BY <2>1, LeaseParts DEF RunsOf, Queued
  <2>4. ASSUME NEW r \in R PROVE last[r] > 0
    <3>1. Latest(r)[2] \in 1..MaxAttempts
      BY <2>3, LeaseParts
    <3> QED
      BY <3>1, ConstantsAssumption DEF Latest
  <2>5. R \in SUBSET Runs /\ R \subseteq Owners /\ "queued" \in Active
    BY <2>3, <2>4, OwnersOfRecord DEF Owners, Active
  <2> QED
    BY <2>2, <2>5, PromisedMove
<1>5. ASSUME NEW s \in inflight, SubmitRejected(s) PROVE Promised
  <2> DEFINE R == RunsOf(s)
  <2>1. /\ s \in SUBSET Lease
        /\ \A l \in s : attempt[l] \in Owned /\ remote[l] = "refused"
    BY <1>5, ShardIsPlaced DEF InflightInv, SubmitRejected
  <2>2. SetState(R, "failed") /\ UNCHANGED <<last, accepted, remote>>
    BY <1>5 DEF SubmitRejected
  <2>3. ASSUME NEW r \in R PROVE r \in Runs /\ r \in Owners /\ Alive[r] = {}
    <3>1. PICK l \in s : r = l[1] /\ l \in Lease
      BY <2>1 DEF RunsOf
    <3>2. l = Latest(r) /\ last[r] > 0 /\ r \in Runs
      BY <2>1, <3>1, UsedIsLatest, LeaseParts DEF Owned, Active
    <3>3. state[r] \in Active /\ remote[Latest(r)] \notin Live
      BY <2>1, <3>1, <3>2, OwnersOfRecord DEF Owned, Live
    <3> QED
      BY <3>2, <3>3, AliveIsOwned DEF Owners
  <2>4. R \in SUBSET Runs /\ R \subseteq Owners
    BY <2>3
  <2> QED
    BY <2>2, <2>3, <2>4, PromisedMove
<1>6. ASSUME NEW s \in inflight, SubmitAmbiguous(s) PROVE Promised
  BY <1>6, PromisedUnavailable DEF SubmitAmbiguous
<1>7. CASE DriverCrash
  <2>1. UNCHANGED <<last, state, remote, accepted>>
    BY <1>7 DEF DriverCrash, ledger
  <2> QED
    BY <2>1, SameParts, Stutter
<1> QED
  BY <1>1, <1>2, <1>3, <1>4, <1>5, <1>6, <1>7 DEF CarefulDispatch

LEMMA PromisedReconcile == IInv /\ ReconcileSteps => Promised
<1> SUFFICES ASSUME IInv, ReconcileSteps PROVE Promised
  OBVIOUS
<1> TypeOK /\ LeaseInv /\ ShardInv /\ RecordInv /\ RemoteInv
  BY DEF IInv, Safe
<1>1. ASSUME NEW l \in Lease, NEW s \in Reported(l), Observe(l, s) PROVE Promised
  <2> DEFINE r == l[1]
  <2>1. /\ r \in Runs /\ l = Latest(r) /\ last[r] > 0 /\ {r} \in SUBSET Runs
    BY <1>1, LeaseParts, ConstantsAssumption DEF Observe, Latest
  <2>2. /\ SetState({r}, s) /\ UNCHANGED <<last, accepted, remote>>
        /\ state[r] \notin Terminal /\ attempt[l] # "lost"
        /\ remote[l] # "absent" \/ state[r] \in Owned
    BY <1>1 DEF Observe, Selected
  <2>3. r \in Owners
    <3>1. attempt[l] \in AttemptState /\ state[r] \in RunState /\ Agrees(attempt[l], remote[l])
      BY <2>1 DEF TypeOK, RemoteInv
    <3>2. state[r] \notin {"absent", "planned", "lost"}
      BY <2>1, <2>2, <3>1 DEF RecordInv, RecordOK, Agrees, Owned, Active
    <3> QED
      BY <2>1, <2>2, <3>1, <3>2 DEF RunState, Owners
  <2>4. s \notin Active => Alive[r] = {}
    <3>1. s \notin Active => remote[l] \notin Live
      <4>1. s = "lost" => remote[l] \in {"dead", "absent", "refused"}
        BY <1>1 DEF Reported, Lost
      <4> QED
        BY <4>1 DEF Reported, Active, Live
    <3> QED
      BY <2>1, <3>1, AliveIsOwned
  <2> QED
    BY <2>1, <2>2, <2>3, <2>4, PromisedMove
<1>2. ASSUME NEW l \in Lease, NEW o \in Outcomes, IngestAccept(l, o) PROVE Promised
  <2> DEFINE r == l[1]
  <2>1. /\ r \in Runs /\ l = Latest(r) /\ last[r] > 0
    BY <1>2, LeaseParts, ConstantsAssumption DEF IngestAccept, Contradicts, Latest
  <2>2. /\ SetState({r}, o) /\ UNCHANGED <<last, remote>>
        /\ accepted' = [accepted EXCEPT ![r] = [attempt |-> l[2], outcome |-> o]]
        /\ accepted[r] = None /\ state[r] \in Active /\ remote[l] \notin Live
    BY <1>2 DEF IngestAccept, Contradicts, Delivered, Live
  <2>3. r \in Owners /\ Alive[r] = {} /\ Settled[r] = None
    BY <2>1, <2>2, AliveIsOwned DEF Owners, Settled
  <2>4. o \notin Active /\ [attempt |-> l[2], outcome |-> o] # None
    BY LeaseParts, ConstantsAssumption DEF Active
  <2>5. Owners' = Owners \ {r}
    BY <2>1, <2>2, <2>4 DEF Owners, SetState
  <2>6. Settled' = [Settled EXCEPT ![r] = o]
    BY <2>1, <2>2, <2>4 DEF Settled, TypeOK
  <2>7. Promise!Settle(r, o)
    BY <2>2, <2>3, <2>5, <2>6, SameParts DEF Promise!Settle
  <2> QED
    BY <2>1, <2>7 DEF Promised, Promise!Next
<1>3. ASSUME NEW c \in Clusters, MarkUnreachable(c) PROVE Promised
  BY <1>3, PromisedUnavailable DEF MarkUnreachable
<1>4. CASE UNCHANGED ledger /\ UNCHANGED remote
  BY <1>4, SameParts, Stutter DEF ledger
<1> QED
  BY <1>1, <1>2, <1>3, <1>4 DEF ReconcileSteps, IngestQuarantine, ReconcileSucceeded

(***************************************************************************)
(* A coordinated Study keeps the promise of ExclusiveRuns for every fleet, *)
(* every budget and every behaviour of its executors, until a lease that   *)
(* never got a Job is replaced.                                            *)
(***************************************************************************)
THEOREM LedgerKeepsPromise == Spec => ImplementsExclusiveRuns
<1>1. Init => Promise!Init
  <2> SUFFICES ASSUME Init PROVE Promise!Init
    OBVIOUS
  <2>1. Owners = {}
    BY DEF Init, Owners, Active
  <2>2. Alive = [r \in Runs |-> {}]
    BY LeaseParts DEF Init, Alive, Live
  <2>3. Settled = [r \in Runs |-> None]
    BY DEF Init, Settled
  <2> QED
    BY <2>1, <2>2, <2>3 DEF Init, Promise!Init
<1>2. IInv /\ [CarefulNext]_vars => Promised
  <2>1. UNCHANGED vars => Promised
    BY SameParts, Stutter DEF vars, ledger
  <2> QED
    BY <2>1, PromisedOperator, PromisedPlanner, PromisedDispatch, PromisedReconcile,
       PromisedExternal DEF CarefulNext
<1>3. Guarded /\ [Next]_vars => [~overtaken' => Promised]_vars
  <2> SUFFICES ASSUME Guarded, [Next]_vars, ~overtaken' PROVE Promised
    OBVIOUS
  <2>1. Careful /\ IInv
    BY Remembered DEF Guarded, Careful
  <2> QED
    BY <1>2, <2>1, CarefulMoves
<1> QED
  BY <1>1, <1>3, Invariance, PTL DEF Spec, ImplementsExclusiveRuns, Promised
=============================================================================
