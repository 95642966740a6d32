----------------------- MODULE CoordinatedDispatchProofs -----------------------
(***************************************************************************)
(* Proofs about CoordinatedDispatch for every number of Runs and chunks,   *)
(* every budget and parallelism, and all requests and faults.              *)
(***************************************************************************)
EXTENDS CoordinatedDispatch, FiniteSetTheorems, TLAPS

States == {"absent", "planned", "cancelled", "leased", "queued", "running", "unknown",
           "rejected", "accepted"}
Unleased == {"absent", "planned", "cancelled"}
Planner == {"pull", "deliver", "prune"}
Submitting == {"resubmit", "submit"}

\* What the ledger reserved is alive or was accepted.
Accounts ==
  /\ reserved \in Nat
  /\ reserved = Cardinality(In(state, Active \union {"accepted"}))

\* A complete stream has been read to the end.
Streams ==
  /\ \A r \in complete : read[r] = Chunks
  /\ DeliveredIsWhole

\* Until the loop leases again, its records tell the leased from the others.
Fresh ==
  /\ \A r \in Runs : records[r] = "accepted" => state[r] = "accepted"
  /\ at \in Planner => \A r \in Runs : \/ records[r] = state[r]
                                       \/ records[r] \in Unleased /\ state[r] \in Unleased

\* The loop awaits what the ledger leases and may lease.
Queue ==
  /\ LeasedIsAwaited /\ PlannedIsWanted
  /\ at # "raised" => \A r \in queued : state[r] \notin {"absent", "cancelled"}

\* What is about to be submitted is leased.
Batch == at \in Submitting => \A r \in todo : state[r] = "leased"

\* The room was computed from at least the leases that are alive.
Parallel ==
  /\ WithinParallelism
  /\ at \in {"extend", "resubmit"} => Cardinality(In(state, Active)) <= active

IInv == TypeOK /\ WithdrawsPlanned /\ Accounts /\ Streams /\ Fresh /\ Queue /\ Batch /\ Parallel

-------------------------------------------------------------------------------

LEMMA InFinite ==
  ASSUME NEW s, NEW S
  PROVE  IsFiniteSet(In(s, S)) /\ Cardinality(In(s, S)) \in 0..Cardinality(Runs)
<1>1. IsFiniteSet(Runs) /\ In(s, S) \subseteq Runs
  BY DispatchAssumption DEF In
<1>2. Cardinality(Runs) \in Nat
  BY <1>1, FS_CardinalityType
<1>3. IsFiniteSet(In(s, S)) /\ Cardinality(In(s, S)) <= Cardinality(Runs)
  BY <1>1, FS_Subset
<1>4. Cardinality(In(s, S)) \in Nat
  BY <1>3, FS_CardinalityType
<1>5. QED
  BY <1>2, <1>3, <1>4

LEMMA InShrinks ==
  ASSUME NEW s, NEW t, NEW S, NEW T, In(t, T) \subseteq In(s, S)
  PROVE  Cardinality(In(t, T)) <= Cardinality(In(s, S))
<1>1. QED
  BY InFinite, FS_Subset

LEMMA InLoses ==
  ASSUME NEW s, NEW t, NEW S, NEW r \in In(s, S), In(t, S) = In(s, S) \ {r}
  PROVE  Cardinality(In(t, S)) = Cardinality(In(s, S)) - 1
<1>1. QED
  BY InFinite, FS_RemoveElement

LEMMA Gains ==
  ASSUME NEW A \in SUBSET Runs, NEW P \in SUBSET Runs, P \intersect A = {}
  PROVE  /\ Cardinality(P) \in Nat
         /\ Cardinality(A \union P) = Cardinality(A) + Cardinality(P)
<1>1. IsFiniteSet(P) /\ Cardinality(P) \in Nat
  BY DispatchAssumption, FS_Subset, FS_CardinalityType
<1>2. IsFiniteSet(A) /\ Cardinality(A) \in Nat
  BY DispatchAssumption, FS_Subset, FS_CardinalityType
<1>3. A \intersect P = {} /\ Cardinality({}) = 0
  BY FS_EmptySet
<1>4. Cardinality(A \union P) = Cardinality(A) + Cardinality(P) - Cardinality(A \intersect P)
  BY <1>1, <1>2, FS_Union
<1>5. Cardinality(A \intersect P) = 0
  BY <1>3
<1>6. QED
  BY <1>1, <1>2, <1>4, <1>5

LEMMA Positive ==
  ASSUME Accounts, NEW r \in In(state, Active \union {"accepted"})
  PROVE  reserved - 1 \in Nat
<1>1. Cardinality(In(state, Active \union {"accepted"}) \ {r}) = reserved - 1
  BY InFinite, FS_RemoveElement DEF Accounts
<1>2. QED
  BY <1>1, InFinite, FS_Subset, FS_CardinalityType

LEMMA TypeStep ==
  TypeOK /\ Accounts /\ Batch /\ [Next]_vars => TypeOK'
<1> SUFFICES ASSUME TypeOK, Accounts, Batch, [Next]_vars PROVE TypeOK'
  OBVIOUS
<1> USE DispatchAssumption DEF ledger, member, local, TypeOK, Errors, States
<1>1. ASSUME NEW A \in SUBSET Runs, NEW L \in SUBSET A, Reconcile(A, L) PROVE TypeOK'
  <2>1. \A r \in Runs : Observed(r) \in {"accepted", "running", "queued", "unknown"}
    BY <1>1 DEF Reconcile, Raise, Observed, Settled
  <2>2. state' \in [Runs -> States]
    BY <1>1 DEF Reconcile, Raise, Observed, Settled
  <2>3. lifecycle' \in {"running", "pausing", "paused"}
    BY <1>1 DEF Reconcile, Raise, Observed, Settled
  <2>4. QED
    BY <1>1, <2>1, <2>2, <2>3 DEF Reconcile, Raise
<1>2. ASSUME ReadRecords PROVE TypeOK'
  BY <1>2 DEF ReadRecords, Raise
<1>3. ASSUME NEW r \in Runs, Pull(r) PROVE TypeOK'
  <2>1. read' \in [Runs -> 0..Chunks]
    BY <1>3 DEF Pull, Raise, ReadBy
  <2>2. complete' \subseteq Runs
    BY <1>3 DEF Pull, Raise, ReadBy
  <2>3. todo' \subseteq Runs
    BY <1>3 DEF Pull, Raise, ReadBy
  <2>4. QED
    BY <1>3, <2>1, <2>2, <2>3 DEF Pull, Raise
<1>4. ASSUME NEW r \in Runs, PullLost(r) PROVE TypeOK'
  BY <1>4 DEF PullLost, Raise
<1>5. ASSUME NEW r \in Runs, PullUnknown(r) PROVE TypeOK'
  BY <1>5 DEF PullUnknown, Raise
<1>6. ASSUME Pulled PROVE TypeOK'
  BY <1>6 DEF Pulled, Raise
<1>7. ASSUME Rejected PROVE TypeOK'
  BY <1>7 DEF Rejected, Raise
<1>8. ASSUME NEW r \in Runs, NEW R \in SUBSET Runs, NEW C \in SUBSET R, Deliver(r, R, C) PROVE TypeOK'
  <2>1. state' \in [Runs -> States]
    BY <1>8 DEF Deliver, Raise, Planned, Cancelled, Requeued, Wanted, New, In
  <2>2. queued' \subseteq Runs
    BY <1>8 DEF Deliver, Raise, Planned, Cancelled, Requeued, Wanted, New, In
  <2>3. delivered' \subseteq Runs
    BY <1>8 DEF Deliver, Raise, Planned, Cancelled, Requeued, Wanted, New, In
  <2>4. at' \in {at, "raised"}
    BY <1>8 DEF Deliver, Raise, Planned, Cancelled, Requeued, Wanted, New, In
  <2>5. error' \in {error, "repeat", "withdraw", "proposal"}
    BY <1>8 DEF Deliver, Raise, Planned, Cancelled, Requeued, Wanted, New, In
  <2>6. QED
    BY <1>8, <2>1, <2>2, <2>3, <2>4, <2>5 DEF Deliver, Raise
<1>9. ASSUME Delivered PROVE TypeOK'
  BY <1>9 DEF Delivered, Raise
<1>10. ASSUME NEW W \in SUBSET Runs, Prune(W) PROVE TypeOK'
  <2>1. state' \in [Runs -> States]
    BY <1>10 DEF Prune, Raise, Cancelled
  <2>2. queued' \subseteq Runs
    BY <1>10 DEF Prune, Raise, Cancelled
  <2>3. at' \in {"decide", "raised"}
    BY <1>10 DEF Prune, Raise, Cancelled
  <2>4. error' \in {error, "withdraw"}
    BY <1>10 DEF Prune, Raise, Cancelled
  <2>5. QED
    BY <1>10, <2>1, <2>2, <2>3, <2>4 DEF Prune, Raise
<1>11. ASSUME Decide PROVE TypeOK'
  <2>1. RunBudget - reserved \in 0..RunBudget
    <3>1. reserved \in 0..RunBudget /\ RunBudget \in Nat
      OBVIOUS
    <3>2. QED
      BY <3>1
  <2>2. status' \in [paused : BOOLEAN, runs : 0..RunBudget, time : BOOLEAN]
    <3>1. CASE queued = {}
      BY <1>11, <3>1 DEF Decide
    <3>2. CASE queued # {}
      <4>1. (lifecycle = "paused") \in BOOLEAN
        OBVIOUS
      <4>2. (~expired) \in BOOLEAN
        OBVIOUS
      <4>3. status' = [paused |-> lifecycle = "paused", runs |-> RunBudget - reserved,
                       time |-> ~expired]
        BY <1>11, <3>2 DEF Decide
      <4>4. QED
        BY <2>1, <4>1, <4>2, <4>3
    <3>3. QED
      BY <3>1, <3>2
  <2>3. at' \in {"done", "raised", "count"}
    BY <1>11 DEF Decide, Raise
  <2>4. error' \in {error, "paused"}
    BY <1>11 DEF Decide, Raise
  <2>5. QED
    BY <1>11, <2>2, <2>3, <2>4 DEF Decide
<1>12. ASSUME Count PROVE TypeOK'
  <2>1. at' \in {"raised", "extend"}
    BY <1>12 DEF Count, Raise
  <2>2. error' \in {error, "time"}
    BY <1>12 DEF Count, Raise
  <2>3. QED
    BY <1>12, <2>1, <2>2, InFinite DEF Count, Raise
<1>13. ASSUME NEW R \in SUBSET Runs, Extend(R) PROVE TypeOK'
  <2>1. state' \in [Runs -> States]
    BY <1>13 DEF Extend, Raise, Planned, In
  <2>2. queued' \subseteq Runs
    BY <1>13 DEF Extend, Raise, Planned, In
  <2>3. todo' \subseteq Runs
    BY <1>13 DEF Extend, Raise, Planned, In
  <2>4. at' \in {"resubmit", "raised"}
    BY <1>13 DEF Extend, Raise, Planned, In
  <2>5. error' \in {error, "proposal"}
    BY <1>13 DEF Extend, Raise, Planned, In
  <2>6. QED
    BY <1>13, <2>1, <2>2, <2>3, <2>4, <2>5 DEF Extend, Raise
<1>14. ASSUME NEW r \in Runs, Held(r) PROVE TypeOK'
  BY <1>14 DEF Held, Raise
<1>15. ASSUME NEW r \in Runs, Withdraw(r) PROVE TypeOK'
  <2>1. r \in In(state, Active \union {"accepted"})
    BY <1>15 DEF Withdraw, Batch, Submitting, In, Active, Submitted
  <2>2. reserved - 1 \in Nat
    BY <2>1, Positive
  <2>3. reserved - 1 \in 0..RunBudget
    BY <2>2
  <2>4. QED
    BY <1>15, <2>3 DEF Withdraw
<1>16. ASSUME NEW r \in Runs, NEW a \in {"queued", "rejected", "unknown"}, NEW b \in BOOLEAN, Submit(r, a, b) PROVE TypeOK'
  <2>1. r \in In(state, Active \union {"accepted"})
    BY <1>16 DEF Submit, Batch, Submitting, In, Active, Submitted
  <2>2. reserved - 1 \in Nat
    BY <2>1, Positive
  <2>3. reserved - 1 \in 0..RunBudget
    BY <2>2
  <2>4. QED
    BY <1>16, <2>3 DEF Submit
<1>17. ASSUME NEW P \in SUBSET Runs, PlanShards(P) PROVE TypeOK'
  <2>1. P \in SUBSET Runs /\ Cardinality(P) \in Nat
    BY <1>17, FS_Subset, FS_CardinalityType DEF PlanShards
  <2>2. state' \in [Runs -> States]
    BY <1>17 DEF PlanShards
  <2>3. reserved' \in 0..RunBudget
    BY <1>17, <2>1 DEF PlanShards
  <2>4. QED
    BY <1>17, <2>1, <2>2, <2>3 DEF PlanShards
<1>18. ASSUME Sleep PROVE TypeOK'
  BY <1>18 DEF Sleep, Raise
<1>19. ASSUME NEW r \in Runs, Work(r) PROVE TypeOK'
  BY <1>19 DEF Work, Raise
<1>20. ASSUME RequestPause PROVE TypeOK'
  BY <1>20 DEF RequestPause, Raise
<1>21. ASSUME Expire PROVE TypeOK'
  BY <1>21 DEF Expire, Raise
<1>22. CASE UNCHANGED vars
  BY <1>22 DEF vars
<1>23. ASSUME NEW r \in Runs, PullRefused(r) PROVE TypeOK'
  BY <1>23 DEF PullRefused, Raise
<1> HIDE DEF TypeOK, Errors, States
<1>24. QED
  BY <1>1, <1>2, <1>3, <1>4, <1>5, <1>6, <1>7, <1>8, <1>9, <1>10, <1>11, <1>12, <1>13, <1>14, <1>15, <1>16, <1>17, <1>18, <1>19, <1>20, <1>21, <1>22, <1>23 DEF Next, Loop

LEMMA AccountsStep ==
  Accounts /\ TypeOK /\ Batch /\ [Next]_vars => Accounts'
<1> SUFFICES ASSUME Accounts, TypeOK, Batch, [Next]_vars PROVE Accounts'
  OBVIOUS
<1> USE DispatchAssumption DEF ledger, member, local, Accounts
<1>1. ASSUME NEW A \in SUBSET Runs, NEW L \in SUBSET A, Reconcile(A, L) PROVE Accounts'
  <2>1. In(state', Active \union {"accepted"}) = In(state, Active \union {"accepted"})
    BY <1>1 DEF Reconcile, Observed, TypeOK, In, Active, Submitted
  <2>2. QED
    BY <1>1, <2>1 DEF Reconcile
<1>2. ASSUME ReadRecords PROVE Accounts'
  BY <1>2 DEF ReadRecords, Raise
<1>3. ASSUME NEW r \in Runs, Pull(r) PROVE Accounts'
  BY <1>3 DEF Pull, Raise
<1>4. ASSUME NEW r \in Runs, PullLost(r) PROVE Accounts'
  BY <1>4 DEF PullLost, Raise
<1>5. ASSUME NEW r \in Runs, PullUnknown(r) PROVE Accounts'
  BY <1>5 DEF PullUnknown, Raise
<1>6. ASSUME Pulled PROVE Accounts'
  BY <1>6 DEF Pulled, Raise
<1>7. ASSUME Rejected PROVE Accounts'
  BY <1>7 DEF Rejected, Raise
<1>8. ASSUME NEW r \in Runs, NEW R \in SUBSET Runs, NEW C \in SUBSET R, Deliver(r, R, C) PROVE Accounts'
  <2>1. In(state', Active \union {"accepted"}) = In(state, Active \union {"accepted"})
    BY <1>8 DEF Deliver, Planned, Cancelled, Withdrawable, Pending, Requeued, In, Active, Submitted, TypeOK
  <2>2. QED
    BY <1>8, <2>1 DEF Deliver
<1>9. ASSUME Delivered PROVE Accounts'
  BY <1>9 DEF Delivered, Raise
<1>10. ASSUME NEW W \in SUBSET Runs, Prune(W) PROVE Accounts'
  <2>1. In(state', Active \union {"accepted"}) = In(state, Active \union {"accepted"})
    BY <1>10 DEF Prune, Cancelled, Withdrawable, In, Active, Submitted, TypeOK
  <2>2. QED
    BY <1>10, <2>1 DEF Prune
<1>11. ASSUME Decide PROVE Accounts'
  BY <1>11 DEF Decide, Raise
<1>12. ASSUME Count PROVE Accounts'
  BY <1>12 DEF Count, Raise
<1>13. ASSUME NEW R \in SUBSET Runs, Extend(R) PROVE Accounts'
  <2>1. In(state', Active \union {"accepted"}) = In(state, Active \union {"accepted"})
    BY <1>13 DEF Extend, Planned, In, Active, Submitted, TypeOK
  <2>2. QED
    BY <1>13, <2>1 DEF Extend
<1>14. ASSUME NEW r \in Runs, Held(r) PROVE Accounts'
  BY <1>14 DEF Held, Raise
<1>15. ASSUME NEW r \in Runs, Withdraw(r) PROVE Accounts'
  <2>1. r \in In(state, Active \union {"accepted"})
    BY <1>15 DEF Withdraw, Batch, Submitting, In, Active, Submitted
  <2>2. In(state', Active \union {"accepted"}) = In(state, Active \union {"accepted"}) \ {r}
    BY <1>15 DEF Withdraw, In, Active, Submitted, TypeOK
  <2>3. reserved' = reserved - 1 /\ reserved - 1 \in Nat
    BY <1>15, <2>1, Positive DEF Withdraw, Accounts
  <2>4. QED
    BY <2>1, <2>2, <2>3, InLoses
<1>16. ASSUME NEW r \in Runs, NEW a \in {"queued", "rejected", "unknown"}, NEW b \in BOOLEAN, Submit(r, a, b) PROVE Accounts'
  <2>1. r \in In(state, Active \union {"accepted"})
    BY <1>16 DEF Submit, Batch, Submitting, In, Active, Submitted
  <2>2. CASE a = "rejected"
    <3>1. In(state', Active \union {"accepted"}) = In(state, Active \union {"accepted"}) \ {r}
      BY <1>16, <2>2 DEF Submit, In, Active, Submitted, TypeOK
    <3>2. reserved' = reserved - 1 /\ reserved - 1 \in Nat
      BY <1>16, <2>1, <2>2, Positive DEF Submit, Accounts
    <3>3. QED
      BY <2>1, <3>1, <3>2, InLoses
  <2>3. CASE a # "rejected"
    <3>1. In(state', Active \union {"accepted"}) = In(state, Active \union {"accepted"})
      BY <1>16, <2>1, <2>3 DEF Submit, In, Active, Submitted, TypeOK
    <3>2. QED
      BY <1>16, <2>3, <3>1 DEF Submit
  <2>4. QED
    BY <2>2, <2>3
<1>17. ASSUME NEW P \in SUBSET Runs, PlanShards(P) PROVE Accounts'
  <2>1. P \in SUBSET Runs /\ P \intersect In(state, Active \union {"accepted"}) = {}
    BY <1>17 DEF PlanShards, In, Active, Submitted
  <2>2. In(state', Active \union {"accepted"}) = In(state, Active \union {"accepted"}) \union P
    BY <1>17 DEF PlanShards, In, Active, Submitted, TypeOK
  <2>3. reserved' = reserved + Cardinality(P)
    BY <1>17 DEF PlanShards
  <2>4. In(state, Active \union {"accepted"}) \in SUBSET Runs
    BY DEF In
  <2>5. Cardinality(In(state, Active \union {"accepted"}) \union P) = reserved + Cardinality(P)
    BY <2>1, <2>4, Gains DEF Accounts
  <2>6. Cardinality(P) \in Nat
    BY <2>1, <2>4, Gains
  <2>7. Cardinality(In(state', Active \union {"accepted"})) = reserved + Cardinality(P)
    BY <2>2, <2>5
  <2>8. QED
    BY <2>3, <2>6, <2>7
<1>18. ASSUME Sleep PROVE Accounts'
  BY <1>18 DEF Sleep, Raise
<1>19. ASSUME NEW r \in Runs, Work(r) PROVE Accounts'
  BY <1>19 DEF Work, Raise
<1>20. ASSUME RequestPause PROVE Accounts'
  BY <1>20 DEF RequestPause, Raise
<1>21. ASSUME Expire PROVE Accounts'
  BY <1>21 DEF Expire, Raise
<1>22. CASE UNCHANGED vars
  BY <1>22 DEF vars
<1>23. ASSUME NEW r \in Runs, PullRefused(r) PROVE Accounts'
  BY <1>23 DEF PullRefused, Raise
<1> HIDE DEF Accounts
<1>24. QED
  BY <1>1, <1>2, <1>3, <1>4, <1>5, <1>6, <1>7, <1>8, <1>9, <1>10, <1>11, <1>12, <1>13, <1>14, <1>15, <1>16, <1>17, <1>18, <1>19, <1>20, <1>21, <1>22, <1>23 DEF Next, Loop

LEMMA StreamsStep ==
  Streams /\ TypeOK /\ Fresh /\ Batch /\ [Next]_vars => Streams'
<1> SUFFICES ASSUME Streams, TypeOK, Fresh, Batch, [Next]_vars PROVE Streams'
  OBVIOUS
<1> USE DispatchAssumption DEF ledger, member, local, Streams, DeliveredIsWhole
<1>1. ASSUME NEW A \in SUBSET Runs, NEW L \in SUBSET A, Reconcile(A, L) PROVE Streams'
  <2>1. \A r \in Runs : state[r] = "accepted" => state'[r] = "accepted"
    BY <1>1 DEF Reconcile, In, Submitted, TypeOK
  <2>2. QED
    BY <1>1, <2>1 DEF Reconcile, TypeOK
<1>2. ASSUME ReadRecords PROVE Streams'
  BY <1>2 DEF ReadRecords, Raise
<1>3. ASSUME NEW r \in Runs, Pull(r) PROVE Streams'
  <2>1. \E n \in ReadBy(r) :
          /\ read' = [read EXCEPT ![r] = n]
          /\ complete' = IF Complete(r, n) THEN complete \union {r} ELSE complete
    BY <1>3 DEF Pull
  <2>2. read[r] = Chunks => read'[r] = Chunks
    BY <2>1 DEF ReadBy, TypeOK
  <2>3. \A s \in Runs \ {r} : read'[s] = read[s]
    BY <2>1 DEF TypeOK
  <2>4. r \in complete' => r \in complete \/ read'[r] = Chunks
    BY <2>1 DEF Complete, TypeOK
  <2>5. \A s \in complete' : s = r \/ s \in complete
    BY <2>1
  <2>6. \A s \in complete' : read'[s] = Chunks
    BY <2>2, <2>3, <2>4, <2>5 DEF TypeOK
  <2>7. \A s \in delivered : read'[s] = Chunks
    BY <2>2, <2>3 DEF TypeOK
  <2>8. QED
    BY <1>3, <2>6, <2>7 DEF Pull
<1>4. ASSUME NEW r \in Runs, PullLost(r) PROVE Streams'
  BY <1>4 DEF PullLost, Raise
<1>5. ASSUME NEW r \in Runs, PullUnknown(r) PROVE Streams'
  BY <1>5 DEF PullUnknown, Raise
<1>6. ASSUME Pulled PROVE Streams'
  BY <1>6 DEF Pulled, Raise
<1>7. ASSUME Rejected PROVE Streams'
  BY <1>7 DEF Rejected, Raise
<1>8. ASSUME NEW r \in Runs, NEW R \in SUBSET Runs, NEW C \in SUBSET R, Deliver(r, R, C) PROVE Streams'
  <2>1. \A s \in Runs : state[s] = "accepted" => state'[s] = "accepted"
    BY <1>8 DEF Deliver, Raise, Planned, Cancelled, Withdrawable, TypeOK
  <2>2. state[r] = "accepted" /\ read[r] = Chunks
    BY <1>8 DEF Deliver, Deliverable, Fresh
  <2>3. QED
    BY <1>8, <2>1, <2>2 DEF Deliver, TypeOK
<1>9. ASSUME Delivered PROVE Streams'
  BY <1>9 DEF Delivered, Raise
<1>10. ASSUME NEW W \in SUBSET Runs, Prune(W) PROVE Streams'
  <2>1. \A s \in Runs : state[s] = "accepted" => state'[s] = "accepted"
    BY <1>10 DEF Prune, Raise, Cancelled, Withdrawable, TypeOK
  <2>2. QED
    BY <1>10, <2>1 DEF Prune, TypeOK
<1>11. ASSUME Decide PROVE Streams'
  BY <1>11 DEF Decide, Raise
<1>12. ASSUME Count PROVE Streams'
  BY <1>12 DEF Count, Raise
<1>13. ASSUME NEW R \in SUBSET Runs, Extend(R) PROVE Streams'
  <2>1. \A s \in Runs : state[s] = "accepted" => state'[s] = "accepted"
    BY <1>13 DEF Extend, Raise, Planned, TypeOK
  <2>2. QED
    BY <1>13, <2>1 DEF Extend, TypeOK
<1>14. ASSUME NEW r \in Runs, Held(r) PROVE Streams'
  BY <1>14 DEF Held, Raise
<1>15. ASSUME NEW r \in Runs, Withdraw(r) PROVE Streams'
  <2>1. state[r] = "leased"
    BY <1>15 DEF Withdraw, Batch, Submitting
  <2>2. QED
    BY <1>15, <2>1 DEF Withdraw, TypeOK
<1>16. ASSUME NEW r \in Runs, NEW a \in {"queued", "rejected", "unknown"}, NEW b \in BOOLEAN, Submit(r, a, b) PROVE Streams'
  <2>1. state[r] = "leased"
    BY <1>16 DEF Submit, Batch, Submitting
  <2>2. QED
    BY <1>16, <2>1 DEF Submit, TypeOK
<1>17. ASSUME NEW P \in SUBSET Runs, PlanShards(P) PROVE Streams'
  <2>1. \A s \in Runs : state[s] = "accepted" => state'[s] = "accepted"
    BY <1>17 DEF PlanShards, In, TypeOK
  <2>2. QED
    BY <1>17, <2>1 DEF PlanShards, TypeOK
<1>18. ASSUME Sleep PROVE Streams'
  BY <1>18 DEF Sleep, Raise
<1>19. ASSUME NEW r \in Runs, Work(r) PROVE Streams'
  BY <1>19 DEF Work, Raise
<1>20. ASSUME RequestPause PROVE Streams'
  BY <1>20 DEF RequestPause, Raise
<1>21. ASSUME Expire PROVE Streams'
  BY <1>21 DEF Expire, Raise
<1>22. CASE UNCHANGED vars
  BY <1>22 DEF vars
<1>23. ASSUME NEW r \in Runs, PullRefused(r) PROVE Streams'
  BY <1>23 DEF PullRefused, Raise
<1> HIDE DEF Streams, DeliveredIsWhole
<1>24. QED
  BY <1>1, <1>2, <1>3, <1>4, <1>5, <1>6, <1>7, <1>8, <1>9, <1>10, <1>11, <1>12, <1>13, <1>14, <1>15, <1>16, <1>17, <1>18, <1>19, <1>20, <1>21, <1>22, <1>23 DEF Next, Loop

LEMMA FreshStep ==
  Fresh /\ TypeOK /\ Batch /\ [Next]_vars => Fresh'
<1> SUFFICES ASSUME Fresh, TypeOK, Batch, [Next]_vars PROVE Fresh'
  OBVIOUS
<1> USE DispatchAssumption DEF ledger, member, local, Fresh, Planner
<1>1. ASSUME NEW A \in SUBSET Runs, NEW L \in SUBSET A, Reconcile(A, L) PROVE Fresh'
  <2>1. \A s \in Runs : state[s] = "accepted" => state'[s] = "accepted"
    BY <1>1 DEF Reconcile, In, Submitted, TypeOK
  <2>2. records' = records /\ at' \notin Planner
    BY <1>1 DEF Reconcile, Planner, Raise
  <2>3. QED
    BY <2>1, <2>2
<1>2. ASSUME ReadRecords PROVE Fresh'
  BY <1>2 DEF ReadRecords, Raise
<1>3. ASSUME NEW r \in Runs, Pull(r) PROVE Fresh'
  BY <1>3 DEF Pull, Raise
<1>4. ASSUME NEW r \in Runs, PullLost(r) PROVE Fresh'
  BY <1>4 DEF PullLost, Raise
<1>5. ASSUME NEW r \in Runs, PullUnknown(r) PROVE Fresh'
  BY <1>5 DEF PullUnknown, Raise
<1>6. ASSUME Pulled PROVE Fresh'
  BY <1>6 DEF Pulled, Raise
<1>7. ASSUME Rejected PROVE Fresh'
  BY <1>7 DEF Rejected, Raise
<1>8. ASSUME NEW r \in Runs, NEW R \in SUBSET Runs, NEW C \in SUBSET R, Deliver(r, R, C) PROVE Fresh'
  <2>1. \A s \in Runs : state[s] = "accepted" => state'[s] = "accepted"
    BY <1>8 DEF Deliver, Raise, Planned, Cancelled, Withdrawable, TypeOK
  <2>2. \A s \in Runs : state'[s] = state[s] \/ (state[s] \in Unleased /\ state'[s] \in Unleased)
    BY <1>8 DEF Deliver, Raise, Planned, Cancelled, Withdrawable, Unleased, In, Submitted, TypeOK
  <2>3. records' = records /\ (at' \in Planner => at \in Planner)
    BY <1>8 DEF Deliver, Raise, Planner
  <2>4. QED
    BY <2>1, <2>2, <2>3 DEF TypeOK
<1>9. ASSUME Delivered PROVE Fresh'
  BY <1>9 DEF Delivered, Raise
<1>10. ASSUME NEW W \in SUBSET Runs, Prune(W) PROVE Fresh'
  <2>1. \A s \in Runs : state[s] = "accepted" => state'[s] = "accepted"
    BY <1>10 DEF Prune, Raise, Cancelled, Withdrawable, TypeOK
  <2>2. \A s \in Runs : state'[s] = state[s] \/ (state[s] \in Unleased /\ state'[s] \in Unleased)
    BY <1>10 DEF Prune, Raise, Cancelled, Withdrawable, Unleased, In, Submitted, TypeOK
  <2>3. records' = records /\ (at' \in Planner => at \in Planner)
    BY <1>10 DEF Prune, Raise, Planner
  <2>4. QED
    BY <2>1, <2>2, <2>3 DEF TypeOK
<1>11. ASSUME Decide PROVE Fresh'
  BY <1>11 DEF Decide, Raise
<1>12. ASSUME Count PROVE Fresh'
  <2>1. records' = state /\ state' = state /\ at' \notin Planner
    BY <1>12 DEF Count, Raise
  <2>2. QED
    BY <2>1
<1>13. ASSUME NEW R \in SUBSET Runs, Extend(R) PROVE Fresh'
  <2>1. \A s \in Runs : state[s] = "accepted" => state'[s] = "accepted"
    BY <1>13 DEF Extend, Raise, Planned, TypeOK
  <2>2. \A s \in Runs : state'[s] = state[s] \/ (state[s] \in Unleased /\ state'[s] \in Unleased)
    BY <1>13 DEF Extend, Raise, Planned, Unleased, In, Submitted, TypeOK
  <2>3. records' = records /\ (at' \in Planner => at \in Planner)
    BY <1>13 DEF Extend, Raise, Planner
  <2>4. QED
    BY <2>1, <2>2, <2>3 DEF TypeOK
<1>14. ASSUME NEW r \in Runs, Held(r) PROVE Fresh'
  BY <1>14 DEF Held, Raise
<1>15. ASSUME NEW r \in Runs, Withdraw(r) PROVE Fresh'
  <2>1. state[r] = "leased" /\ at' \notin Planner
    BY <1>15 DEF Withdraw, Batch, Submitting
  <2>2. QED
    BY <1>15, <2>1 DEF Withdraw, TypeOK
<1>16. ASSUME NEW r \in Runs, NEW a \in {"queued", "rejected", "unknown"}, NEW b \in BOOLEAN, Submit(r, a, b) PROVE Fresh'
  <2>1. state[r] = "leased" /\ at' \notin Planner
    BY <1>16 DEF Submit, Batch, Submitting
  <2>2. QED
    BY <1>16, <2>1 DEF Submit, TypeOK
<1>17. ASSUME NEW P \in SUBSET Runs, PlanShards(P) PROVE Fresh'
  <2>1. \A s \in Runs : state[s] = "accepted" => state'[s] = "accepted"
    BY <1>17 DEF PlanShards, In, TypeOK
  <2>2. records' = records /\ at' \notin Planner
    BY <1>17 DEF PlanShards, Planner
  <2>3. QED
    BY <2>1, <2>2
<1>18. ASSUME Sleep PROVE Fresh'
  BY <1>18 DEF Sleep, Raise
<1>19. ASSUME NEW r \in Runs, Work(r) PROVE Fresh'
  BY <1>19 DEF Work, Raise
<1>20. ASSUME RequestPause PROVE Fresh'
  BY <1>20 DEF RequestPause, Raise
<1>21. ASSUME Expire PROVE Fresh'
  BY <1>21 DEF Expire, Raise
<1>22. CASE UNCHANGED vars
  BY <1>22 DEF vars
<1>23. ASSUME NEW r \in Runs, PullRefused(r) PROVE Fresh'
  BY <1>23 DEF PullRefused, Raise
<1> HIDE DEF Fresh, Planner
<1>24. QED
  BY <1>1, <1>2, <1>3, <1>4, <1>5, <1>6, <1>7, <1>8, <1>9, <1>10, <1>11, <1>12, <1>13, <1>14, <1>15, <1>16, <1>17, <1>18, <1>19, <1>20, <1>21, <1>22, <1>23 DEF Next, Loop

LEMMA BatchStep ==
  Batch /\ TypeOK /\ [Next]_vars => Batch'
<1> SUFFICES ASSUME Batch, TypeOK, [Next]_vars PROVE Batch'
  OBVIOUS
<1> USE DispatchAssumption DEF ledger, member, local, Batch, Submitting
<1>1. ASSUME NEW A \in SUBSET Runs, NEW L \in SUBSET A, Reconcile(A, L) PROVE Batch'
  BY <1>1 DEF Reconcile, Raise
<1>2. ASSUME ReadRecords PROVE Batch'
  BY <1>2 DEF ReadRecords, Raise
<1>3. ASSUME NEW r \in Runs, Pull(r) PROVE Batch'
  BY <1>3 DEF Pull, Raise
<1>4. ASSUME NEW r \in Runs, PullLost(r) PROVE Batch'
  BY <1>4 DEF PullLost, Raise
<1>5. ASSUME NEW r \in Runs, PullUnknown(r) PROVE Batch'
  BY <1>5 DEF PullUnknown, Raise
<1>6. ASSUME Pulled PROVE Batch'
  BY <1>6 DEF Pulled, Raise
<1>7. ASSUME Rejected PROVE Batch'
  BY <1>7 DEF Rejected, Raise
<1>8. ASSUME NEW r \in Runs, NEW R \in SUBSET Runs, NEW C \in SUBSET R, Deliver(r, R, C) PROVE Batch'
  <2>1. at' \notin Submitting
    BY <1>8 DEF Deliver, Raise
  <2>2. QED
    BY <2>1
<1>9. ASSUME Delivered PROVE Batch'
  BY <1>9 DEF Delivered, Raise
<1>10. ASSUME NEW W \in SUBSET Runs, Prune(W) PROVE Batch'
  BY <1>10 DEF Prune, Raise
<1>11. ASSUME Decide PROVE Batch'
  BY <1>11 DEF Decide, Raise
<1>12. ASSUME Count PROVE Batch'
  BY <1>12 DEF Count, Raise
<1>13. ASSUME NEW R \in SUBSET Runs, Extend(R) PROVE Batch'
  <2>1. CASE Refused(R, {})
    BY <1>13, <2>1 DEF Extend, Raise
  <2>2. CASE ~Refused(R, {})
    <3>1. todo' = In(state, {"leased"}) /\ state' = Planned(state, R)
      BY <1>13, <2>2 DEF Extend
    <3>2. QED
      BY <3>1 DEF Planned, In
  <2>3. QED
    BY <2>1, <2>2
<1>14. ASSUME NEW r \in Runs, Held(r) PROVE Batch'
  BY <1>14 DEF Held, Raise
<1>15. ASSUME NEW r \in Runs, Withdraw(r) PROVE Batch'
  BY <1>15 DEF Withdraw, TypeOK
<1>16. ASSUME NEW r \in Runs, NEW a \in {"queued", "rejected", "unknown"}, NEW b \in BOOLEAN, Submit(r, a, b) PROVE Batch'
  BY <1>16 DEF Submit, TypeOK
<1>17. ASSUME NEW P \in SUBSET Runs, PlanShards(P) PROVE Batch'
  BY <1>17 DEF PlanShards, In, TypeOK
<1>18. ASSUME Sleep PROVE Batch'
  BY <1>18 DEF Sleep, Raise
<1>19. ASSUME NEW r \in Runs, Work(r) PROVE Batch'
  BY <1>19 DEF Work, Raise
<1>20. ASSUME RequestPause PROVE Batch'
  BY <1>20 DEF RequestPause, Raise
<1>21. ASSUME Expire PROVE Batch'
  BY <1>21 DEF Expire, Raise
<1>22. CASE UNCHANGED vars
  BY <1>22 DEF vars
<1>23. ASSUME NEW r \in Runs, PullRefused(r) PROVE Batch'
  BY <1>23 DEF PullRefused, Raise
<1> HIDE DEF Batch, Submitting
<1>24. QED
  BY <1>1, <1>2, <1>3, <1>4, <1>5, <1>6, <1>7, <1>8, <1>9, <1>10, <1>11, <1>12, <1>13, <1>14, <1>15, <1>16, <1>17, <1>18, <1>19, <1>20, <1>21, <1>22, <1>23 DEF Next, Loop

LEMMA ParallelStep ==
  Parallel /\ TypeOK /\ Batch /\ [Next]_vars => Parallel'
<1> SUFFICES ASSUME Parallel, TypeOK, Batch, [Next]_vars PROVE Parallel'
  OBVIOUS
<1> USE DispatchAssumption DEF ledger, member, local, Parallel, WithinParallelism
<1>1. ASSUME NEW A \in SUBSET Runs, NEW L \in SUBSET A, Reconcile(A, L) PROVE Parallel'
  <2>1. In(state', Active) \subseteq In(state, Active) \/ UNCHANGED state
    BY <1>1 DEF Reconcile, Observed, In, Active, Submitted, TypeOK
  <2>2. Cardinality(In(state', Active)) <= Cardinality(In(state, Active))
    BY <2>1, InShrinks, InFinite
  <2>3. at' \in {"extend", "resubmit"} => at \in {"extend", "resubmit"} /\ active' = active
    BY <1>1 DEF Reconcile, Raise
  <2>4. QED
    BY <1>1, <2>2, <2>3, InFinite DEF Reconcile, TypeOK
<1>2. ASSUME ReadRecords PROVE Parallel'
  BY <1>2 DEF ReadRecords, Raise
<1>3. ASSUME NEW r \in Runs, Pull(r) PROVE Parallel'
  BY <1>3 DEF Pull, Raise
<1>4. ASSUME NEW r \in Runs, PullLost(r) PROVE Parallel'
  BY <1>4 DEF PullLost, Raise
<1>5. ASSUME NEW r \in Runs, PullUnknown(r) PROVE Parallel'
  BY <1>5 DEF PullUnknown, Raise
<1>6. ASSUME Pulled PROVE Parallel'
  BY <1>6 DEF Pulled, Raise
<1>7. ASSUME Rejected PROVE Parallel'
  BY <1>7 DEF Rejected, Raise
<1>8. ASSUME NEW r \in Runs, NEW R \in SUBSET Runs, NEW C \in SUBSET R, Deliver(r, R, C) PROVE Parallel'
  <2>1. In(state', Active) \subseteq In(state, Active) \/ UNCHANGED state
    BY <1>8 DEF Deliver, Planned, Cancelled, In, Active, Submitted, TypeOK
  <2>2. Cardinality(In(state', Active)) <= Cardinality(In(state, Active))
    BY <2>1, InShrinks, InFinite
  <2>3. at' \in {"extend", "resubmit"} => at \in {"extend", "resubmit"} /\ active' = active
    BY <1>8 DEF Deliver, Raise
  <2>4. QED
    BY <1>8, <2>2, <2>3, InFinite DEF Deliver, TypeOK
<1>9. ASSUME Delivered PROVE Parallel'
  BY <1>9 DEF Delivered, Raise
<1>10. ASSUME NEW W \in SUBSET Runs, Prune(W) PROVE Parallel'
  <2>1. In(state', Active) \subseteq In(state, Active) \/ UNCHANGED state
    BY <1>10 DEF Prune, Cancelled, In, Active, Submitted, TypeOK
  <2>2. Cardinality(In(state', Active)) <= Cardinality(In(state, Active))
    BY <2>1, InShrinks, InFinite
  <2>3. at' \in {"extend", "resubmit"} => at \in {"extend", "resubmit"} /\ active' = active
    BY <1>10 DEF Prune, Raise
  <2>4. QED
    BY <1>10, <2>2, <2>3, InFinite DEF Prune, TypeOK
<1>11. ASSUME Decide PROVE Parallel'
  BY <1>11 DEF Decide, Raise
<1>12. ASSUME Count PROVE Parallel'
  <2>1. state' = state /\ active' = Cardinality(In(state, Active))
    BY <1>12 DEF Count
  <2>2. QED
    BY <1>12, <2>1, InFinite DEF Count
<1>13. ASSUME NEW R \in SUBSET Runs, Extend(R) PROVE Parallel'
  <2>1. In(state', Active) \subseteq In(state, Active) \/ UNCHANGED state
    BY <1>13 DEF Extend, Planned, In, Active, Submitted, TypeOK
  <2>2. Cardinality(In(state', Active)) <= Cardinality(In(state, Active))
    BY <2>1, InShrinks, InFinite
  <2>3. at' \in {"extend", "resubmit"} => at \in {"extend", "resubmit"} /\ active' = active
    BY <1>13 DEF Extend, Raise
  <2>4. QED
    BY <1>13, <2>2, <2>3, InFinite DEF Extend, TypeOK
<1>14. ASSUME NEW r \in Runs, Held(r) PROVE Parallel'
  BY <1>14 DEF Held, Raise
<1>15. ASSUME NEW r \in Runs, Withdraw(r) PROVE Parallel'
  <2>1. In(state', Active) \subseteq In(state, Active) \/ UNCHANGED state
    BY <1>15 DEF Withdraw, In, Active, Submitted, TypeOK
  <2>2. Cardinality(In(state', Active)) <= Cardinality(In(state, Active))
    BY <2>1, InShrinks, InFinite
  <2>3. at' \in {"extend", "resubmit"} => at \in {"extend", "resubmit"} /\ active' = active
    BY <1>15 DEF Withdraw, Raise
  <2>4. QED
    BY <1>15, <2>2, <2>3, InFinite DEF Withdraw, TypeOK
<1>16. ASSUME NEW r \in Runs, NEW a \in {"queued", "rejected", "unknown"}, NEW b \in BOOLEAN, Submit(r, a, b) PROVE Parallel'
  <2>1. In(state', Active) \subseteq In(state, Active) \/ UNCHANGED state
    BY <1>16 DEF Submit, Batch, Submitting, In, Active, Submitted, TypeOK
  <2>2. Cardinality(In(state', Active)) <= Cardinality(In(state, Active))
    BY <2>1, InShrinks, InFinite
  <2>3. at' \in {"extend", "resubmit"} => at \in {"extend", "resubmit"} /\ active' = active
    BY <1>16 DEF Submit, Raise
  <2>4. QED
    BY <1>16, <2>2, <2>3, InFinite DEF Submit, TypeOK
<1>17. ASSUME NEW P \in SUBSET Runs, PlanShards(P) PROVE Parallel'
  <2>1. P \in SUBSET Runs /\ P \intersect In(state, Active) = {}
    BY <1>17 DEF PlanShards, In, Active, Submitted
  <2>2. In(state', Active) = In(state, Active) \union P
    BY <1>17 DEF PlanShards, In, Active, Submitted, TypeOK
  <2>3. In(state, Active) \in SUBSET Runs
    BY DEF In
  <2>4. Cardinality(In(state', Active)) = Cardinality(In(state, Active)) + Cardinality(P)
    BY <2>1, <2>2, <2>3, Gains
  <2>5. Cardinality(P) \in Nat /\ Cardinality(In(state, Active)) \in Nat
    BY <2>1, <2>3, Gains, InFinite
  <2>6. Cardinality(P) <= Room /\ at = "resubmit" /\ at' = "submit"
    BY <1>17 DEF PlanShards
  <2>7. active \in Nat
    BY InFinite DEF TypeOK
  <2>8. Cardinality(In(state', Active)) <= Parallelism
    BY <2>4, <2>5, <2>6, <2>7 DEF Room
  <2>9. QED
    BY <2>6, <2>8
<1>18. ASSUME Sleep PROVE Parallel'
  BY <1>18 DEF Sleep, Raise
<1>19. ASSUME NEW r \in Runs, Work(r) PROVE Parallel'
  BY <1>19 DEF Work, Raise
<1>20. ASSUME RequestPause PROVE Parallel'
  BY <1>20 DEF RequestPause, Raise
<1>21. ASSUME Expire PROVE Parallel'
  BY <1>21 DEF Expire, Raise
<1>22. CASE UNCHANGED vars
  BY <1>22 DEF vars
<1>23. ASSUME NEW r \in Runs, PullRefused(r) PROVE Parallel'
  BY <1>23 DEF PullRefused, Raise
<1> HIDE DEF Parallel, WithinParallelism
<1>24. QED
  BY <1>1, <1>2, <1>3, <1>4, <1>5, <1>6, <1>7, <1>8, <1>9, <1>10, <1>11, <1>12, <1>13, <1>14, <1>15, <1>16, <1>17, <1>18, <1>19, <1>20, <1>21, <1>22, <1>23 DEF Next, Loop

\* What the loop may take back was not leased since it looked.
LEMMA Unstarted ==
  ASSUME TypeOK, Fresh, Queue, at \in Planner, NEW s \in queued, records[s] \in {"planned", "absent"}
  PROVE  state[s] = "planned"
<1>1. s \in Runs /\ (records[s] = state[s] \/ state[s] \in Unleased)
  BY DEF TypeOK, Fresh
<1>2. state[s] \notin {"absent", "cancelled"}
  BY DEF Queue, Planner
<1>3. QED
  BY <1>1, <1>2 DEF Unleased

LEMMA WithdrawsStep ==
  WithdrawsPlanned /\ TypeOK /\ Fresh /\ Queue /\ [Next]_vars => WithdrawsPlanned'
<1> SUFFICES ASSUME WithdrawsPlanned, TypeOK, Fresh, Queue, [Next]_vars PROVE WithdrawsPlanned'
  OBVIOUS
<1> USE DispatchAssumption DEF ledger, member, local, WithdrawsPlanned
<1>1. ASSUME NEW A \in SUBSET Runs, NEW L \in SUBSET A, Reconcile(A, L) PROVE WithdrawsPlanned'
  BY <1>1 DEF Reconcile, Raise
<1>2. ASSUME ReadRecords PROVE WithdrawsPlanned'
  BY <1>2 DEF ReadRecords, Raise
<1>3. ASSUME NEW r \in Runs, Pull(r) PROVE WithdrawsPlanned'
  BY <1>3 DEF Pull, Raise
<1>4. ASSUME NEW r \in Runs, PullLost(r) PROVE WithdrawsPlanned'
  BY <1>4 DEF PullLost, Raise
<1>5. ASSUME NEW r \in Runs, PullUnknown(r) PROVE WithdrawsPlanned'
  BY <1>5 DEF PullUnknown, Raise
<1>6. ASSUME Pulled PROVE WithdrawsPlanned'
  BY <1>6 DEF Pulled, Raise
<1>7. ASSUME Rejected PROVE WithdrawsPlanned'
  BY <1>7 DEF Rejected, Raise
<1>8. ASSUME NEW r \in Runs, NEW R \in SUBSET Runs, NEW C \in SUBSET R, Deliver(r, R, C) PROVE WithdrawsPlanned'
  <2> DEFINE withdrawn == (queued \ {r}) \ (Pending \union R)
  <2>1. at \in Planner
    BY <1>8 DEF Deliver, Planner
  <2>2. \A s \in withdrawn : state[s] = "planned"
    BY <1>8, <2>1, Unstarted DEF Deliver, Pending, TypeOK
  <2>3. Withdrawable(state, withdrawn)
    BY <2>2 DEF Withdrawable
  <2>4. QED
    BY <1>8, <2>3 DEF Deliver, Raise
<1>9. ASSUME Delivered PROVE WithdrawsPlanned'
  BY <1>9 DEF Delivered, Raise
<1>10. ASSUME NEW W \in SUBSET Runs, Prune(W) PROVE WithdrawsPlanned'
  <2>1. at \in Planner
    BY <1>10 DEF Prune, Planner
  <2>2. \A s \in W : state[s] = "planned"
    BY <1>10, <2>1, Unstarted DEF Prune, Pending, TypeOK
  <2>3. Withdrawable(state, W)
    BY <2>2 DEF Withdrawable
  <2>4. QED
    BY <1>10, <2>3 DEF Prune, Raise
<1>11. ASSUME Decide PROVE WithdrawsPlanned'
  BY <1>11 DEF Decide, Raise
<1>12. ASSUME Count PROVE WithdrawsPlanned'
  BY <1>12 DEF Count, Raise
<1>13. ASSUME NEW R \in SUBSET Runs, Extend(R) PROVE WithdrawsPlanned'
  BY <1>13 DEF Extend, Raise
<1>14. ASSUME NEW r \in Runs, Held(r) PROVE WithdrawsPlanned'
  BY <1>14 DEF Held, Raise
<1>15. ASSUME NEW r \in Runs, Withdraw(r) PROVE WithdrawsPlanned'
  BY <1>15 DEF Withdraw, Raise
<1>16. ASSUME NEW r \in Runs, NEW a \in {"queued", "rejected", "unknown"}, NEW b \in BOOLEAN, Submit(r, a, b) PROVE WithdrawsPlanned'
  BY <1>16 DEF Submit, Raise
<1>17. ASSUME NEW P \in SUBSET Runs, PlanShards(P) PROVE WithdrawsPlanned'
  BY <1>17 DEF PlanShards, Raise
<1>18. ASSUME Sleep PROVE WithdrawsPlanned'
  BY <1>18 DEF Sleep, Raise
<1>19. ASSUME NEW r \in Runs, Work(r) PROVE WithdrawsPlanned'
  BY <1>19 DEF Work, Raise
<1>20. ASSUME RequestPause PROVE WithdrawsPlanned'
  BY <1>20 DEF RequestPause, Raise
<1>21. ASSUME Expire PROVE WithdrawsPlanned'
  BY <1>21 DEF Expire, Raise
<1>22. CASE UNCHANGED vars
  BY <1>22 DEF vars
<1>23. ASSUME NEW r \in Runs, PullRefused(r) PROVE WithdrawsPlanned'
  BY <1>23 DEF PullRefused, Raise
<1> HIDE DEF WithdrawsPlanned
<1>24. QED
  BY <1>1, <1>2, <1>3, <1>4, <1>5, <1>6, <1>7, <1>8, <1>9, <1>10, <1>11, <1>12, <1>13, <1>14, <1>15, <1>16, <1>17, <1>18, <1>19, <1>20, <1>21, <1>22, <1>23 DEF Next, Loop

LEMMA QueueStep ==
  Queue /\ TypeOK /\ Fresh /\ Batch /\ Streams /\ [Next]_vars => Queue'
<1> SUFFICES ASSUME Queue, TypeOK, Fresh, Batch, Streams, [Next]_vars PROVE Queue'
  OBVIOUS
<1> USE DispatchAssumption DEF ledger, member, local, Queue, LeasedIsAwaited, PlannedIsWanted
<1>1. ASSUME NEW A \in SUBSET Runs, NEW L \in SUBSET A, Reconcile(A, L) PROVE Queue'
  <2>1. \A s \in Runs : state[s] \in Submitted => state'[s] \in Submitted \union {"accepted"}
    BY <1>1 DEF Reconcile, Observed, In, Submitted, TypeOK
  <2>2. \A s \in Runs : state[s] \notin Submitted => state'[s] = state[s]
    BY <1>1 DEF Reconcile, In, Submitted, TypeOK
  <2>3. queued' = queued /\ delivered' = delivered /\ at # "raised"
    BY <1>1 DEF Reconcile
  <2>4. \A s \in Runs : state'[s] \in Active \union {"accepted"} => state[s] \in Active \union {"accepted"}
    BY <2>1, <2>2 DEF Active
  <2>5. \A s \in Runs : state'[s] \in {"planned", "absent", "cancelled"} => state'[s] = state[s]
    BY <2>1, <2>2 DEF Submitted
  <2>6. QED
    BY <2>3, <2>4, <2>5 DEF In, TypeOK
<1>2. ASSUME ReadRecords PROVE Queue'
  BY <1>2 DEF ReadRecords, Raise
<1>3. ASSUME NEW r \in Runs, Pull(r) PROVE Queue'
  BY <1>3 DEF Pull, Raise
<1>4. ASSUME NEW r \in Runs, PullLost(r) PROVE Queue'
  BY <1>4 DEF PullLost, Raise
<1>5. ASSUME NEW r \in Runs, PullUnknown(r) PROVE Queue'
  BY <1>5 DEF PullUnknown, Raise
<1>6. ASSUME Pulled PROVE Queue'
  BY <1>6 DEF Pulled, Raise
<1>7. ASSUME Rejected PROVE Queue'
  BY <1>7 DEF Rejected, Raise
<1>8. ASSUME NEW r \in Runs, NEW R \in SUBSET Runs, NEW C \in SUBSET R, Deliver(r, R, C) PROVE Queue'
  <2> DEFINE rest == queued \ {r}
             withdrawn == rest \ (Pending \union R)
             kept == Cancelled(state, withdrawn)
  <2>1. state[r] = "accepted" /\ at = "deliver" /\ delivered' = delivered \union {r}
    BY <1>8 DEF Deliver, Deliverable, Fresh
  <2>2. \A s \in withdrawn : state[s] = "planned"
    <3>1. at \in Planner
      BY <2>1 DEF Planner
    <3>2. QED
      BY <3>1, Unstarted DEF Pending, TypeOK
  <2>3. \A s \in Runs : kept[s] = IF s \in withdrawn THEN "cancelled" ELSE state[s]
    BY DEF Cancelled
  <2>4. CASE R \intersect (Pending \union delivered \union {r}) # {}
    <3>1. at' = "raised" /\ queued' = rest /\ state' = state
      BY <1>8, <2>4 DEF Deliver, Raise
    <3>2. QED
      BY <2>1, <3>1 DEF In, Active, Submitted
  <2>5. CASE R \intersect (Pending \union delivered \union {r}) = {}
    <3>1. Withdrawable(state, withdrawn)
      BY <2>2 DEF Withdrawable
    <3>2. /\ queued' = Requeued(rest, R)
          /\ \/ at' = "raised" /\ state' = kept
             \/ at' = at /\ state' = Planned(kept, R)
      BY <1>8, <2>5, <3>1 DEF Deliver, Raise
    <3>3. \A s \in Runs : state'[s] = kept[s] \/ (s \in R /\ state'[s] = "planned")
      <4>1. CASE state' = kept
        BY <4>1
      <4>2. CASE state' = Planned(kept, R)
        <5>1. \A s \in Runs : state'[s] = IF s \in R /\ kept[s] \in {"absent", "cancelled"}
                                         THEN "planned" ELSE kept[s]
          BY <4>2 DEF Planned
        <5>2. QED
          BY <5>1
      <4>3. QED
        BY <3>2, <4>1, <4>2
    <3>4. \A s \in queued : s = r \/ s \in withdrawn \/ s \in queued'
      BY <3>2 DEF Requeued
    <3>5. R \subseteq queued'
      BY <3>2 DEF Requeued
    <3>6. LeasedIsAwaited'
      <4>1. \A s \in Runs : state'[s] \in Active \union {"accepted"} => state[s] = state'[s] /\ s \notin withdrawn
        BY <2>3, <3>3 DEF Active, Submitted
      <4>2. QED
        BY <2>1, <3>4, <4>1 DEF In
    <3>7. PlannedIsWanted'
      <4>1. \A s \in Runs : state'[s] = "planned" => s \in R \/ (state[s] = "planned" /\ s \notin withdrawn)
        BY <2>3, <3>3
      <4>2. QED
        BY <2>1, <3>4, <3>5, <4>1 DEF In
    <3>8. ASSUME at' # "raised", NEW s \in queued' PROVE state'[s] \notin {"absent", "cancelled"}
      <4>1. s \in Runs /\ state' = Planned(kept, R) /\ at # "raised"
        BY <1>8, <2>1, <3>2, <3>8 DEF Requeued, TypeOK, Pending
      <4>2. CASE s \in R
        BY <4>1, <4>2 DEF Planned
      <4>3. CASE s \notin R
        <5>1. s \in rest /\ s \notin withdrawn
          BY <3>2, <4>3 DEF Requeued
        <5>2. kept[s] = state[s] /\ state'[s] = kept[s]
          BY <2>3, <4>1, <4>3, <5>1 DEF Planned
        <5>3. QED
          BY <4>1, <5>1, <5>2
      <4>4. QED
        BY <4>2, <4>3
    <3>9. QED
      BY <3>6, <3>7, <3>8
  <2>6. QED
    BY <2>4, <2>5
<1>9. ASSUME Delivered PROVE Queue'
  BY <1>9 DEF Delivered, Raise
<1>10. ASSUME NEW W \in SUBSET Runs, Prune(W) PROVE Queue'
  <2>1. at \in Planner /\ at # "raised"
    BY <1>10 DEF Prune, Planner
  <2>2. \A s \in W : state[s] = "planned"
    BY <1>10, <2>1, Unstarted DEF Prune, TypeOK
  <2>3. Withdrawable(state, W)
    BY <2>2 DEF Withdrawable
  <2>4. state' = Cancelled(state, W) /\ queued' = queued \ W /\ delivered' = delivered
    BY <1>10, <2>3 DEF Prune
  <2>5. \A s \in Runs : state'[s] = IF s \in W THEN "cancelled" ELSE state[s]
    BY <2>4 DEF Cancelled
  <2>6. LeasedIsAwaited' /\ PlannedIsWanted'
    BY <2>2, <2>4, <2>5 DEF In, Active, Submitted
  <2>7. \A s \in queued' : state'[s] \notin {"absent", "cancelled"}
    BY <2>1, <2>4, <2>5 DEF TypeOK
  <2>8. QED
    BY <2>6, <2>7
<1>11. ASSUME Decide PROVE Queue'
  BY <1>11 DEF Decide, Raise
<1>12. ASSUME Count PROVE Queue'
  BY <1>12 DEF Count, Raise
<1>13. ASSUME NEW R \in SUBSET Runs, Extend(R) PROVE Queue'
  <2>1. CASE Refused(R, {})
    BY <1>13, <2>1 DEF Extend, Raise
  <2>2. CASE ~Refused(R, {})
    <3>1. /\ state' = Planned(state, R) /\ queued' = queued \union R /\ delivered' = delivered
          /\ R \subseteq Runs /\ at # "raised"
      BY <1>13, <2>2 DEF Extend
    <3>2. \A s \in Runs : state'[s] = IF s \in R /\ state[s] \in {"absent", "cancelled"}
                                     THEN "planned" ELSE state[s]
      BY <3>1 DEF Planned
    <3>3. LeasedIsAwaited' /\ PlannedIsWanted'
      BY <3>1, <3>2 DEF In, Active, Submitted
    <3>4. \A s \in queued' : state'[s] \notin {"absent", "cancelled"}
      BY <3>1, <3>2 DEF TypeOK
    <3>5. QED
      BY <3>3, <3>4
  <2>3. QED
    BY <2>1, <2>2
<1>14. ASSUME NEW r \in Runs, Held(r) PROVE Queue'
  BY <1>14 DEF Held, Raise
<1>15. ASSUME NEW r \in Runs, Withdraw(r) PROVE Queue'
  <2>1. state[r] = "leased" /\ r \in queued \union delivered /\ at # "raised"
    BY <1>15 DEF Withdraw, Batch, Submitting, In, Active
  <2>2. r \in queued
    BY <2>1 DEF DeliveredIsWhole, Streams
  <2>3. \A s \in Runs : state'[s] = IF s = r THEN "planned" ELSE state[s]
    BY <1>15 DEF Withdraw, TypeOK
  <2>4. queued' = queued /\ delivered' = delivered
    BY <1>15 DEF Withdraw
  <2>5. QED
    BY <2>1, <2>2, <2>3, <2>4 DEF In, TypeOK, Active, Submitted
<1>16. ASSUME NEW r \in Runs, NEW a \in {"queued", "rejected", "unknown"}, NEW b \in BOOLEAN, Submit(r, a, b) PROVE Queue'
  <2>1. state[r] = "leased" /\ r \in queued \union delivered /\ at # "raised"
    BY <1>16 DEF Submit, Batch, Submitting, In, Active
  <2>2. \A s \in Runs : state'[s] = IF s = r THEN a ELSE state[s]
    BY <1>16 DEF Submit, TypeOK
  <2>3. queued' = queued /\ delivered' = delivered
    BY <1>16 DEF Submit
  <2>4. QED
    BY <2>1, <2>2, <2>3 DEF In, TypeOK, Active, Submitted
<1>17. ASSUME NEW P \in SUBSET Runs, PlanShards(P) PROVE Queue'
  <2>1. P \subseteq queued /\ at # "raised"
    BY <1>17 DEF PlanShards, In
  <2>2. \A s \in Runs : state'[s] = IF s \in P THEN "leased" ELSE state[s]
    BY <1>17 DEF PlanShards
  <2>3. queued' = queued /\ delivered' = delivered
    BY <1>17 DEF PlanShards
  <2>4. QED
    BY <2>1, <2>2, <2>3 DEF In, TypeOK, Active, Submitted
<1>18. ASSUME Sleep PROVE Queue'
  BY <1>18 DEF Sleep, Raise
<1>19. ASSUME NEW r \in Runs, Work(r) PROVE Queue'
  BY <1>19 DEF Work, Raise
<1>20. ASSUME RequestPause PROVE Queue'
  BY <1>20 DEF RequestPause, Raise
<1>21. ASSUME Expire PROVE Queue'
  BY <1>21 DEF Expire, Raise
<1>22. CASE UNCHANGED vars
  BY <1>22 DEF vars
<1>23. ASSUME NEW r \in Runs, PullRefused(r) PROVE Queue'
  BY <1>23 DEF PullRefused, Raise
<1> HIDE DEF Queue, LeasedIsAwaited, PlannedIsWanted
<1>24. QED
  BY <1>1, <1>2, <1>3, <1>4, <1>5, <1>6, <1>7, <1>8, <1>9, <1>10, <1>11, <1>12, <1>13, <1>14, <1>15, <1>16, <1>17, <1>18, <1>19, <1>20, <1>21, <1>22, <1>23 DEF Next, Loop

\* The invariant holds in every state the loop can reach.
THEOREM Invariance == Spec => []IInv
<1>1. Init => IInv
  <2> SUFFICES ASSUME Init PROVE IInv
    OBVIOUS
  <2> USE DispatchAssumption DEF Init
  <2>1. TypeOK
    <3>1. Cardinality(Runs) \in Nat
      BY FS_CardinalityType
    <3>2. /\ state \in [Runs -> States] /\ records = state
          /\ read \in [Runs -> 0..Chunks] /\ remote \in [Runs -> {"absent"}]
      BY DEF States
    <3>3. status \in [paused : BOOLEAN, runs : 0..RunBudget, time : BOOLEAN]
      OBVIOUS
    <3>4. active \in 0..Cardinality(Runs) /\ reserved \in 0..RunBudget
      BY <3>1
    <3>5. lifecycle \in {"running", "pausing", "paused"} /\ expired \in BOOLEAN
      OBVIOUS
    <3>6. QED
      BY <3>2, <3>3, <3>4, <3>5 DEF TypeOK, States
  <2>2. In(state, Active) = {} /\ In(state, Active \union {"accepted"}) = {}
    BY DEF In, Active, Submitted
  <2>3. Accounts /\ Parallel
    BY <2>2, FS_EmptySet DEF Accounts, Parallel, WithinParallelism
  <2>4. WithdrawsPlanned
    BY DEF WithdrawsPlanned, Errors
  <2>5. Streams /\ Fresh /\ Batch
    BY DEF Streams, DeliveredIsWhole, Fresh, Planner, Batch
  <2>6. Queue
    BY <2>2 DEF Queue, LeasedIsAwaited, PlannedIsWanted, In
  <2>7. QED
    BY <2>1, <2>3, <2>4, <2>5, <2>6 DEF IInv
<1>2. IInv /\ [Next]_vars => IInv'
  BY TypeStep, AccountsStep, StreamsStep, FreshStep, BatchStep, ParallelStep, WithdrawsStep,
     QueueStep DEF IInv
<1>3. QED
  BY <1>1, <1>2, PTL DEF Spec

\* Every variable keeps its type; the reservation never exceeds the budget.
THEOREM TypeCorrect == Spec => []TypeOK
<1>1. IInv => TypeOK
  BY DEF IInv
<1>2. QED
  BY Invariance, <1>1, PTL

\* The planner only sees accepted results with all their scalars.
THEOREM DeliversWhole == Spec => []DeliveredIsWhole
<1>1. IInv => DeliveredIsWhole
  BY DEF IInv, Streams
<1>2. QED
  BY Invariance, <1>1, PTL

\* No answer of the planner makes the loop forget what it leased.
THEOREM AwaitsLeased == Spec => []LeasedIsAwaited
<1>1. IInv => LeasedIsAwaited
  BY DEF IInv, Queue
<1>2. QED
  BY Invariance, <1>1, PTL

\* The ledger never leases what the planner no longer wants.
THEOREM PlansWanted == Spec => []PlannedIsWanted
<1>1. IInv => PlannedIsWanted
  BY DEF IInv, Queue
<1>2. QED
  BY Invariance, <1>1, PTL

\* The ledger refuses none of the loop's withdrawals.
THEOREM WithdrawsOnlyPlanned == Spec => []WithdrawsPlanned
<1>1. IInv => WithdrawsPlanned
  BY DEF IInv
<1>2. QED
  BY Invariance, <1>1, PTL

\* Whatever is lost or withdrawn, the leases stay within the parallelism.
THEOREM StaysParallel == Spec => []WithinParallelism
<1>1. IInv => WithinParallelism
  BY DEF IInv, Parallel
<1>2. QED
  BY Invariance, <1>1, PTL

-------------------------------------------------------------------------------
(* The refinement of AwaitedRuns.                                          *)

\* What was sent is at work for the ledger, or its result was accepted.
Sent ==
  \A r \in Runs :
    /\ remote[r] # "absent" => state[r] \in Submitted \union {"accepted"}
    /\ state[r] = "accepted" => remote[r] = "finished"

\* What was given is not wanted any more.
Apart == queued \intersect delivered = {}

LEMMA SentStep ==
  Sent /\ TypeOK /\ Fresh /\ Queue /\ Batch /\ [Next]_vars => Sent'
<1> SUFFICES ASSUME Sent, TypeOK, Fresh, Queue, Batch, [Next]_vars PROVE Sent'
  OBVIOUS
<1> USE DEF ledger, member, local
<1>1. ASSUME NEW A \in SUBSET Runs, NEW L \in SUBSET A, Reconcile(A, L) PROVE Sent'
  <2>1. \A s \in Runs : state'[s] = IF s \in L THEN "unknown"
                                    ELSE IF s \in A THEN Observed(s) ELSE state[s]
    BY <1>1 DEF Reconcile
  <2>2. A \subseteq In(state, Submitted) /\ remote' = remote
    BY <1>1 DEF Reconcile
  <2>3. \A s \in Runs : /\ Observed(s) \in Submitted \union {"accepted"}
                        /\ Observed(s) = "accepted" => remote[s] = "finished"
    BY DEF Observed, Submitted, TypeOK
  <2>4. QED
    BY <2>1, <2>2, <2>3 DEF Sent, In, Submitted
<1>2. ASSUME remote' = remote, NEW S \in SUBSET Runs, \A s \in S : state[s] \in Unleased \union {"leased"},
             \A s \in S : state'[s] \in Unleased \union {"leased"},
             \A s \in Runs \ S : state'[s] = state[s]
      PROVE  Sent'
  <2>1. \A s \in S : remote[s] = "absent" /\ state'[s] # "accepted"
    BY <1>2 DEF Sent, Unleased, Submitted
  <2>2. QED
    BY <1>2, <2>1 DEF Sent
<1>3. ASSUME NEW r \in Runs, NEW R \in SUBSET Runs, NEW C \in SUBSET R, Deliver(r, R, C) PROVE Sent'
  <2> DEFINE withdrawn == (queued \ {r}) \ (Pending \union R)
             kept == Cancelled(state, withdrawn)
             changed == withdrawn \union {s \in R : kept[s] \in {"absent", "cancelled"}}
  <2>1. at \in Planner /\ withdrawn \in SUBSET Runs
    BY <1>3 DEF Deliver, Planner, TypeOK
  <2>2. \A s \in withdrawn : state[s] = "planned"
    BY <2>1, Unstarted DEF Pending, TypeOK
  <2>3. state' \in {state, kept, Planned(kept, R)} /\ remote' = remote
    BY <1>3 DEF Deliver
  <2>4. \A s \in Runs : kept[s] = IF s \in withdrawn THEN "cancelled" ELSE state[s]
    BY DEF Cancelled
  <2>5. \A s \in Runs : Planned(kept, R)[s] = IF s \in R /\ kept[s] \in {"absent", "cancelled"}
                                             THEN "planned" ELSE kept[s]
    BY DEF Planned
  <2> HIDE DEF withdrawn, kept
  <2>6. \A s \in changed : state[s] \in Unleased
    BY <2>1, <2>2, <2>4 DEF Unleased
  <2>7. \A s \in changed : state'[s] \in Unleased
    BY <2>1, <2>3, <2>4, <2>5, <2>6 DEF Unleased
  <2>8. \A s \in Runs \ changed : state'[s] = state[s]
    BY <2>3, <2>4, <2>5
  <2>9. changed \in SUBSET Runs
    BY <2>1
  <2>10. QED
    BY <1>2, <2>3, <2>6, <2>7, <2>8, <2>9
<1>4. ASSUME NEW W \in SUBSET Runs, Prune(W) PROVE Sent'
  <2>1. at \in Planner
    BY <1>4 DEF Prune, Planner
  <2>2. \A s \in W : state[s] = "planned"
    BY <1>4, <2>1, Unstarted DEF Prune, TypeOK
  <2>3. state' \in {state, Cancelled(state, W)} /\ remote' = remote
    BY <1>4 DEF Prune
  <2>4. /\ \A s \in W : state'[s] \in Unleased
        /\ \A s \in Runs \ W : state'[s] = state[s]
    BY <2>2, <2>3 DEF Cancelled, Unleased
  <2>5. QED
    BY <1>2, <2>2, <2>3, <2>4 DEF Unleased
<1>5. ASSUME NEW R \in SUBSET Runs, Extend(R) PROVE Sent'
  <2> DEFINE S == {s \in R : state[s] \in {"absent", "cancelled"}}
  <2>1. state' \in {state, Planned(state, R)} /\ remote' = remote
    BY <1>5 DEF Extend
  <2>2. \A s \in S : state[s] \in Unleased /\ state'[s] \in Unleased
    BY <2>1 DEF Planned, Unleased
  <2>3. \A s \in Runs \ S : state'[s] = state[s]
    BY <2>1 DEF Planned
  <2>4. QED
    BY <1>2, <2>1, <2>2, <2>3
<1>6. ASSUME NEW r \in Runs, Withdraw(r) PROVE Sent'
  <2>1. state[r] = "leased" /\ remote' = remote /\ state' = [state EXCEPT ![r] = "planned"]
    BY <1>6 DEF Withdraw, Batch, Submitting
  <2>2. state'[r] \in Unleased /\ \A s \in Runs \ {r} : state'[s] = state[s]
    BY <2>1 DEF Unleased, TypeOK
  <2>3. /\ {r} \in SUBSET Runs
        /\ \A s \in {r} : state[s] \in Unleased \union {"leased"} /\ state'[s] \in Unleased
    BY <2>1, <2>2
  <2>4. QED
    BY <1>2, <2>1, <2>2, <2>3
<1>7. ASSUME NEW r \in Runs, NEW a \in {"queued", "rejected", "unknown"}, NEW b \in BOOLEAN, Submit(r, a, b) PROVE Sent'
  <2>1. state[r] = "leased" /\ state' = [state EXCEPT ![r] = a]
    BY <1>7 DEF Submit, Batch, Submitting
  <2>2. remote[r] = "absent"
    BY <2>1 DEF Sent, Submitted
  <2>3. remote' = (IF b THEN [remote EXCEPT ![r] = "waiting"] ELSE remote)
    BY <1>7 DEF Submit
  <2>4. \A s \in Runs \ {r} : state'[s] = state[s] /\ remote'[s] = remote[s]
    BY <2>1, <2>3 DEF TypeOK
  <2>5. state'[r] = a /\ a # "accepted"
    BY <2>1 DEF TypeOK
  <2>6. a = "rejected" => ~ b
    BY <1>7 DEF Submit
  <2>7. remote'[r] # "absent" => state'[r] \in Submitted
    <3>1. CASE b
      BY <2>5, <2>6, <3>1 DEF Submitted
    <3>2. CASE ~ b
      BY <2>2, <2>3, <3>2
    <3>3. QED
      BY <3>1, <3>2
  <2>8. QED
    BY <2>4, <2>5, <2>7 DEF Sent
<1>8. ASSUME NEW P \in SUBSET Runs, PlanShards(P) PROVE Sent'
  <2>1. /\ \A s \in P : state[s] \in Unleased /\ state'[s] = "leased"
        /\ \A s \in Runs \ P : state'[s] = state[s]
        /\ remote' = remote
    BY <1>8 DEF PlanShards, In, Unleased
  <2>2. QED
    BY <1>2, <2>1
<1>9. ASSUME NEW r \in Runs, Work(r) PROVE Sent'
  <2>1. /\ remote[r] \in {"waiting", "running"} /\ remote'[r] # "absent" /\ state' = state
        /\ \A s \in Runs \ {r} : remote'[s] = remote[s]
    BY <1>9 DEF Work, TypeOK
  <2>2. QED
    BY <2>1 DEF Sent
<1>10. CASE UNCHANGED <<state, remote>>
  BY <1>10 DEF Sent
<1>11. QED
  BY <1>1, <1>3, <1>4, <1>5, <1>6, <1>7, <1>8, <1>9, <1>10
  DEF Next, Loop, ReadRecords, Pull, PullLost, PullUnknown, PullRefused, Pulled, Rejected, Delivered, Decide,
      Count, Held, Sleep, RequestPause, Expire, vars

\* What may be taken back has not started.
LEMMA Idle ==
  ASSUME Sent, TypeOK, NEW r \in Runs, state[r] \in Unleased \union {"leased"}
  PROVE  Life[r] = "idle"
BY DEF Sent, Unleased, Submitted, Life

(***************************************************************************)
(* Every step of the call is one AwaitedRuns allows, or none it can see.   *)
(***************************************************************************)
LEMMA AwaitedStep ==
  IInv /\ Sent /\ Apart /\ [Next]_vars => [Promise!Next]_(Promise!vars) /\ Apart'
<1> SUFFICES ASSUME IInv, Sent, Apart, [Next]_vars PROVE [Promise!Next]_(Promise!vars) /\ Apart'
  OBVIOUS
<1> USE DEF ledger, member, local
<1>0. TypeOK /\ Streams /\ DeliveredIsWhole /\ Fresh /\ Queue /\ Batch /\ LeasedIsAwaited
  BY DEF IInv, Streams, Queue
<1>1. CASE UNCHANGED <<queued, delivered, remote, read>>
  <2>1. Life' = Life
    BY <1>1 DEF Life
  <2>2. QED
    BY <1>1, <2>1 DEF Promise!vars, Apart
<1>2. ASSUME NEW r \in Runs, Pull(r) PROVE [Promise!Next]_(Promise!vars) /\ Apart'
  <2>1. PICK n \in ReadBy(r) : read' = [read EXCEPT ![r] = n]
    BY <1>2 DEF Pull
  <2>2. Life' = Life /\ UNCHANGED <<queued, delivered>>
    BY <1>2 DEF Pull, Life
  <2>3. CASE n = read[r]
    <3>1. read' = read
      BY <1>0, <2>1, <2>3 DEF TypeOK
    <3>2. QED
      BY <2>2, <3>1 DEF Promise!vars, Apart
  <2>4. CASE n = read[r] + 1
    <3>1. read[r] < Chunks /\ read' = [read EXCEPT ![r] = @ + 1] /\ remote[r] # "waiting"
      BY <1>0, <2>1, <2>4, DispatchAssumption DEF ReadBy, TypeOK
    <3>2. remote[r] \in {"running", "finished"}
      BY <1>0, <1>2, <3>1 DEF Pull, TypeOK
    <3>3. Life[r] # "idle"
      BY <3>2 DEF Life
    <3>4. r \in queued
      <4>1. state[r] \in Submitted \union {"accepted"}
        BY <3>2 DEF Sent
      <4>2. read[r] # Chunks
        BY <1>0, <3>1, DispatchAssumption DEF TypeOK
      <4>3. r \notin delivered
        BY <1>0, <4>2 DEF DeliveredIsWhole
      <4>4. QED
        BY <1>0, <4>1, <4>3 DEF LeasedIsAwaited, In, Active
    <3>5. Promise!Hear(r)
      BY <2>2, <3>1, <3>3, <3>4 DEF Promise!Hear
    <3>6. QED
      BY <2>2, <3>5 DEF Promise!Next, Apart
  <2>5. QED
    BY <2>1, <2>3, <2>4 DEF ReadBy
<1>3. ASSUME NEW r \in Runs, NEW R \in SUBSET Runs, NEW C \in SUBSET R, Deliver(r, R, C)
      PROVE  [Promise!Next]_(Promise!vars) /\ Apart'
  <2> DEFINE rest == queued \ {r}
             withdrawn == rest \ (Pending \union R)
  <2>1. /\ r \in queued /\ state[r] = "accepted" /\ read[r] = Chunks
        /\ delivered' = delivered \union {r}
    BY <1>0, <1>3 DEF Deliver, Deliverable, Fresh, Streams
  <2>2. Life[r] = "finished"
    BY <2>1 DEF Sent, Life
  <2>3. Life' = Life /\ read' = read
    BY <1>3 DEF Deliver, Life
  <2>4. \A s \in withdrawn : s \in Runs /\ state[s] = "planned"
    <3>1. at \in Planner
      BY <1>3 DEF Deliver, Planner
    <3>2. QED
      BY <1>0, <3>1, Unstarted DEF Pending, TypeOK
  <2>5. withdrawn \in SUBSET Runs /\ \A s \in withdrawn : Life[s] = "idle"
    BY <1>0, <2>4, Idle DEF Unleased
  <2>6. CASE R \intersect (Pending \union delivered \union {r}) # {}
    <3>1. queued' = rest
      BY <1>3, <2>6 DEF Deliver
    <3>2. Promise!Give(r, {}, {})
      BY <2>1, <2>2, <2>3, <3>1 DEF Promise!Give
    <3>3. QED
      BY <2>1, <3>1, <3>2 DEF Promise!Next, Apart
  <2>7. CASE R \intersect (Pending \union delivered \union {r}) = {}
    <3>1. Withdrawable(state, withdrawn)
      BY <2>4 DEF Withdrawable
    <3>2. queued' = (rest \intersect Pending) \union R
      BY <1>3, <2>7, <3>1 DEF Deliver, Requeued
    <3>3. queued' = (queued \ ({r} \union withdrawn)) \union R
      BY <3>2
    <3>4. r \notin R /\ R \intersect delivered = {}
      BY <2>7
    <3>5. ASSUME NEW q \in R PROVE Life[q] = "idle"
      <4>1. records[q] \in {"planned", "absent"} /\ at \in Planner
        BY <1>3, <2>7 DEF Pending, Deliver, Planner
      <4>2. state[q] \in Unleased
        BY <1>0, <4>1 DEF Fresh, Unleased
      <4>3. QED
        BY <1>0, <4>2, Idle
    <3>6. Promise!Give(r, R, withdrawn)
      <4>1. \A q \in R \union withdrawn : Life[q] = "idle"
        BY <2>5, <3>5
      <4>2. QED
        BY <2>1, <2>2, <2>3, <3>3, <3>4, <4>1 DEF Promise!Give
    <3>7. Apart'
      BY <2>1, <3>3, <3>4 DEF Apart
    <3>8. QED
      BY <2>5, <3>6, <3>7 DEF Promise!Next
  <2>8. QED
    BY <2>6, <2>7
<1>4. ASSUME NEW W \in SUBSET Runs, Prune(W) PROVE [Promise!Next]_(Promise!vars) /\ Apart'
  <2>1. at \in Planner
    BY <1>4 DEF Prune, Planner
  <2>2. \A s \in W : state[s] = "planned"
    BY <1>0, <1>4, <2>1, Unstarted DEF Prune, TypeOK
  <2>3. queued' = queued \ W /\ delivered' = delivered /\ read' = read /\ Life' = Life
    BY <1>4, <2>2 DEF Prune, Withdrawable, Life
  <2>4. \A s \in W : Life[s] = "idle"
    BY <1>0, <2>2, Idle DEF Unleased
  <2>5. Promise!Revise({}, W)
    BY <2>3, <2>4 DEF Promise!Revise
  <2>6. QED
    BY <2>3, <2>5 DEF Promise!Next, Apart
<1>5. ASSUME NEW R \in SUBSET Runs, Extend(R) PROVE [Promise!Next]_(Promise!vars) /\ Apart'
  <2>1. CASE Refused(R, {})
    BY <1>1, <1>5, <2>1 DEF Extend, Raise
  <2>2. CASE ~ Refused(R, {})
    <3>1. queued' = queued \union R /\ delivered' = delivered /\ read' = read /\ Life' = Life
      BY <1>5, <2>2 DEF Extend, Life
    <3>2. \A s \in R : state[s] \in {"absent", "cancelled"}
      BY <1>5 DEF Extend, New, In
    <3>3. \A s \in R : Life[s] = "idle" /\ s \notin delivered
      BY <1>0, <3>2, Idle DEF Unleased, DeliveredIsWhole
    <3>4. Promise!Revise(R, {})
      BY <3>1, <3>3 DEF Promise!Revise
    <3>5. QED
      BY <3>1, <3>3, <3>4 DEF Promise!Next, Apart
  <2>3. QED
    BY <2>1, <2>2
<1>6. ASSUME NEW r \in Runs, NEW a \in {"queued", "rejected", "unknown"}, NEW b \in BOOLEAN, Submit(r, a, b)
      PROVE  [Promise!Next]_(Promise!vars) /\ Apart'
  <2>1. state[r] = "leased"
    BY <1>0, <1>6 DEF Submit, Batch, Submitting
  <2>2. remote[r] = "absent"
    BY <2>1 DEF Sent, Submitted
  <2>3. remote' = (IF b THEN [remote EXCEPT ![r] = "waiting"] ELSE remote)
    BY <1>6 DEF Submit
  <2>4. \A s \in Runs : remote'[s] = remote[s] \/ (remote[s] = "absent" /\ remote'[s] = "waiting")
    BY <1>0, <2>2, <2>3 DEF TypeOK
  <2>5. Life' = Life
    BY <2>4 DEF Life
  <2>6. UNCHANGED <<queued, delivered, read>>
    BY <1>6 DEF Submit
  <2>7. QED
    BY <2>5, <2>6 DEF Promise!vars, Apart
<1>7. ASSUME NEW r \in Runs, Work(r) PROVE [Promise!Next]_(Promise!vars) /\ Apart'
  <2>1. remote[r] \in {"waiting", "running"} /\ UNCHANGED <<queued, delivered, read>>
    BY <1>7 DEF Work
  <2>2. state[r] \in Submitted
    BY <2>1 DEF Sent
  <2>3. r \in queued
    BY <1>0, <2>2 DEF LeasedIsAwaited, DeliveredIsWhole, In, Active, Submitted
  <2>4. CASE remote[r] = "waiting" /\ remote' = [remote EXCEPT ![r] = "running"]
    <3>1. Life[r] = "idle" /\ Life' = [Life EXCEPT ![r] = "working"]
      BY <1>0, <2>4 DEF Life, TypeOK
    <3>2. Promise!Start(r)
      BY <2>1, <2>3, <3>1 DEF Promise!Start
    <3>3. QED
      BY <2>1, <3>2 DEF Promise!Next, Apart
  <2>5. CASE remote[r] = "running" /\ remote' = [remote EXCEPT ![r] = "finished"]
    <3>1. Life[r] = "working" /\ Life' = [Life EXCEPT ![r] = "finished"]
      BY <1>0, <2>5 DEF Life, TypeOK
    <3>2. Promise!Finish(r)
      BY <2>1, <2>3, <3>1 DEF Promise!Finish
    <3>3. QED
      BY <2>1, <3>2 DEF Promise!Next, Apart
  <2>6. QED
    BY <1>7, <2>4, <2>5 DEF Work
<1>8. QED
  BY <1>1, <1>2, <1>3, <1>4, <1>5, <1>6, <1>7
  DEF Next, Loop, Reconcile, ReadRecords, PullLost, PullUnknown, PullRefused, Pulled, Rejected, Delivered,
      Decide, Count, Held, Withdraw, PlanShards, Sleep, RequestPause, Expire, vars

\* Whatever fails and whatever the planner answers, the call keeps its promise.
THEOREM CallKeepsPromise == Spec => ImplementsAwaitedRuns
<1>1. Init => Promise!Init /\ Sent /\ Apart
  <2> SUFFICES ASSUME Init PROVE Promise!Init /\ Sent /\ Apart
    OBVIOUS
  <2>1. Life = [r \in Runs |-> "idle"]
    BY DEF Init, Life
  <2>2. Promise!Init /\ Apart
    BY <2>1 DEF Init, Promise!Init, Apart
  <2>3. Sent
    BY DEF Init, Sent
  <2>4. QED
    BY <2>2, <2>3
<1>2. IInv /\ Sent /\ Apart /\ [Next]_vars => Sent' /\ Apart' /\ [Promise!Next]_(Promise!vars)
  BY SentStep, AwaitedStep DEF IInv
<1>3. QED
  BY <1>1, <1>2, Invariance, PTL DEF Spec, ImplementsAwaitedRuns, Promise!Spec
================================================================================
