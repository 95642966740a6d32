-------------------------- MODULE CoordinatedDispatch --------------------------
(***************************************************************************)
(* The loop between the planner of a Study and its fleet, one call of      *)
(* CoordinatedDispatcher.__call__ (work/coordinated_dispatch.py).  Each    *)
(* round it asks the executors, reads the records of the ledger, pulls     *)
(* scalars, gives finished results to the planner, which answers with the  *)
(* Runs it wants next, then reads the ledger again, leases and submits.    *)
(*                                                                         *)
(* The ledger is StudyCoordinator's, reduced to what the loop can tell     *)
(* apart; a Run has one attempt that was sent (nothing here calls          *)
(* retry_lost) and a shard of its own.  All executors own allocations.     *)
(* Decisions are taken from the records read earlier in the round, so      *)
(* every read and every use of it is a step of its own.                    *)
(***************************************************************************)
EXTENDS Naturals, FiniteSets

CONSTANTS
  Runs,         \* Runs the planner can ask for
  First,        \* specifications of this call
  Chunks,       \* chunks of a Run's scalars
  Parallelism,  \* the argument parallelism
  RunBudget,    \* max_runs
  Requests,     \* what may come up: "pause", "time", "defer", "prune"
  Faults,       \* "lost" calls, "refuse"d answers, "reject"ed shards, "drain"ing members
  None

\* What a call can raise.
Errors == {"observation", "pull", "chunk", "rejected", "repeat", "withdraw", "proposal", "paused", "time", "budget"}

ASSUME DispatchAssumption ==
  /\ IsFiniteSet(Runs) /\ First \subseteq Runs /\ First # {}
  /\ Chunks \in Nat \ {0} /\ Parallelism \in Nat \ {0} /\ RunBudget \in Nat
  /\ None \notin Errors

VARIABLES
  state,      \* each record's state; "absent" when there is none
  attempted,  \* records with an attempt
  reserved,   \* attempts_reserved
  lifecycle,  \* of the Study
  expired,    \* is the time budget used up?
  remote,     \* each Run at its member: absent, waiting, running, finished
  read,       \* chunks of each Run acknowledged
  at,         \* where the loop is
  error,      \* why it raised
  queued, delivered, complete,  \* the loop's variables, as sets of keys
  records,    \* the last run_records(): what state was
  todo,       \* Runs still to be pulled, or submitted, in this round
  status,     \* the last snapshot()
  active      \* computed from the last records

ledger == <<state, attempted, reserved, lifecycle>>
member == <<remote, read>>
local == <<queued, delivered, complete, records, todo, status, active>>
vars == <<ledger, expired, member, at, error, local>>

Submitted == {"queued", "running", "unknown"}
Active == Submitted \union {"leased"}
In(s, S) == {r \in Runs : s[r] \in S}

Init ==
  /\ state = [r \in Runs |-> IF r \in First THEN "planned" ELSE "absent"]
  /\ attempted = {} /\ reserved = 0 /\ lifecycle = "running" /\ expired = FALSE
  /\ remote = [r \in Runs |-> "absent"] /\ read = [r \in Runs |-> 0]
  /\ at = "reconcile" /\ error = None
  /\ queued = First /\ delivered = {} /\ complete = {}
  /\ records = state /\ todo = {} /\ active = 0
  /\ status = [paused |-> FALSE, runs |-> RunBudget, time |-> TRUE]

\* What if only request_pause looked?
SettledNever(s) == lifecycle
\* The epilogue of every transaction, see StudyCoordinator's Commit.
Settled(s) ==
  IF lifecycle = "pausing" /\ In(s, Submitted) = {} THEN "paused" ELSE lifecycle

Raise(e) == at' = "raised" /\ error' = e

-----------------------------------------------------------------------------
(* Results in: reconcile, read, pull.                                      *)

Observed(r) ==
  CASE remote[r] = "finished" -> "accepted"
    [] remote[r] = "running" -> "running"
    [] remote[r] = "waiting" -> IF state[r] = "running" THEN "running" ELSE "queued"
    [] OTHER -> "unknown"

\* Members that do not answer own the Runs of lost.  A call that fails at a
\* member, an allocation that ended without its results and evidence that
\* contradicts an accepted result raise, the Runs asked for before being written.
Reconcile(asked, lost) ==
  /\ at = "reconcile"
  /\ asked \subseteq In(state, Submitted) /\ lost \subseteq asked
  /\ state' = [r \in Runs |-> IF r \in lost THEN "unknown"
                              ELSE IF r \in asked THEN Observed(r) ELSE state[r]]
  /\ lifecycle' = Settled(state')
  /\ \/ asked = In(state, Submitted) /\ at' = "read" /\ UNCHANGED error
     \/ asked # In(state, Submitted) /\ "refuse" \in Faults /\ Raise("observation")
  /\ UNCHANGED <<attempted, reserved, expired, member, local>>

ReadRecords ==
  /\ at = "read"
  /\ records' = state
  /\ todo' = (queued \intersect attempted) \ complete
  /\ at' = "pull"
  /\ UNCHANGED <<ledger, expired, member, error, queued, delivered, complete, status, active>>

\* A response holds one chunk at most; a running Run may have written one.
ReadBy(r) ==
  {n \in {read[r], read[r] + 1} :
     /\ n <= Chunks
     /\ n = read[r] => remote[r] # "finished" \/ read[r] = Chunks
     /\ n > read[r] => remote[r] # "waiting"}

\* The response to a finished Run says so with its last chunk.
\* What if the first answer of a finished Run were taken for its last?
CompleteIfFinished(r, n) == remote[r] = "finished"
Complete(r, n) == remote[r] = "finished" /\ n = Chunks

Pull(r) ==
  /\ at = "pull" /\ r \in todo /\ remote[r] # "absent"
  /\ \E n \in ReadBy(r) :
       /\ read' = [read EXCEPT ![r] = n]
       /\ complete' = IF Complete(r, n) THEN complete \union {r} ELSE complete
  /\ todo' = todo \ {r}
  /\ UNCHANGED <<ledger, expired, remote, at, error, queued, delivered, records, status, active>>

PullLost(r) ==
  /\ at = "pull" /\ r \in todo /\ "lost" \in Faults
  /\ todo' = todo \ {r}
  /\ UNCHANGED <<ledger, expired, member, at, error, queued, delivered, complete, records,
                 status, active>>

\* scientific_stream reads the wave in the inbox.  Its FileNotFoundError is
\* a RuntimeError of _member_call, which the loop does not expect.
PullUnknown(r) ==
  /\ at = "pull" /\ r \in todo /\ remote[r] = "absent"
  /\ Raise("pull")
  /\ UNCHANGED <<ledger, expired, member, local>>

\* ingest refuses a chunk with a ValueError, which the loop does not expect.
PullRefused(r) ==
  /\ at = "pull" /\ r \in todo /\ remote[r] # "absent" /\ "refuse" \in Faults
  /\ Raise("chunk")
  /\ UNCHANGED <<ledger, expired, member, local>>

Pulled ==
  /\ at = "pull" /\ todo = {}
  /\ at' = "deliver"
  /\ UNCHANGED <<ledger, expired, member, error, local>>

-----------------------------------------------------------------------------
(* Results out: the planner is given one result after the other, and       *)
(* answers each with the Runs it wants to have queued.                     *)

\* coordinator.enqueue and replan_unstarted; the planner gave the Runs of
\* changed another priority.
Refused(R, changed) ==
  \E r \in R :
    \/ state[r] = "absent" /\ lifecycle # "running"
    \/ state[r] = "cancelled" /\ (lifecycle # "running" \/ r \in attempted)
    \/ state[r] = "planned" /\ r \in changed /\ (lifecycle # "running" \/ r \in attempted)

Planned(s, R) == [r \in Runs |-> IF r \in R /\ s[r] \in {"absent", "cancelled"} THEN "planned" ELSE s[r]]
Cancelled(s, R) == [r \in Runs |-> IF r \in R THEN "cancelled" ELSE s[r]]

\* Runs that are not the planner's to take back.
\* What if only Runs at a member were?
PendingOwned == In(records, Active)
Pending == {r \in Runs : records[r] \notin {"planned", "absent"}}

\* What the planner may answer: planned Runs, new ones, or one it deferred.
New == In(state, IF "defer" \in Requests THEN {"absent", "cancelled"} ELSE {"absent"})
Wanted == (queued \ Pending) \union New

Rejected ==
  /\ at = "deliver"
  /\ \E r \in queued : records[r] = "rejected"
  /\ Raise("rejected")
  /\ UNCHANGED <<ledger, expired, member, local>>

Deliverable(r) ==
  r \in queued /\ records[r] = "accepted" /\ r \in complete

\* What if the planner's answer replaced the whole queue?
RequeuedOnly(rest, refill) == refill
Requeued(rest, refill) == (rest \intersect Pending) \union refill

Withdrawable(s, R) == \A r \in R : s[r] = "planned"

Deliver(r, refill, changed) ==
  /\ at = "deliver" /\ Deliverable(r)
  /\ refill \subseteq Wanted /\ changed \subseteq refill
  /\ delivered' = delivered \union {r}
  /\ LET rest == queued \ {r}
         withdrawn == rest \ (Pending \union refill)
         kept == Cancelled(state, withdrawn)
     IN IF refill \intersect (Pending \union delivered \union {r}) # {}
          THEN Raise("repeat") /\ queued' = rest /\ UNCHANGED state
        ELSE IF ~Withdrawable(state, withdrawn)
          THEN Raise("withdraw") /\ queued' = rest /\ UNCHANGED state
        ELSE /\ queued' = Requeued(rest, refill)
             /\ IF Refused(refill, changed)
                  THEN Raise("proposal") /\ state' = kept
                  ELSE state' = Planned(kept, refill) /\ UNCHANGED <<at, error>>
  /\ UNCHANGED <<attempted, reserved, lifecycle, expired, member, complete, records, todo,
                 status, active>>

Delivered ==
  /\ at = "deliver" /\ \A r \in queued : ~Deliverable(r) /\ records[r] # "rejected"
  /\ at' = "prune"
  /\ UNCHANGED <<ledger, expired, member, error, local>>

\* Candidates whose sibling was asked to stop are withdrawn before they start.
Prune(W) ==
  /\ at = "prune"
  /\ W \subseteq {r \in queued : records[r] = "planned"}
  /\ W # {} => "prune" \in Requests
  /\ IF Withdrawable(state, W)
       THEN /\ state' = Cancelled(state, W) /\ queued' = queued \ W
            /\ at' = "decide" /\ UNCHANGED error
       ELSE Raise("withdraw") /\ UNCHANGED <<state, queued>>
  /\ UNCHANGED <<attempted, reserved, lifecycle, expired, member, delivered, complete, records,
                 todo, status, active>>

-----------------------------------------------------------------------------
(* New work: look at the Study, then lease and submit.                     *)

Decide ==
  /\ at = "decide"
  /\ IF queued = {} THEN at' = "done" /\ UNCHANGED <<status, error>>
     ELSE /\ status' = [paused |-> lifecycle = "paused",
                        runs |-> RunBudget - reserved, time |-> ~expired]
          /\ IF lifecycle = "paused" THEN Raise("paused") ELSE at' = "count" /\ UNCHANGED error
  /\ UNCHANGED <<ledger, expired, member, queued, delivered, complete, records, todo, active>>

Count ==
  /\ at = "count"
  /\ records' = state
  /\ active' = Cardinality(In(state, Active))
  /\ IF ~status.time /\ In(state, Submitted) = {}
       THEN Raise("time") ELSE at' = "extend" /\ UNCHANGED error
  /\ UNCHANGED <<ledger, expired, member, queued, delivered, complete, todo, status>>

Room == IF Parallelism >= active THEN Parallelism - active ELSE 0

\* on_resource_blocked, asked when the members have more slots than Runs wait.
Extend(R) ==
  /\ at = "extend"
  /\ R \subseteq New
  /\ R # {} => Room > Cardinality(In(records, {"planned"}))
  /\ IF Refused(R, {}) THEN Raise("proposal") /\ UNCHANGED <<state, queued, todo>>
     ELSE /\ state' = Planned(state, R) /\ queued' = queued \union R
          /\ todo' = In(state, {"leased"})
          /\ at' = "resubmit" /\ UNCHANGED error
  /\ UNCHANGED <<attempted, reserved, lifecycle, expired, member, delivered, complete, records,
                 status, active>>

\* submit_shard before it crosses the provider boundary.
Held(r) ==
  /\ at \in {"resubmit", "submit"} /\ r \in todo
  /\ lifecycle # "running" \/ expired
  /\ todo' = todo \ {r}
  /\ UNCHANGED <<ledger, expired, member, at, error, queued, delivered, complete, records,
                 status, active>>

Withdraw(r) ==
  /\ at \in {"resubmit", "submit"} /\ r \in todo /\ "drain" \in Faults
  /\ lifecycle = "running" /\ ~expired
  /\ state' = [state EXCEPT ![r] = "planned"] /\ reserved' = reserved - 1
  /\ todo' = todo \ {r}
  /\ UNCHANGED <<attempted, lifecycle, expired, member, at, error, queued, delivered, complete,
                 records, status, active>>

\* The answer: acknowledged, rejected, or lost before or after it arrived.
Submit(r, answer, arrives) ==
  /\ at \in {"resubmit", "submit"} /\ r \in todo
  /\ lifecycle = "running" /\ ~expired
  /\ answer = "queued" => arrives
  /\ answer = "rejected" => ~arrives /\ "reject" \in Faults
  /\ answer = "unknown" => "lost" \in Faults
  /\ state' = [state EXCEPT ![r] = answer]
  /\ reserved' = IF answer = "rejected" THEN reserved - 1 ELSE reserved
  /\ remote' = IF arrives THEN [remote EXCEPT ![r] = "waiting"] ELSE remote
  /\ todo' = todo \ {r}
  /\ UNCHANGED <<attempted, lifecycle, expired, read, at, error, queued, delivered, complete,
                 records, status, active>>

PlanShards(P) ==
  /\ at = "resubmit" /\ todo = {}
  /\ P \subseteq In(state, {"planned"})
  /\ Cardinality(P) <= Room /\ reserved + Cardinality(P) <= RunBudget
  /\ P # {} => lifecycle = "running" /\ ~expired
  /\ state' = [r \in Runs |-> IF r \in P THEN "leased" ELSE state[r]]
  /\ attempted' = attempted \union P /\ reserved' = reserved + Cardinality(P)
  /\ todo' = P /\ at' = "submit"
  /\ UNCHANGED <<lifecycle, expired, member, error, queued, delivered, complete, records,
                 status, active>>

Exhausted == active = 0 /\ (status.runs = 0 \/ ~status.time)

Sleep ==
  /\ at = "submit" /\ todo = {}
  /\ IF Exhausted THEN Raise("budget") ELSE at' = "reconcile" /\ UNCHANGED error
  /\ UNCHANGED <<ledger, expired, member, local>>

-----------------------------------------------------------------------------
(* What happens meanwhile.                                                 *)

Work(r) ==
  /\ \/ remote[r] = "waiting" /\ remote' = [remote EXCEPT ![r] = "running"]
     \/ remote[r] = "running" /\ remote' = [remote EXCEPT ![r] = "finished"]
  /\ UNCHANGED <<ledger, expired, read, at, error, local>>

RequestPause ==
  /\ "pause" \in Requests /\ lifecycle = "running"
  /\ lifecycle' = IF In(state, Submitted) = {} THEN "paused" ELSE "pausing"
  /\ UNCHANGED <<state, attempted, reserved, expired, member, at, error, local>>

Expire ==
  /\ "time" \in Requests /\ ~expired /\ expired' = TRUE
  /\ UNCHANGED <<ledger, member, at, error, local>>

-----------------------------------------------------------------------------
Loop ==
  \/ (\E asked \in SUBSET Runs : \E lost \in SUBSET asked :
        (lost # {} => "lost" \in Faults) /\ Reconcile(asked, lost))
  \/ ReadRecords
  \/ (\E r \in Runs : Pull(r) \/ PullLost(r) \/ PullUnknown(r) \/ PullRefused(r)) \/ Pulled
  \/ Rejected
  \/ (\E r \in Runs, refill \in SUBSET Runs : \E changed \in SUBSET refill : Deliver(r, refill, changed))
  \/ Delivered \/ (\E W \in SUBSET Runs : Prune(W)) \/ Decide \/ Count
  \/ (\E R \in SUBSET Runs : Extend(R))
  \/ (\E r \in Runs : Held(r) \/ Withdraw(r)
        \/ \E answer \in {"queued", "rejected", "unknown"}, arrives \in BOOLEAN :
             Submit(r, answer, arrives))
  \/ (\E P \in SUBSET Runs : PlanShards(P)) \/ Sleep

Next == Loop \/ (\E r \in Runs : Work(r)) \/ RequestPause \/ Expire

Spec == Init /\ [][Next]_vars

(***************************************************************************)
(* The loop runs, workers end, members answer and report again and again,  *)
(* and plan_shards leases what room, budget and members allow: it never    *)
(* leaves every member idle beside a planned Run for good.                 *)
(***************************************************************************)
Fairness ==
  /\ WF_vars(Loop) /\ \A r \in Runs : WF_vars(Work(r))
  /\ SF_vars(Reconcile(In(state, Submitted), {})) /\ \A r \in Runs : SF_vars(Pull(r) \/ PullUnknown(r))
  /\ SF_vars(\E P \in SUBSET Runs \ {{}} : PlanShards(P))
  /\ \A r \in Runs : SF_vars(Submit(r, "queued", TRUE))

FairSpec == Spec /\ Fairness

-----------------------------------------------------------------------------
(* Properties.                                                             *)

\* Every variable holds what the loop and the ledger can write there.
TypeOK ==
  /\ state \in [Runs -> {"absent", "planned", "cancelled", "leased", "queued", "running",
                         "unknown", "rejected", "accepted"}]
  /\ attempted \subseteq Runs /\ reserved \in 0..RunBudget
  /\ lifecycle \in {"running", "pausing", "paused"} /\ expired \in BOOLEAN
  /\ remote \in [Runs -> {"absent", "waiting", "running", "finished"}]
  /\ read \in [Runs -> 0..Chunks]
  /\ at \in {"reconcile", "read", "pull", "deliver", "prune", "decide", "count", "extend",
             "resubmit", "submit", "done", "raised"}
  /\ error \in Errors \union {None}
  /\ queued \subseteq Runs /\ delivered \subseteq Runs /\ complete \subseteq Runs
  /\ records \in [Runs -> {"absent", "planned", "cancelled", "leased", "queued", "running",
                           "unknown", "rejected", "accepted"}]
  /\ todo \subseteq Runs /\ active \in 0..Cardinality(Runs)
  /\ status \in [paused : BOOLEAN, runs : 0..RunBudget, time : BOOLEAN]

(* The planner is given a result only when the ledger accepted it and all  *)
(* scalars of the Run were acknowledged.                                   *)
DeliveredIsWhole ==
  \A r \in delivered : state[r] = "accepted" /\ read[r] = Chunks

(* What was leased is awaited until its result was delivered: no answer of *)
(* the planner makes the loop forget a Run that computes or has a result.  *)
LeasedIsAwaited == In(state, Active \union {"accepted"}) \subseteq queued \union delivered

(* The ledger can lease only what the planner still wants.                 *)
PlannedIsWanted == In(state, {"planned"}) \subseteq queued

(* The planner's answers, given for records of an earlier read, never take *)
(* back a Run that was leased meanwhile (withdraw_planned does not raise). *)
WithdrawsPlanned == error # "withdraw"

(* The leases alive, unsent and unknown ones included, keep within the     *)
(* parallelism the planner asked for.                                      *)
WithinParallelism == Cardinality(In(state, Active)) <= Parallelism

(* The loop does not wait for ever, whatever is lost, paused, withdrawn or *)
(* short of budget: every call returns or raises.                          *)
LoopEnds == <>(at \in {"done", "raised"})

(* "Study budget exhausted with required evidence still pending." is said  *)
(* only of a Study that lacks a result.                                    *)
BudgetRaiseIsTrue ==
  error \in {"budget", "time"} => \E r \in queued : state[r] # "accepted"

\* What the planner can know of the work on its Runs.
Life == [r \in Runs |-> CASE remote[r] = "running" -> "working"
                          [] remote[r] = "finished" -> "finished"
                          [] OTHER -> "idle"]

Promise == INSTANCE AwaitedRuns WITH
  awaited <- queued, given <- delivered, life <- Life, heard <- read

(* The call keeps AwaitedRuns: a Run computes only while the planner wants *)
(* it, is given up only before it starts, and its result is given once,    *)
(* whole, and never asked for again.                                       *)
ImplementsAwaitedRuns == Promise!Spec
===============================================================================
