---------------------------- MODULE StudyCoordinator ----------------------------
(***************************************************************************)
(* The durable ledger of a coordinated Study: which Run is leased to which *)
(* cluster, what was sent across the provider boundary, what evidence was  *)
(* accepted and how much of the Run budget is spent.  One action is one    *)
(* transaction of controlplane/StudyCoordinator.py; the provider calls     *)
(* happen between transactions and are modelled by `inflight' and `remote'.*)
(*                                                                         *)
(* A lease is the pair <<run, attempt number>>: the uuid of the code is    *)
(* fresh for each of them.  A shard is the non-empty set of the leases it  *)
(* carries, which is what its digest is computed from.                     *)
(***************************************************************************)
EXTENDS Integers, FiniteSets

CONSTANTS
  Runs,         \* logical Run keys; the order of numbers is the order of keys
  Clusters,     \* members the fleet may contain
  Fleet,        \* members at initialisation
  Priorities,   \* priority classes the planner uses
  Outcomes,     \* terminal states an evidence envelope may carry
  RunBudget,    \* max_runs of the Study
  TimeBudget,   \* does the Study have max_time_seconds?
  Controls,     \* states the operator gives to members
  Fleets,       \* member sets of the catalogs given to update_fleet
  Capacity,     \* resident Runs an executor can hold, per cluster
  RunCap,       \* max_runs of a member
  JobCap,       \* max_inflight_jobs of a member
  Compatible,   \* clusters whose offer passes the per-Run filters of the broker
  MaxRetries,   \* maximum_retries given to retry_lost
  MaxAttempts,  \* bound of the model: attempts of one Run
  None          \* JSON null

ASSUME ConstantsAssumption ==
  /\ Runs \subseteq Nat /\ IsFiniteSet(Runs)
  /\ IsFiniteSet(Clusters) /\ Fleet \subseteq Clusters
  /\ Priorities # {} /\ Priorities \subseteq {"required", "decision", "confirmation", "primary", "predictive"}
  /\ Outcomes \subseteq {"completed", "pruned", "failed", "cancelled"}
  /\ RunBudget \in Nat /\ MaxRetries \in 0..3 /\ MaxAttempts \in Nat
  /\ Capacity \in [Clusters -> Nat]
  /\ RunCap \in [Clusters -> Nat] /\ JobCap \in [Clusters -> Nat]
  /\ Compatible \in [Runs -> SUBSET Clusters]
  /\ TimeBudget \in BOOLEAN /\ Controls \subseteq {"online", "draining", "disabled"}
  /\ Fleets \subseteq SUBSET Clusters
  /\ None \notin Clusters \union [attempt : 1..MaxAttempts, outcome : Outcomes]

VARIABLES
  lifecycle,    \* running, pausing, paused or resuming
  expired,      \* has max_time_seconds elapsed since created_at?
  state,        \* state of each Run record, "absent" before enqueue
  priority,     \* priority_class of its definition
  last,         \* number of attempts; the last one has this number
  accepted,     \* digest of the accepted envelope: attempt and outcome
  attempt,      \* state of each attempt, "none" before it is leased
  place,        \* cluster of each attempt
  shard,        \* shard of each attempt
  job,          \* attempts whose shard got a durable Job id
  quarantined,  \* attempts some envelope of which was quarantined
  reserved,     \* attempts_reserved
  member,       \* operator state of each member, "absent" outside the fleet
  waiting,      \* members whose retry_at lies in the future
  inflight,     \* shards whose submit_shard awaits the executor's answer
  remote,       \* what became of each lease beyond the provider boundary
  overtaken     \* history: was a lease replaced before it had a durable Job?

ledger == <<state, priority, last, accepted, attempt, place, shard, job>>
vars == <<lifecycle, expired, ledger, quarantined, reserved, member, waiting,
          inflight, remote, overtaken>>

Lease == Runs \X (1..MaxAttempts)
Evidence == [attempt : 1..MaxAttempts, outcome : Outcomes]

Active == {"leased", "queued", "running", "unknown_remote"}
Owned == Active \ {"leased"}
Terminal == {"completed", "pruned", "failed", "cancelled"}
Unspent == {"none", "withdrawn_before_submit", "rejected"}
RunState == {"absent", "planned", "lost"} \union Active \union Terminal
AttemptState == {"lost"} \union Active \union Unspent \union Outcomes
MemberState == {"absent", "online", "draining", "disabled"}
RemoteState == {"absent", "sent", "refused", "accepted", "finished", "dead"}
Live == {"sent", "accepted"}

PriorityRank == [required |-> 0, decision |-> 1, confirmation |-> 2,
                 primary |-> 3, predictive |-> 4]

Latest(r) == <<r, last[r]>>
RunsOf(s) == {l[1] : l \in s}
ActiveOn(c) == {r \in Runs : state[r] \in Active /\ place[Latest(r)] = c}
ShardsOn(c) == {shard[Latest(r)] : r \in ActiveOn(c)}
KnownShards == {shard[l] : l \in Lease} \ {{}}

-----------------------------------------------------------------------------
Init ==
  /\ lifecycle = "running" /\ expired = FALSE
  /\ state = [r \in Runs |-> "absent"]
  /\ priority = [r \in Runs |-> CHOOSE p \in Priorities : TRUE]
  /\ last = [r \in Runs |-> 0]
  /\ accepted = [r \in Runs |-> None]
  /\ attempt = [l \in Lease |-> "none"]
  /\ place = [l \in Lease |-> None]
  /\ shard = [l \in Lease |-> {}]
  /\ job = {} /\ quarantined = {} /\ reserved = 0
  /\ member = [c \in Clusters |-> IF c \in Fleet THEN "online" ELSE "absent"]
  /\ waiting = {} /\ inflight = {}
  /\ remote = [l \in Lease |-> "absent"]
  /\ overtaken = FALSE

(***************************************************************************)
(* _transaction: the last thing every transaction does before it writes.   *)
(***************************************************************************)
\* A pause overlooks unknown owners.
CommitForgetsUnknown(lc) ==
  lifecycle' = IF lc = "pausing" /\ \A r \in Runs : state'[r] \notin {"queued", "running"}
               THEN "paused" ELSE lc

\* Nothing completes a pause.
CommitNeverPauses(lc) == lifecycle' = lc

Commit(lc) ==
  lifecycle' = IF lc = "pausing" /\ \A r \in Runs : state'[r] \notin Owned
               THEN "paused" ELSE lc

Refund(s) == reserved' = reserved - Cardinality(s)

SetState(R, s) == state' = [r \in Runs |-> IF r \in R THEN s ELSE state[r]]
SetAttempt(L, s) == attempt' = [l \in Lease |-> IF l \in L THEN s ELSE attempt[l]]

(***************************************************************************)
(* The operator's controls.                                                *)
(***************************************************************************)
RequestPause ==
  /\ lifecycle \in {"running", "resuming"}
  /\ UNCHANGED ledger
  /\ Commit("pausing")
  /\ UNCHANGED <<expired, quarantined, reserved, member, waiting, inflight, remote, overtaken>>

BeginResume ==
  /\ lifecycle = "paused"
  /\ lifecycle' = "resuming"
  /\ UNCHANGED <<expired, ledger, quarantined, reserved, member, waiting, inflight, remote,
                 overtaken>>

FinishResume ==
  /\ lifecycle = "resuming"
  /\ lifecycle' = "running"
  /\ UNCHANGED <<expired, ledger, quarantined, reserved, member, waiting, inflight, remote,
                 overtaken>>

SetMemberState(c, s) ==
  /\ member[c] # "absent"
  /\ member' = [member EXCEPT ![c] = s]
  /\ UNCHANGED <<expired, ledger, quarantined, reserved, waiting, inflight, remote, overtaken>>
  /\ Commit(lifecycle)

\* A member that leaves the catalog keeps draining; descriptors give the rest their state.
UpdateFleet(F, s) ==
  /\ member' = [c \in Clusters |-> IF c \in F THEN s[c]
                                   ELSE IF member[c] = "absent" THEN "absent"
                                   ELSE "draining"]
  /\ UNCHANGED <<expired, ledger, quarantined, reserved, waiting, inflight, remote, overtaken>>
  /\ Commit(lifecycle)

(***************************************************************************)
(* The planner's decisions.                                                *)
(***************************************************************************)
Enqueue(r, p) ==
  /\ state[r] = "absent" /\ lifecycle = "running"
  /\ SetState({r}, "planned")
  /\ priority' = [priority EXCEPT ![r] = p]
  /\ UNCHANGED <<lifecycle, expired, last, accepted, attempt, place, shard, job,
                 quarantined, reserved, member, waiting, inflight, remote, overtaken>>

\* A state that no reader knows.
CancelPlannedAsWithdrawn(r) ==
  /\ state[r] = "planned" /\ priority[r] = "predictive"
  /\ SetState({r}, "withdrawn")
  /\ Commit(lifecycle)
  /\ UNCHANGED <<expired, priority, last, accepted, attempt, place, shard, job,
                 quarantined, reserved, member, waiting, inflight, remote, overtaken>>

CancelPlanned(r) ==
  /\ state[r] = "planned" /\ priority[r] = "predictive"
  /\ SetState({r}, "cancelled")
  /\ Commit(lifecycle)
  /\ UNCHANGED <<expired, priority, last, accepted, attempt, place, shard, job,
                 quarantined, reserved, member, waiting, inflight, remote, overtaken>>

WithdrawPlanned(R) ==
  /\ \A r \in R : state[r] = "planned"
  /\ SetState(R, "cancelled")
  /\ Commit(lifecycle)
  /\ UNCHANGED <<expired, priority, last, accepted, attempt, place, shard, job,
                 quarantined, reserved, member, waiting, inflight, remote, overtaken>>

ReplanUnstarted(r, p) ==
  /\ lifecycle = "running" /\ last[r] = 0 /\ accepted[r] = None
  /\ state[r] \in {"planned", "cancelled"}
  /\ SetState({r}, "planned")
  /\ priority' = [priority EXCEPT ![r] = p]
  /\ UNCHANGED <<lifecycle, expired, last, accepted, attempt, place, shard, job,
                 quarantined, reserved, member, waiting, inflight, remote, overtaken>>

\* Unknown owners are replaced too.
RetryableIfUnknown(r) == state[r] \in {"lost", "unknown_remote"}
Retryable(r) == state[r] = "lost"

RetryLost(r) ==
  /\ Retryable(r) /\ last[r] <= MaxRetries
  /\ SetState({r}, "planned")
  /\ Commit(lifecycle)
  /\ UNCHANGED <<expired, priority, last, accepted, attempt, place, shard, job,
                 quarantined, reserved, member, waiting, inflight, remote, overtaken>>

(***************************************************************************)
(* plan_shards.  Offers are as old as they like: `seen' holds the leases   *)
(* the executors had acknowledged when they made them, `slots' what each   *)
(* had left.  An executor counts its free slots before it lists the wave   *)
(* it has taken up meanwhile, so that an offer may acknowledge one full    *)
(* wave beside the slots that wave is about to use.  No slots stand for an *)
(* absent, stale or unreachable offer.                                     *)
(***************************************************************************)
At(L, c) == {l \in L : place[l] = c}
Resident == {l \in Lease : remote[l] \in {"accepted", "finished", "dead"}}
Honest(slots, seen) ==
  \A c \in Clusters : slots[c] <= Capacity[c] /\ Cardinality(At(seen, c)) <= Capacity[c]

\* Slots of the offer that no lease unknown to the executor is going to take.
\* Unseen leases are not subtracted.
RoomAtFaceValue(c, slots, seen) == slots[c]

Room(c, slots, seen) ==
  LET unseen == Cardinality({r \in ActiveOn(c) : Latest(r) \notin seen})
  IN  IF slots[c] <= unseen THEN 0 ELSE slots[c] - unseen

\* Priority classes are ignored.
BeforeByKey(r, q) == r < q
Before(r, q) ==
  \/ PriorityRank[priority[r]] < PriorityRank[priority[q]]
  \/ PriorityRank[priority[r]] = PriorityRank[priority[q]] /\ r < q

\* Is c excluded for r when n Runs have just been placed there?
Excluded(r, c, room, n) ==
  \/ c \notin Compatible[r] \/ member[c] # "online" \/ c \in waiting
  \/ room[c] <= n
  \/ Cardinality(ActiveOn(c)) + n >= RunCap[c]
  \/ Cardinality(ShardsOn(c)) >= JobCap[c]

\* Does the loop stop after n placements?
\* The budget test is off by one.
FullOneLater(n, wave) == n >= wave \/ reserved + n > RunBudget
Full(n, wave) == n >= wave \/ reserved + n >= RunBudget

\* `choice' places what the loop over the sorted planned Runs places.
Greedy(choice, planned, room, wave) ==
  LET chosen == DOMAIN choice
      earlier(r) == {q \in chosen : Before(q, r)}
      full(r) == Full(Cardinality(earlier(r)), wave)
      excluded(r, c) ==
        Excluded(r, c, room, Cardinality({q \in earlier(r) : choice[q] = c}))
  IN  \A r \in planned :
        IF r \in chosen
        THEN ~full(r) /\ ~excluded(r, choice[r])
        ELSE full(r) \/ \A c \in Clusters : excluded(r, c)

\* The lease the next attempt of r gets, and the shard it shares with its wave.
Fresh(r) == <<r, last[r] + 1>>
Wave(choice, r) == {Fresh(q) : q \in {p \in DOMAIN choice : choice[p] = choice[r]}}

\* A lease that never got a Job is replaced: unsubmitted_shards will list its shard again.
Overtakes(r) == last[r] > 0 /\ Latest(r) \notin job

Lend(choice) ==
  LET new == {Fresh(r) : r \in DOMAIN choice} IN
  /\ SetState(DOMAIN choice, "leased")
  /\ last' = [r \in Runs |-> IF r \in DOMAIN choice THEN last[r] + 1 ELSE last[r]]
  /\ SetAttempt(new, "leased")
  /\ place' = [l \in Lease |-> IF l \in new THEN choice[l[1]] ELSE place[l]]
  /\ shard' = [l \in Lease |-> IF l \in new THEN Wave(choice, l[1]) ELSE shard[l]]
  /\ reserved' = reserved + Cardinality(DOMAIN choice)
  /\ overtaken' = (overtaken \/ \E r \in DOMAIN choice : Overtakes(r))

PlanShards ==
  LET planned == {r \in Runs : state[r] = "planned" /\ last[r] < MaxAttempts} IN
  /\ lifecycle = "running" /\ ~expired
  /\ \E chosen \in SUBSET planned \ {{}} :
     \E seen \in SUBSET Resident, wave \in 1..Cardinality(Runs) :
     \E slots \in {f \in [Clusters -> UNION {0..Capacity[c] : c \in Clusters}] :
                     Honest(f, seen)} :
     \E choice \in [chosen -> Clusters] :
       LET room == [c \in Clusters |-> Room(c, slots, seen)] IN
       /\ Greedy(choice, planned, room, wave)
       /\ Lend(choice)
  /\ UNCHANGED <<lifecycle, expired, priority, accepted, job, quarantined, member,
                 waiting, inflight, remote>>

(***************************************************************************)
(* submit_shard.  Its first transaction either withdraws the leases of a   *)
(* member that stopped being online or raises the submission fence; then   *)
(* the executor is called, and the answer is written by a second one.      *)
(*                                                                         *)
(* The test of the fence, which unsubmitted_shards makes too, compares the *)
(* Runs of the shard and not its leases: a shard that never got a Job      *)
(* passes it again when all its Runs have been leased anew.                *)
(***************************************************************************)
Latests(s) == {Latest(r) : r \in RunsOf(s)}
Target(s) == place[CHOOSE l \in s : TRUE]

\* Any active Run may be submitted.
UnsubmittedIfActive(s) == ~ s \subseteq job /\ \A r \in RunsOf(s) : state[r] \in Active

Unsubmitted(s) == ~ s \subseteq job /\ \A r \in RunsOf(s) : state[r] = "leased"

Submittable(s) == Unsubmitted(s) /\ lifecycle = "running" /\ ~expired

SubmitFence(s) ==
  /\ Submittable(s) /\ member[Target(s)] = "online"
  /\ SetState(RunsOf(s), "unknown_remote")
  /\ SetAttempt(Latests(s), "unknown_remote")
  /\ inflight' = inflight \union {s}
  /\ remote' = [l \in Lease |-> IF l \in s /\ remote[l] = "absent" THEN "sent" ELSE remote[l]]
  /\ UNCHANGED <<lifecycle, expired, priority, last, accepted, place, shard, job,
                 quarantined, reserved, member, waiting, overtaken>>

SubmitWithdraw(s) ==
  /\ Submittable(s) /\ member[Target(s)] # "online"
  /\ SetState(RunsOf(s), "planned")
  /\ SetAttempt(Latests(s), "withdrawn_before_submit")
  /\ Refund(s)
  /\ UNCHANGED <<lifecycle, expired, priority, last, accepted, place, shard, job,
                 quarantined, member, waiting, inflight, remote, overtaken>>

Queued(s) == {l \in s : l = Latest(l[1]) /\ attempt[l] = "unknown_remote"}
Acknowledge(s) == job' = job \union s

\* The acknowledgement belongs to the exact attempts, and never undoes an observation.
SubmitAcknowledged(s) ==
  /\ s \in inflight /\ \A l \in s : remote[l] \in {"accepted", "finished", "dead"}
  /\ SetState(RunsOf(Queued(s)), "queued")
  /\ SetAttempt(Queued(s), "queued")
  /\ Acknowledge(s)
  /\ inflight' = inflight \ {s}
  /\ Commit(lifecycle)
  /\ UNCHANGED <<expired, priority, last, accepted, place, shard, quarantined,
                 reserved, member, waiting, remote, overtaken>>

SubmitRejected(s) ==
  /\ s \in inflight /\ \A l \in s : remote[l] = "refused"
  /\ SetState(RunsOf(s), "failed")
  /\ SetAttempt(Latests(s), "rejected")
  /\ Refund(s)
  /\ inflight' = inflight \ {s}
  /\ Commit(lifecycle)
  /\ UNCHANGED <<expired, priority, last, accepted, place, shard, job, quarantined,
                 member, waiting, remote, overtaken>>

\* _mark_unavailable: back off, and turn what the member owns into unknown ownership.
MarkUnavailable(c) ==
  LET owned == {r \in Runs : state[r] \in Owned /\ place[Latest(r)] = c} IN
  /\ SetState(owned, "unknown_remote")
  /\ SetAttempt({Latest(r) : r \in owned}, "unknown_remote")
  /\ waiting' = waiting \union {c}
  /\ Commit(lifecycle)
  /\ UNCHANGED <<expired, priority, last, accepted, place, shard, job, quarantined,
                 reserved, member, remote, overtaken>>

SubmitAmbiguous(s) ==
  /\ s \in inflight
  /\ MarkUnavailable(Target(s))
  /\ inflight' = inflight \ {s}

\* The driver dies while the executor is being called: nobody writes the answer.
DriverCrash ==
  /\ inflight # {}
  /\ inflight' = {}
  /\ UNCHANGED <<lifecycle, expired, ledger, quarantined, reserved, member, waiting, remote,
                 overtaken>>

(***************************************************************************)
(* reconcile: observations of shards that were submitted, each of them as  *)
(* late as it likes, and the evidence they carry.                          *)
(***************************************************************************)
Selected(l) == remote[l] # "absent" \/ (l = Latest(l[1]) /\ state[l[1]] \in Owned)

\* Silence counts as loss.
LostWithoutProof(l) == remote[l] # "absent"

\* A proof names a lease without a live owner whose submission awaits no answer.
Lost(l) ==
  \/ remote[l] = "dead"
  \/ remote[l] \in {"absent", "refused"} /\ \A s \in inflight : l \notin s

\* What an executor may have truthfully said of a lease by now.
Reported(l) ==
  {"unknown_remote"}
  \union (IF remote[l] # "absent" THEN {"queued"} ELSE {})
  \union (IF remote[l] \in {"accepted", "finished", "dead"} THEN {"running"} ELSE {})
  \union (IF Lost(l) THEN {"lost"} ELSE {})

Observe(l, s) ==
  LET r == l[1] IN
  /\ Selected(l) /\ s \in Reported(l)
  /\ l = Latest(r)
  /\ state[r] \notin Terminal /\ attempt[l] # "lost"
  /\ ~ (attempt[l] = "running" /\ s = "queued")
  /\ SetState({r}, s)
  /\ SetAttempt({l}, s)
  /\ Commit(lifecycle)
  /\ UNCHANGED <<expired, priority, last, accepted, place, shard, job, quarantined,
                 reserved, member, waiting, inflight, remote, overtaken>>

MarkUnreachable(c) ==
  /\ member[c] # "absent"
  /\ MarkUnavailable(c)
  /\ UNCHANGED inflight

ReconcileSucceeded(c) ==
  /\ \E l \in Lease : place[l] = c /\ Selected(l)
  /\ waiting' = waiting \ {c}
  /\ UNCHANGED <<expired, ledger, quarantined, reserved, member, inflight, remote, overtaken>>
  /\ Commit(lifecycle)

(***************************************************************************)
(* ingest: accept once, quarantine whatever contradicts the ledger.        *)
(***************************************************************************)
\* Results of unknown owners are refused.
ContradictsIfUnknown(l) ==
  \/ l # Latest(l[1]) \/ accepted[l[1]] # None
  \/ attempt[l] = "lost" \/ state[l[1]] \notin {"queued", "running"}

\* Settled Runs accept again.
ContradictsIfLost(l) == l # Latest(l[1]) \/ attempt[l] = "lost"

Contradicts(l) ==
  LET r == l[1] IN
  \/ l # Latest(r)
  \/ accepted[r] # None
  \/ attempt[l] = "lost" \/ state[r] \notin Active

Delivered(l, o) ==
  /\ remote[l] \in {"finished", "dead"}
  /\ accepted[l[1]] # [attempt |-> l[2], outcome |-> o]

IngestAccept(l, o) ==
  LET r == l[1] IN
  /\ Delivered(l, o) /\ ~Contradicts(l)
  /\ accepted' = [accepted EXCEPT ![r] = [attempt |-> l[2], outcome |-> o]]
  /\ SetState({r}, o)
  /\ SetAttempt({l}, o)
  /\ Commit(lifecycle)
  /\ UNCHANGED <<expired, priority, last, place, shard, job, quarantined, reserved,
                 member, waiting, inflight, remote, overtaken>>

IngestQuarantine(l, o) ==
  /\ Delivered(l, o) /\ Contradicts(l)
  /\ quarantined' = quarantined \union {l}
  /\ UNCHANGED <<expired, ledger, reserved, member, waiting, inflight, remote, overtaken>>
  /\ Commit(lifecycle)

(***************************************************************************)
(* The executors and the clock.                                            *)
(***************************************************************************)
SetRemote(L, s) == remote' = [l \in Lease |-> IF l \in L THEN s ELSE remote[l]]

ExecutorDecides(s, answer) ==
  /\ s \in KnownShards /\ \A l \in s : remote[l] = "sent"
  /\ SetRemote(s, answer)
  /\ UNCHANGED <<lifecycle, expired, ledger, quarantined, reserved, member, waiting, inflight,
                 overtaken>>

WorkerEnds(l, s) ==
  /\ remote[l] = "accepted"
  /\ SetRemote({l}, s)
  /\ UNCHANGED <<lifecycle, expired, ledger, quarantined, reserved, member, waiting, inflight,
                 overtaken>>

BackoffElapses(c) ==
  /\ c \in waiting
  /\ waiting' = waiting \ {c}
  /\ UNCHANGED <<lifecycle, expired, ledger, quarantined, reserved, member, inflight, remote,
                 overtaken>>

BudgetExpires ==
  /\ TimeBudget /\ expired' = TRUE
  /\ UNCHANGED <<lifecycle, ledger, quarantined, reserved, member, waiting, inflight, remote,
                 overtaken>>

-----------------------------------------------------------------------------
OperatorSteps ==
  \/ RequestPause \/ BeginResume \/ FinishResume
  \/ \E c \in Clusters, s \in Controls : SetMemberState(c, s)
  \/ \E F \in Fleets : \E s \in [F -> Controls] : UpdateFleet(F, s)

PlannerSteps ==
  \/ \E r \in Runs, p \in Priorities : Enqueue(r, p) \/ ReplanUnstarted(r, p)
  \/ \E r \in Runs : CancelPlanned(r) \/ RetryLost(r)
  \/ \E R \in SUBSET Runs \ {{}} : WithdrawPlanned(R)

\* The driver submits the shards unsubmitted_shards listed and those plan_shards gave it.
DispatchSteps ==
  \/ PlanShards
  \/ \E s \in KnownShards : SubmitFence(s) \/ SubmitWithdraw(s)
  \/ \E s \in inflight : SubmitAcknowledged(s) \/ SubmitRejected(s) \/ SubmitAmbiguous(s)
  \/ DriverCrash

ReconcileSteps ==
  \/ \E l \in Lease : \E s \in Reported(l) : Observe(l, s)
  \/ \E l \in Lease, o \in Outcomes : IngestAccept(l, o) \/ IngestQuarantine(l, o)
  \/ \E c \in Clusters : MarkUnreachable(c) \/ ReconcileSucceeded(c)

ExternalSteps ==
  \/ \E s \in KnownShards, answer \in {"accepted", "refused"} : ExecutorDecides(s, answer)
  \/ \E l \in Lease, s \in {"finished", "dead"} : WorkerEnds(l, s)
  \/ \E c \in Clusters : BackoffElapses(c)
  \/ BudgetExpires

Next == OperatorSteps \/ PlannerSteps \/ DispatchSteps \/ ReconcileSteps \/ ExternalSteps

Spec == Init /\ [][Next]_vars
-----------------------------------------------------------------------------
(***************************************************************************)
(* Every record holds what _read accepts.                                  *)
(***************************************************************************)
TypeOK ==
  /\ lifecycle \in {"running", "pausing", "paused", "resuming"}
  /\ expired \in BOOLEAN
  /\ state \in [Runs -> RunState]
  /\ priority \in [Runs -> Priorities]
  /\ last \in [Runs -> 0..MaxAttempts]
  /\ accepted \in [Runs -> Evidence \union {None}]
  /\ attempt \in [Lease -> AttemptState]
  /\ place \in [Lease -> Clusters \union {None}]
  /\ shard \in [Lease -> SUBSET Lease]
  /\ job \subseteq Lease /\ quarantined \subseteq Lease
  /\ reserved \in Int
  /\ member \in [Clusters -> MemberState]
  /\ waiting \subseteq Clusters
  /\ inflight \subseteq SUBSET Lease
  /\ remote \in [Lease -> RemoteState]
  /\ overtaken \in BOOLEAN

(***************************************************************************)
(* What is said of the ledger below holds until a lease that never got a   *)
(* Job has been replaced, by an operator who drains its member before it   *)
(* is sent or by a retry of a loss that was proved before it was           *)
(* acknowledged.  From then on the driver may send the old shard again.    *)
(***************************************************************************)

(***************************************************************************)
(* Work that may be alive belongs to the latest attempt of its Run, and    *)
(* the ledger still owns it: no answer, crash, retry or late observation   *)
(* lets a second worker of the Run start (submit_shard's fence, retry_lost *)
(* after a loss proof only).                                               *)
(***************************************************************************)
LiveIsOwned ==
  ~overtaken =>
    \A l \in Lease : remote[l] \in Live => l = Latest(l[1]) /\ state[l[1]] \in Owned

(***************************************************************************)
(* A worker that finished can still deliver: its evidence was accepted, or *)
(* nothing that happened meanwhile makes ingest quarantine it.             *)
(***************************************************************************)
FinishedIsAcceptable ==
  ~overtaken =>
    \A l \in Lease :
      remote[l] = "finished" =>
        \/ ~Contradicts(l)
        \/ accepted[l[1]] # None /\ accepted[l[1]].attempt = l[2]

(***************************************************************************)
(* A paused Study has nothing alive anywhere, and a pausing one waits for  *)
(* something it owns (the epilogue of _transaction, request_pause).        *)
(***************************************************************************)
PauseIsQuiescent ==
  ~overtaken =>
    /\ lifecycle \in {"paused", "resuming"} => \A l \in Lease : remote[l] \notin Live
    /\ lifecycle = "pausing" => \E r \in Runs : state[r] \in Owned

(***************************************************************************)
(* attempts_reserved is what the attempts say: each refund of withdrawal   *)
(* and rejection gives back exactly one earlier reservation.               *)
(***************************************************************************)
Accounting ==
  ~overtaken => reserved = Cardinality({l \in Lease : attempt[l] \notin Unspent})

(***************************************************************************)
(* Executors never take more leases than the Run budget, retries and       *)
(* ambiguous submissions included.                                         *)
(***************************************************************************)
BudgetCoversWork == ~overtaken => Cardinality(Resident) <= RunBudget

(***************************************************************************)
(* However old the offers, what is leased to an executor and not yet taken *)
(* up by it fits its capacity, it is never sent more than that beside the  *)
(* wave it works on, and the member's own caps hold (plan_shards'          *)
(* subtraction of unseen leases).                                          *)
(***************************************************************************)
NoOverbooking ==
  ~overtaken =>
    \A c \in Clusters :
      /\ Cardinality({r \in ActiveOn(c) : Latest(r) \notin Resident}) <= Capacity[c]
      /\ Cardinality({l \in Lease : place[l] = c /\ remote[l] \in Live}) <= 2 * Capacity[c]
      /\ Cardinality(ActiveOn(c)) <= RunCap[c]
      /\ Cardinality(ShardsOn(c)) <= JobCap[c]

(***************************************************************************)
(* A Job id is recorded only for leases the executor holds or held, never  *)
(* for a replacement attempt (the late acknowledgement of submit_shard).   *)
(***************************************************************************)
JobIsResident == job \subseteq Resident

(***************************************************************************)
(* Accepted evidence and the terminal state it gave its Run never change:  *)
(* not by late answers, contradictions, retries or replanning.             *)
(***************************************************************************)
AcceptedIsFinal ==
  [][~overtaken' =>
       \A r \in Runs : accepted[r] # None =>
         accepted'[r] = accepted[r] /\ state'[r] = state[r] /\ last'[r] = last[r]]_vars

(***************************************************************************)
(* An observed start is not turned into a queued attempt by a delayed      *)
(* queue snapshot or a delayed acknowledgement (_observe, submit_shard).   *)
(***************************************************************************)
StartIsNotUndone ==
  [][\A l \in Lease : attempt[l] = "running" => attempt'[l] # "queued"]_vars

(***************************************************************************)
(* A Run is not overtaken by a less urgent one that could only have gone   *)
(* where it can go itself (the sorted loop of plan_shards).                *)
(***************************************************************************)
UrgentRunsFirst ==
  [][\A r, q \in Runs :
       /\ state[r] = "planned" /\ state[q] = "planned" /\ last[r] < MaxAttempts
       /\ PriorityRank[priority[r]] < PriorityRank[priority[q]]
       /\ Compatible[q] \subseteq Compatible[r]
       /\ state'[q] = "leased"
       => state'[r] = "leased"]_vars

(***************************************************************************)
(* No shard crosses the provider boundary twice.                           *)
(***************************************************************************)
SubmittedOnce ==
  [][~overtaken' =>
       \A s \in inflight' \ inflight : \A l \in s : remote[l] = "absent"]_vars

(***************************************************************************)
(* What the code says of itself, without a condition: "never automatically *)
(* submit twice" (submit_shard), "ambiguous acceptance is never            *)
(* resubmitted" (unsubmitted_shards).                                      *)
(***************************************************************************)
NeverSubmittedTwice ==
  [][\A s \in inflight' \ inflight : \A l \in s : remote[l] = "absent"]_vars

(***************************************************************************)
(* A withdrawn lease never reaches an executor ("a proven unsubmitted      *)
(* lease may be withdrawn without touching a remote PID", submit_shard).   *)
(***************************************************************************)
WithdrawnNeverSent ==
  ~overtaken =>
    \A l \in Lease : attempt[l] = "withdrawn_before_submit" => remote[l] = "absent"

\* What the promise sees of the ledger.
Owners == {r \in Runs : state[r] \in Active}
Alive == [r \in Runs |-> {a \in 1..MaxAttempts : remote[<<r, a>>] \in Live}]
Settled == [r \in Runs |-> IF accepted[r] = None THEN None ELSE accepted[r].outcome]

Promise == INSTANCE ExclusiveRuns WITH
  granted <- last, owned <- Owners, alive <- Alive, evidence <- Settled

(***************************************************************************)
(* The ledger implements ExclusiveRuns: leases are the grants, a lease     *)
(* that was sent and is not known to have ended is alive.                  *)
(***************************************************************************)
ImplementsExclusiveRuns ==
  Promise!Init /\ [][~overtaken' => [Promise!Next]_(Promise!vars)]_vars

(***************************************************************************)
(* Liveness.  Executors answer and workers end; while a driver runs, it    *)
(* writes the answers of its calls and ingests, poll after poll, what the  *)
(* executors report.  No fairness for loss proofs: no executor of the      *)
(* repository issues one.                                                  *)
(***************************************************************************)
Fairness ==
  /\ \A s \in SUBSET Lease :
       /\ WF_vars(\E a \in {"accepted", "refused"} : ExecutorDecides(s, a))
       /\ WF_vars(SubmitAcknowledged(s) \/ SubmitRejected(s) \/ SubmitAmbiguous(s))
  /\ \A l \in Lease :
       /\ WF_vars(\E s \in {"finished", "dead"} : WorkerEnds(l, s))
       /\ WF_vars(\E o \in Outcomes : IngestAccept(l, o))

FairSpec == Spec /\ Fairness

(***************************************************************************)
(* What a worker finished reaches the ledger: a result of its Run is       *)
(* accepted (reconcile, ingest).                                           *)
(***************************************************************************)
FinishedWorkArrives ==
  \A l \in Lease : remote[l] = "finished" ~> accepted[l[1]] # None \/ overtaken

(***************************************************************************)
(* A requested pause is reached unless a lease the Study owns ended        *)
(* without evidence, the one case request_pause documents as a wait.       *)
(***************************************************************************)
PauseDrains ==
  lifecycle = "pausing" ~>
    \/ lifecycle # "pausing" \/ overtaken
    \/ \E r \in Runs : state[r] \in Owned /\ remote[Latest(r)] \in {"refused", "dead"}
=============================================================================
