--------------------------- MODULE MemberAllocation ---------------------------
(***************************************************************************)
(* A resident allocation of a fleet member: one provider Job that executes *)
(* waves of leased Runs one after the other, work/member.py, and the       *)
(* executor that owns it from the coordinator's side,                      *)
(* controlplane/PreparedShardExecutor.py.  They share files under the      *)
(* allocation's root: inbox/<shard>.json (accepted waves), shutdown.json,  *)
(* member.json (the owner), offer.json (what the heartbeat thread          *)
(* advertises) and, per wave, worker.json (work/shard.py).                 *)
(*                                                                         *)
(* The commands of the executor (--enqueue, --shutdown, --observe,         *)
(* --prune) are processes of their own beside the member's.                *)
(***************************************************************************)
EXTENDS Naturals, FiniteSets

CONSTANTS
  Waves,       \* shards sent to this allocation
  Leases,      \* leases of all of them
  WaveOf,      \* the wave of each lease
  RunOf,       \* the logical Run of each lease
  Fresh,       \* waves all of whose leases are first attempts
  Capacity,    \* Runs the granted cores and GPUs hold
  Discovers,   \* does the member attest the hardware it was granted?
  Drains,      \* is the allocation told to shut down?
  Killable,    \* may a wave fail, or the provider kill the allocation?
  Watched,     \* waves that observe asks about
  Prunable,    \* leases the planner may ask to stop
  MaxRestarts, \* bound: processes the provider starts again
  None

ASSUME MemberAssumption ==
  /\ IsFiniteSet(Leases) /\ Capacity \in Nat \ {0} /\ MaxRestarts \in Nat
  /\ WaveOf \in [Leases -> Waves] /\ Fresh \subseteq Waves
  /\ \A k, l \in Leases : WaveOf[k] = WaveOf[l] /\ RunOf[k] = RunOf[l] => k = l
  /\ Watched \subseteq Waves /\ Prunable \subseteq Leases
  /\ Discovers \in BOOLEAN /\ Drains \in BOOLEAN /\ Killable \in BOOLEAN
  /\ None \notin Waves /\ None \notin Leases

VARIABLES
  receipt,    \* allocation-receipt.json of the executor
  starting,   \* is a driver inside start_allocation?
  submitted,  \* Jobs submitted to the provider
  job,        \* the allocation Job, as the provider has it
  answer,     \* what became of each wave: enqueue's answer
  inbox,      \* accepted waves
  shutdown,   \* does shutdown.json exist?
  owner,      \* member.json
  main,       \* where the member's main thread is
  todo,       \* waves of the last glob not yet executed
  wave,       \* the wave being executed
  finished,   \* waves this process has executed
  busy,       \* the Event between main and heartbeat thread
  held,       \* waves whose leases are acknowledged
  pulse,      \* what the heartbeat is about to publish
  offer,      \* offer.json
  worker,     \* worker.json of each wave
  life,       \* each lease: idle, running, ended (unrecorded), stored, lost
  seen,       \* an observation between its two reads
  raised,     \* waves whose observation raised "ended without all results"
  pruning,    \* a pruning command between its reads and its write
  stop,       \* leases with a stop file
  restarts    \* processes started again

grant == <<receipt, starting, submitted, job>>
wire == <<answer, inbox, shutdown>>
process == <<owner, main, todo, wave, finished, busy, held>>
beat == <<pulse, offer>>
work == <<worker, life>>
calls == <<seen, raised, pruning, stop>>
vars == <<grant, wire, process, beat, work, calls, restarts>>

LeasesOf(w) == {l \in Leases : WaveOf[l] = w}
RunsOf(w) == {RunOf[l] : l \in LeasesOf(w)}
Results(w) == {l \in LeasesOf(w) : life[l] = "stored"}
RunningOf(w) == {l \in LeasesOf(w) : life[l] = "running"}

Loop == {"scan", "take", "hold", "open", "work", "free", "clear", "check", "stop", "fail"}
Offers == [slots : 0..Capacity, held : SUBSET Waves]
Pulses == [slots : 0..Capacity, read : BOOLEAN, held : SUBSET Waves]
Closed == [slots |-> 0, held |-> {}]

Init ==
  /\ receipt = "none" /\ starting = FALSE /\ submitted = 0 /\ job = "absent"
  /\ answer = [w \in Waves |-> "unsent"]
  /\ inbox = {} /\ shutdown = FALSE
  /\ owner = "none" /\ main = "off" /\ todo = {} /\ wave = None
  /\ finished = {} /\ busy = FALSE /\ held = {}
  /\ pulse = None /\ offer = None
  /\ worker = [w \in Waves |-> "none"]
  /\ life = [l \in Leases |-> "idle"]
  /\ seen = None /\ raised = {} /\ pruning = None /\ stop = {}
  /\ restarts = 0

-----------------------------------------------------------------------------
(* start_allocation: the intent is durable before the provider is asked.   *)

\* What if an intent without acknowledgement were submitted again?
ReserveUnlessAcknowledged ==
  /\ ~starting /\ receipt \in {"none", "intent", "prepared"}
  /\ receipt' = "intent" /\ starting' = TRUE
  /\ UNCHANGED <<submitted, job, wire, process, beat, work, calls, restarts>>

Reserve ==
  /\ ~starting /\ receipt = "none"
  /\ receipt' = "intent" /\ starting' = TRUE
  /\ UNCHANGED <<submitted, job, wire, process, beat, work, calls, restarts>>

\* The entry point of the submission writes where the owner's root is.
Prepare ==
  /\ starting /\ receipt = "intent"
  /\ receipt' = "prepared"
  /\ UNCHANGED <<starting, submitted, job, wire, process, beat, work, calls, restarts>>

SubmitJob ==
  /\ starting /\ receipt = "prepared" /\ submitted < 2
  /\ submitted' = submitted + 1
  /\ job' = IF job = "absent" THEN "queued" ELSE job
  /\ starting' = FALSE
  /\ receipt' \in {"prepared", "acknowledged"}    \* the answer may be lost
  /\ UNCHANGED <<wire, process, beat, work, calls, restarts>>

DriverDies ==
  /\ starting /\ starting' = FALSE
  /\ UNCHANGED <<receipt, submitted, job, wire, process, beat, work, calls, restarts>>

-----------------------------------------------------------------------------
(* The commands that change the inbox; both hold .inbox.lock.              *)

\* _submit_allocated refuses a wave of retries or one above its cap itself.
Send(w) ==
  /\ receipt \in {"prepared", "acknowledged"} /\ answer[w] = "unsent"
  /\ answer' = [answer EXCEPT ![w] =
                  IF w \in Fresh /\ Cardinality(LeasesOf(w)) <= Capacity THEN "sent" ELSE "refused"]
  /\ UNCHANGED <<grant, inbox, shutdown, process, beat, work, calls, restarts>>

\* The attestation, where one is asked for, is written with member.json.
Acceptable(w) ==
  /\ (Discovers => owner # "none") /\ ~shutdown
  /\ \A v \in inbox \ {w} : RunsOf(v) \intersect RunsOf(w) = {}

\* What if the wave were published before it is checked?
EnqueueFirst(w) ==
  /\ answer[w] = "sent"
  /\ inbox' = inbox \union {w}
  /\ answer' = [answer EXCEPT ![w] = IF Acceptable(w) THEN "taken" ELSE "refused"]
  /\ UNCHANGED <<grant, shutdown, process, beat, work, calls, restarts>>

Enqueue(w) ==
  /\ answer[w] = "sent"
  /\ IF Acceptable(w)
     THEN inbox' = inbox \union {w} /\ answer' = [answer EXCEPT ![w] = "taken"]
     ELSE inbox' = inbox /\ answer' = [answer EXCEPT ![w] = "refused"]
  /\ UNCHANGED <<grant, shutdown, process, beat, work, calls, restarts>>

Shutdown ==
  /\ Drains /\ receipt \in {"prepared", "acknowledged"} /\ ~shutdown
  /\ shutdown' = TRUE
  /\ UNCHANGED <<grant, answer, inbox, process, beat, work, calls, restarts>>

-----------------------------------------------------------------------------
(* The member's process.                                                   *)

ProviderStarts ==
  /\ job = "queued"
  /\ job' = "running" /\ main' = "begin"
  /\ UNCHANGED <<receipt, starting, submitted, wire, owner, todo, wave, finished, busy, held,
                 beat, work, calls, restarts>>

\* What if a prior owner were taken over?
AdoptOwner ==
  /\ main = "begin"
  /\ owner' = "running" /\ main' = "scan"
  /\ todo' = {} /\ wave' = None /\ finished' = {} /\ busy' = FALSE /\ held' = {}
  /\ UNCHANGED <<grant, wire, beat, work, calls, restarts>>

BeginOwner ==
  /\ main = "begin"
  /\ todo' = {} /\ wave' = None /\ finished' = {} /\ busy' = FALSE /\ held' = {}
  /\ IF owner = "none" THEN owner' = "running" /\ main' = "scan"
                       ELSE owner' = owner /\ main' = "gone"
  /\ UNCHANGED <<grant, wire, beat, work, calls, restarts>>

Scan ==
  /\ main = "scan"
  /\ todo' = inbox \ finished
  /\ main' = IF todo' = {} THEN "check" ELSE "take"
  /\ UNCHANGED <<grant, wire, owner, wave, finished, busy, held, beat, work, calls, restarts>>

Take(w) ==
  /\ main = "take" /\ w \in todo
  /\ wave' = w /\ busy' = TRUE /\ main' = "hold"
  /\ UNCHANGED <<grant, wire, owner, todo, finished, held, beat, work, calls, restarts>>

Hold ==
  /\ main = "hold"
  /\ held' = held \union {wave} /\ main' = "open"
  /\ UNCHANGED <<grant, wire, owner, todo, wave, finished, busy, beat, work, calls, restarts>>

\* execute_concrete_shard replays a completed worker, refuses an interrupted one.
OpenWave ==
  /\ main = "open"
  /\ worker' = [worker EXCEPT ![wave] = IF @ = "none" THEN "running" ELSE @]
  /\ main' = CASE worker[wave] = "none" -> "work"
               [] worker[wave] = "running" -> "fail"
               [] OTHER -> "free"
  /\ UNCHANGED <<grant, wire, owner, todo, wave, finished, busy, held, beat, life, calls, restarts>>

StartRun(l) ==
  /\ main = "work" /\ WaveOf[l] = wave /\ life[l] = "idle"
  /\ Cardinality(RunningOf(wave)) < Capacity
  /\ life' = [life EXCEPT ![l] = "running"]
  /\ UNCHANGED <<grant, wire, process, beat, worker, calls, restarts>>

EndRun(l) ==
  /\ main = "work" /\ life[l] = "running"
  /\ life' = [life EXCEPT ![l] = "ended"]
  /\ UNCHANGED <<grant, wire, process, beat, worker, calls, restarts>>

StoreResult(l) ==
  /\ main = "work" /\ life[l] = "ended"
  /\ life' = [life EXCEPT ![l] = "stored"]
  /\ UNCHANGED <<grant, wire, process, beat, worker, calls, restarts>>

\* An exception leaves the Runs of the wave without anyone to store them.
WaveFails ==
  /\ Killable /\ main = "work"
  /\ life' = [l \in Leases |-> IF life[l] \in {"running", "ended"} THEN "lost" ELSE life[l]]
  /\ main' = "fail"
  /\ UNCHANGED <<grant, wire, owner, todo, wave, finished, busy, held, beat, worker, calls, restarts>>

CloseWave ==
  /\ main = "work" /\ Results(wave) = LeasesOf(wave)
  /\ worker' = [worker EXCEPT ![wave] = "completed"]
  /\ main' = "free"
  /\ UNCHANGED <<grant, wire, owner, todo, wave, finished, busy, held, beat, life, calls, restarts>>

Free ==
  /\ main = "free"
  /\ finished' = finished \union {wave} /\ held' = {} /\ main' = "clear"
  /\ UNCHANGED <<grant, wire, owner, todo, wave, busy, beat, work, calls, restarts>>

\* What if the Event stayed set?
ClearNothing ==
  /\ main = "clear"
  /\ todo' = todo \ {wave} /\ wave' = None
  /\ main' = IF todo' = {} THEN "check" ELSE "take"
  /\ UNCHANGED <<grant, wire, owner, finished, busy, held, beat, work, calls, restarts>>

Clear ==
  /\ main = "clear"
  /\ busy' = FALSE /\ todo' = todo \ {wave} /\ wave' = None
  /\ main' = IF todo' = {} THEN "check" ELSE "take"
  /\ UNCHANGED <<grant, wire, owner, finished, held, beat, work, calls, restarts>>

\* What if the inbox were listed once?
CheckOnly ==
  /\ main = "check"
  /\ main' = IF shutdown THEN "stop" ELSE "check"
  /\ UNCHANGED <<grant, wire, owner, todo, wave, finished, busy, held, beat, work, calls, restarts>>

\* What if only a member that never worked could leave?
CheckUnused ==
  /\ main = "check"
  /\ main' = IF shutdown /\ inbox = {} THEN "stop" ELSE "scan"
  /\ UNCHANGED <<grant, wire, owner, todo, wave, finished, busy, held, beat, work, calls, restarts>>

Check ==
  /\ main = "check"
  /\ main' = IF shutdown THEN "stop" ELSE "scan"
  /\ UNCHANGED <<grant, wire, owner, todo, wave, finished, busy, held, beat, work, calls, restarts>>

\* The finally clause; only a regular end completes member.json.
Finish ==
  /\ main \in {"stop", "fail"}
  /\ offer' = Closed
  /\ owner' = IF main = "stop" THEN "completed" ELSE owner
  /\ main' = "gone"
  /\ UNCHANGED <<grant, wire, todo, wave, finished, busy, held, pulse, work, calls, restarts>>

\* The provider kills the allocation with everything in it.
Kill ==
  /\ Killable /\ main \in Loop \union {"begin"}
  /\ main' = "gone" /\ pulse' = None
  /\ life' = [l \in Leases |-> IF life[l] \in {"running", "ended"} THEN "lost" ELSE life[l]]
  /\ UNCHANGED <<grant, wire, owner, todo, wave, finished, busy, held, offer, worker, calls, restarts>>

ProviderEnds ==
  /\ job = "running" /\ main = "gone"
  /\ job' = "ended" /\ pulse' = None
  /\ UNCHANGED <<receipt, starting, submitted, wire, process, offer, work, calls, restarts>>

\* A site may start a Job again after its node failed.
ProviderRestarts ==
  /\ job = "running" /\ main = "gone" /\ Killable /\ restarts < MaxRestarts
  /\ restarts' = restarts + 1 /\ main' = "begin" /\ pulse' = None
  /\ UNCHANGED <<grant, wire, owner, todo, wave, finished, busy, held, offer, work, calls>>

-----------------------------------------------------------------------------
(* The heartbeat thread.  It looks at shutdown.json right after the Event; *)
(* a failing probe, too little memory or storage only lower the slots.     *)
(* The acknowledged leases are read after that and before the write.       *)

Probe(n) ==
  /\ main \in Loop \ {"stop", "fail"} /\ pulse = None
  /\ pulse' = [slots |-> IF busy \/ shutdown THEN 0 ELSE n, read |-> FALSE, held |-> {}]
  /\ UNCHANGED <<grant, wire, process, offer, work, calls, restarts>>

ReadHeld ==
  /\ pulse # None /\ ~pulse.read
  /\ pulse' = [pulse EXCEPT !.read = TRUE, !.held = held]
  /\ UNCHANGED <<grant, wire, process, offer, work, calls, restarts>>

\* The thread may outlive the five seconds of the join.
Publish ==
  /\ pulse # None /\ pulse.read
  /\ offer' = [slots |-> pulse.slots, held |-> pulse.held] /\ pulse' = None
  /\ UNCHANGED <<grant, wire, process, work, calls, restarts>>

-----------------------------------------------------------------------------
(* _observe_allocated: first what the member knows of the wave, then the   *)
(* state of its Job.                                                       *)

ReadWave(w) ==
  /\ w \in Watched \ raised /\ seen = None /\ receipt \in {"prepared", "acknowledged"}
  /\ answer[w] \in {"sent", "taken"}
  /\ seen' = [wave |-> w, results |-> IF w \in inbox THEN Results(w) ELSE {}]
  /\ UNCHANGED <<grant, wire, process, beat, work, raised, pruning, stop, restarts>>

Incomplete(s) == job = "ended" /\ s.results # LeasesOf(s.wave)

AnswerWave ==
  /\ seen # None
  /\ raised' = IF Incomplete(seen) THEN raised \union {seen.wave} ELSE raised
  /\ seen' = None
  /\ UNCHANGED <<grant, wire, process, beat, work, pruning, stop, restarts>>

-----------------------------------------------------------------------------
(* request_pruning: worker.json is read before .pruning.lock is taken, the *)
(* telemetry of the Run under it, and the stop file is written last.       *)

ReadWorker(l) ==
  /\ l \in Prunable \ stop /\ pruning = None
  /\ WaveOf[l] \in inbox /\ worker[WaveOf[l]] # "none"
  /\ pruning' = [lease |-> l, terminal |-> life[l] = "stored", live |-> FALSE]
  /\ UNCHANGED <<grant, wire, process, beat, work, seen, raised, stop, restarts>>

\* What if every unfinished Run were asked to stop?
LookAtResults ==
  /\ pruning # None /\ ~pruning.live
  /\ pruning' = IF ~pruning.terminal THEN [pruning EXCEPT !.live = TRUE] ELSE None
  /\ UNCHANGED <<grant, wire, process, beat, work, seen, raised, stop, restarts>>

LookAtRun ==
  /\ pruning # None /\ ~pruning.live
  /\ pruning' = IF ~pruning.terminal /\ life[pruning.lease] = "running"
                THEN [pruning EXCEPT !.live = TRUE] ELSE None
  /\ UNCHANGED <<grant, wire, process, beat, work, seen, raised, stop, restarts>>

WriteStop ==
  /\ pruning # None /\ pruning.live
  /\ stop' = stop \union {pruning.lease} /\ pruning' = None
  /\ UNCHANGED <<grant, wire, process, beat, work, seen, raised, restarts>>

-----------------------------------------------------------------------------
MainStep ==
  \/ BeginOwner \/ Scan \/ (\E w \in Waves : Take(w)) \/ Hold \/ OpenWave
  \/ CloseWave \/ Free \/ Clear \/ Check \/ Finish

Next ==
  \/ Reserve \/ Prepare \/ SubmitJob \/ DriverDies
  \/ (\E w \in Waves : Send(w) \/ Enqueue(w)) \/ Shutdown
  \/ ProviderStarts \/ ProviderEnds \/ ProviderRestarts \/ Kill \/ WaveFails
  \/ MainStep
  \/ \E l \in Leases : StartRun(l) \/ EndRun(l) \/ StoreResult(l)
  \/ (\E n \in 0..Capacity : Probe(n)) \/ ReadHeld \/ Publish
  \/ (\E w \in Waves : ReadWave(w)) \/ AnswerWave
  \/ (\E l \in Leases : ReadWorker(l)) \/ LookAtRun \/ WriteStop

Spec == Init /\ [][Next]_vars

(***************************************************************************)
(* The process runs, Runs end (the provider's time limit sees to it), and  *)
(* the provider notices that its process has gone.  The heartbeat goes on, *)
(* and again and again its probe finds the devices free.                   *)
(***************************************************************************)
Fairness ==
  /\ WF_vars(MainStep) /\ WF_vars(ProviderEnds) /\ WF_vars(ProviderStarts)
  /\ \A l \in Leases : WF_vars(StartRun(l)) /\ WF_vars(EndRun(l)) /\ WF_vars(StoreResult(l))
  /\ SF_vars(Probe(Capacity)) /\ WF_vars(ReadHeld) /\ WF_vars(Publish)

FairSpec == Spec /\ Fairness

-----------------------------------------------------------------------------
\* Every variable holds what the code can write there.
TypeOK ==
  /\ receipt \in {"none", "intent", "prepared", "acknowledged"}
  /\ starting \in BOOLEAN /\ submitted \in 0..2
  /\ job \in {"absent", "queued", "running", "ended"}
  /\ answer \in [Waves -> {"unsent", "sent", "taken", "refused"}]
  /\ inbox \subseteq Waves /\ shutdown \in BOOLEAN
  /\ owner \in {"none", "running", "completed"}
  /\ main \in Loop \union {"off", "begin", "gone"}
  /\ todo \subseteq Waves /\ wave \in Waves \union {None}
  /\ finished \subseteq Waves /\ busy \in BOOLEAN /\ held \subseteq Waves
  /\ pulse \in Pulses \union {None} /\ offer \in Offers \union {None}
  /\ worker \in [Waves -> {"none", "running", "completed"}]
  /\ life \in [Leases -> {"idle", "running", "ended", "stored", "lost"}]
  /\ seen \in [wave : Waves, results : SUBSET Leases] \union {None}
  /\ raised \subseteq Waves
  /\ pruning \in [lease : Leases, terminal : BOOLEAN, live : BOOLEAN] \union {None}
  /\ stop \subseteq Leases /\ restarts \in 0..MaxRestarts

\* An allocation is submitted to the provider once, however often its driver dies.
OneProviderJob == submitted <= 1

\* A logical Run starts at most once, across waves, restarts and replays.
RunsStartOnce ==
  \A k, l \in Leases : RunOf[k] = RunOf[l] /\ life[k] # "idle" /\ life[l] # "idle" => k = l

\* A wave that lost its owner is never taken up by another process.
OwnerWorksAlone ==
  main = "work" => \A w \in Waves : worker[w] = "running" => w = wave

\* A stop file never waits for a Run that has not started.
StopAfterStart == \A l \in stop : life[l] # "idle"

\* "Stop acceptance and release the allocation only after its accepted wave
\* completes": a drained allocation has executed what it accepted.
DrainKeepsAccepted ==
  owner = "completed" => \A w \in inbox : worker[w] = "completed"

\* "It deliberately advertises no spare capacity during a running wave": an
\* offer that acknowledges leases has no slots.
NoSpareWhileBusy == offer # None /\ offer.held # {} => offer.slots = 0

\* "ended ... without all leased results" is only said of a wave that lacks one.
LossIsReal == [][\A w \in raised' \ raised : Results(w) # LeasesOf(w)]_vars

\* The waves that a submitted allocation accepted are executed unless it is
\* drained or loses its process.
Lost == main = "gone" \/ \E l \in Leases : life[l] = "lost"
AcceptedWavesFinish ==
  \A w \in Waves : w \in inbox /\ job # "absent" ~> worker[w] = "completed" \/ shutdown \/ Lost

\* When all waves are executed, the offer returns to the full capacity.
CapacityReturns ==
  job = "running" /\ (\A w \in inbox : worker[w] = "completed")
    ~> \/ offer # None /\ offer = [slots |-> Capacity, held |-> {}]
       \/ \E w \in inbox : worker[w] # "completed"
       \/ shutdown \/ Lost

\* A drained allocation is released.
DrainReleases == shutdown /\ job = "running" ~> job = "ended"

Promise == INSTANCE LeasedWaves WITH answer <- [w \in Waves |->
  IF answer[w] \in {"taken", "refused"} THEN answer[w] ELSE "none"]
\* The allocation keeps what LeasedWaves promises the coordinator.
ImplementsLeasedWaves == Promise!Spec
===============================================================================
