--------------------------- MODULE EnvironmentCache ---------------------------
(***************************************************************************)
(* The managed environments of one cluster: submissions that build or      *)
(* reuse a prefix under a build marker (ManagedEnvironmentProvider.py,     *)
(* CacheBuildLease.py), activate it and start a Job in it                  *)
(* (ControlPlane.py, ProcessScheduler.py), and the collectors that delete  *)
(* prefixes nobody refers to (StorageOperations.py).                       *)
(*                                                                         *)
(* A prefix is content-addressed: equal names mean equal contents.  A      *)
(* stale heartbeat is the death of the controller: a living process id     *)
(* protects its marker at any age.                                         *)
(***************************************************************************)
EXTENDS Integers, FiniteSets

CONSTANTS
  Submissions, Envs,
  EnvOf,      \* the environment of a submission
  Nearby,     \* submissions whose controller runs on the cluster's host
  Recycled,   \* controllers whose process id lives on after them
  Mortal,     \* bound: controllers that end, sooner or when they are over
  Delayed,    \* bound: controllers whose last heartbeat may outlive its timeout, and them
  Faulty,     \* bound: submissions whose commands may fail or end without an answer
  MaxKills,   \* bound: collectors that are killed
  None

Empty == "empty"  \* a marker without owner.json

ASSUME CacheAssumption ==
  /\ EnvOf \in [Submissions -> Envs]
  /\ Nearby \subseteq Submissions /\ Recycled \subseteq Submissions
  /\ Mortal \subseteq Submissions /\ Delayed \subseteq Submissions /\ Faulty \subseteq Submissions
  /\ MaxKills \in Nat
  /\ None # Empty /\ {None, Empty} \intersect (Submissions \union Envs) = {}
  /\ Submissions \intersect Envs = {}

VARIABLES
  prefix,     \* environments whose verified prefix has its final name
  temporary,  \* submissions whose temporary prefix exists
  active,     \* the active-environment pointer
  marker,     \* of each environment: the owner in its build marker
  step,       \* where each submission is
  job,        \* the Job directory of each submission
  child,      \* submissions whose installer runs on without them
  beat,       \* heartbeats that have read the owner and not yet written it
  robbed,     \* history: over whose marker a late heartbeat put another name
  at, by,     \* where the collector is, and whose it is
  keep, plan,                  \* what it has read and chosen
  target, stage,               \* the deletion under way
  journal, trash,              \* receipts and renamed trees
  kills,
  seen        \* living Jobs that were there when the collection began

cluster == <<prefix, temporary, active, marker>>
clients == <<step, job, child, beat, robbed>>
collector == <<at, by, keep, plan, target, stage, seen>>
vars == <<cluster, clients, collector, journal, trash, kills>>

Steps == {"want", "leased", "building", "verified", "leaving", "unlinked", "prune", "pruning",
          "ready", "staged", "failing", "failunlinked", "over", "dead"}
Stages == {"none", "journaled", "renamed"}
Items == Envs \union Submissions
Init ==
  /\ prefix = {} /\ temporary = {} /\ active = None
  /\ marker = [e \in Envs |-> None]
  /\ step = [c \in Submissions |-> "want"] /\ job = [c \in Submissions |-> "none"]
  /\ child = {} /\ beat = {} /\ robbed = {}
  /\ at = "idle" /\ by = None /\ keep = {} /\ plan = {}
  /\ target = None /\ stage = "none" /\ seen = {}
  /\ journal = {} /\ trash = {} /\ kills = 0

Move(c, s) == step' = [step EXCEPT ![c] = s]

\* A living Job in one of these states counts as active.
Live(c) == job[c] \in {"staged", "running"}

-----------------------------------------------------------------------------
(* A submission: build marker, prefix, pointer, Job directory.             *)

\* mkdir and owner.json, under .gc.lock.  A call that ends without an answer
\* may have done both, or the first.
Acquire(c) ==
  /\ step[c] = "want" /\ at = "idle" /\ marker[EnvOf[c]] = None
  /\ \/ marker' = [marker EXCEPT ![EnvOf[c]] = c] /\ Move(c, "leased")
     \/ c \in Faulty /\ Move(c, "over") /\ \E o \in {c, Empty} : marker' = [marker EXCEPT ![EnvOf[c]] = o]
  /\ UNCHANGED <<prefix, temporary, active, job, child, beat, robbed, collector, journal, trash, kills>>

\* An hour has passed without the marker or the lock.
GiveUp(c) ==
  /\ step[c] = "want" /\ (at # "idle" \/ marker[EnvOf[c]] # None) /\ Move(c, "over")
  /\ UNCHANGED <<cluster, job, child, beat, robbed, collector, journal, trash, kills>>

\* A prefix that fails its verification is never replaced.
Reuse(c) ==
  /\ step[c] = "leased" /\ EnvOf[c] \in prefix
  /\ Move(c, "verified") \/ (c \in Faulty /\ Move(c, "failing"))
  /\ UNCHANGED <<cluster, job, child, beat, robbed, collector, journal, trash, kills>>

Build(c) ==
  /\ step[c] = "leased" /\ EnvOf[c] \notin prefix
  /\ temporary' = temporary \union {c} /\ Move(c, "building")
  /\ UNCHANGED <<prefix, active, marker, job, child, beat, robbed, collector, journal, trash, kills>>

\* A command that fails is cleaned up after; one whose call raises leaves the
\* temporary prefix, and perhaps itself.
BuildFails(c) ==
  /\ c \in Faulty /\ step[c] = "building" /\ Move(c, "failing")
  /\ \/ temporary' = temporary \ {c} /\ UNCHANGED child
     \/ child' \in {child, child \union {c}} /\ UNCHANGED temporary
  /\ UNCHANGED <<prefix, active, marker, job, beat, robbed, collector, journal, trash, kills>>

\* The rename needs the tree and a free name; who lost the race reuses what
\* passes its verification.
Publish(c) ==
  /\ step[c] = "building"
  /\ temporary' = temporary \ {c}
  /\ prefix' = IF c \in temporary THEN prefix \union {EnvOf[c]} ELSE prefix
  /\ \/ EnvOf[c] \in prefix' /\ Move(c, "verified")
     \/ (c \in Faulty \/ EnvOf[c] \notin prefix') /\ Move(c, "failing")
  /\ UNCHANGED <<active, marker, job, child, beat, robbed, collector, journal, trash, kills>>

\* The pointer is written by the prefix's own interpreter.
Activate(c) ==
  /\ step[c] = "verified"
  /\ \/ EnvOf[c] \in prefix /\ active' = EnvOf[c] /\ Move(c, "leaving")
     \/ EnvOf[c] \in prefix /\ c \in Faulty /\ active' \in {active, EnvOf[c]} /\ Move(c, "failing")
     \/ EnvOf[c] \notin prefix /\ Move(c, "failing") /\ UNCHANGED active
  /\ UNCHANGED <<prefix, temporary, marker, job, child, beat, robbed, collector, journal, trash, kills>>

Leaving == {"leaving", "failing"}
Unlinked(s) == IF s = "leaving" THEN "unlinked" ELSE "failunlinked"
Left(s) == IF s \in {"leaving", "unlinked"} THEN "prune" ELSE "over"

\* Release: unlink owner.json if it is one's own, then remove the directory.
\* Only a heartbeat under way can tell these two apart.
Unlink(c) ==
  /\ step[c] \in Leaving
  /\ IF marker[EnvOf[c]] = c /\ c \in beat
       THEN marker' = [marker EXCEPT ![EnvOf[c]] = Empty] /\ Move(c, Unlinked(step[c]))
       ELSE /\ marker' = [marker EXCEPT ![EnvOf[c]] = IF @ = c THEN None ELSE @]
            /\ Move(c, Left(step[c]))
  /\ UNCHANGED <<prefix, temporary, active, job, child, beat, robbed, collector, journal, trash, kills>>

\* rmdir fails when a heartbeat has put owner.json back.
Rmdir(c) ==
  /\ step[c] \in {"unlinked", "failunlinked"}
  /\ marker' = [marker EXCEPT ![EnvOf[c]] = IF @ = Empty THEN None ELSE @]
  /\ Move(c, Left(step[c]))
  /\ UNCHANGED <<prefix, temporary, active, job, child, beat, robbed, collector, journal, trash, kills>>

\* The call is lost, the uncertain ownership stays.
ReleaseLost(c) ==
  /\ c \in Faulty /\ step[c] \in Leaving /\ Move(c, Left(step[c]))
  /\ UNCHANGED <<cluster, job, child, beat, robbed, collector, journal, trash, kills>>

\* Only a heartbeat that may be late can meet another owner's marker.  When
\* it reads does not matter, if the owner is its own.
BeatReads(c) ==
  /\ c \in Delayed /\ step[c] \in {"leased", "building", "verified"} /\ c \notin beat /\ marker[EnvOf[c]] = c
  /\ beat' = beat \union {c}
  /\ UNCHANGED <<cluster, step, job, child, robbed, collector, journal, trash, kills>>

\* The command replaces owner.json, whoever wrote it, if there is a marker.
BeatWrites(c) ==
  /\ c \in beat /\ beat' = beat \ {c}
  /\ marker' = [marker EXCEPT ![EnvOf[c]] = IF @ = None THEN None ELSE c]
  /\ robbed' = robbed \union ({marker[EnvOf[c]]} \ {c, None, Empty})
  /\ UNCHANGED <<prefix, temporary, active, step, job, child, collector, journal, trash, kills>>

\* prune_environments defers to whoever holds the lock.
Defer(c) ==
  /\ step[c] = "prune" /\ at # "idle" /\ Move(c, "ready")
  /\ UNCHANGED <<cluster, job, child, beat, robbed, collector, journal, trash, kills>>

\* A directory without request.json or state.json is uncertainty.
Stage(c) ==
  /\ step[c] = "ready"
  /\ job' = [job EXCEPT ![c] = "staged"] /\ Move(c, "staged")
  /\ UNCHANGED <<cluster, child, beat, robbed, collector, journal, trash, kills>>

\* The supervisor is started with the interpreter of the environment.
Launch(c) ==
  /\ step[c] = "staged"
  /\ IF EnvOf[c] \in prefix
       THEN job' = [job EXCEPT ![c] = "running"] /\ Move(c, "over")
       ELSE Move(c, "over") /\ UNCHANGED job
  /\ UNCHANGED <<cluster, child, beat, robbed, collector, journal, trash, kills>>

JobEnds(c) ==
  /\ job[c] = "running" /\ job' = [job EXCEPT ![c] = "ended"] /\ seen' = seen \ {c}
  /\ UNCHANGED <<cluster, step, child, beat, robbed, at, by, keep, plan, target, stage, journal, trash, kills>>

\* A controller ends; what it ran on the cluster may go on for a while.
Dies(c) ==
  /\ c \in Mortal /\ step[c] # "dead" /\ Move(c, "dead")
  /\ \/ UNCHANGED child
     \/ step[c] = "building" /\ child' = child \union {c}
  /\ UNCHANGED <<cluster, job, beat, robbed, collector, journal, trash, kills>>

ChildEnds(c) ==
  /\ c \in child /\ child' = child \ {c}
  /\ UNCHANGED <<cluster, step, job, beat, robbed, collector, journal, trash, kills>>

-----------------------------------------------------------------------------
(* Collection, under .gc.lock.  gc may choose any unprotected prefix (age, *)
(* quota and pressure decide), prune takes all of them.                    *)

Enter(s) == at' = s /\ UNCHANGED <<by, keep, plan, target, stage, seen>>
Finished ==
  /\ at' = "idle" /\ by' = None /\ keep' = {} /\ plan' = {}
  /\ target' = None /\ stage' = "none" /\ seen' = {}
\* A controller that waited for its prune goes on, whatever became of it.
Answered == IF by \in Submissions /\ step[by] = "pruning" THEN Move(by, "ready") ELSE UNCHANGED step

Collect ==
  /\ at = "idle" /\ at' = "resume" /\ seen' = {c \in Submissions : Live(c)}
  /\ UNCHANGED <<cluster, clients, by, keep, plan, target, stage, journal, trash, kills>>

Prune(c) ==
  /\ step[c] = "prune" /\ at = "idle" /\ at' = "markers" /\ by' = c /\ Move(c, "pruning")
  /\ keep' = {EnvOf[c]} /\ seen' = {d \in Submissions : Live(d)}
  /\ UNCHANGED <<cluster, job, child, beat, robbed, plan, target, stage, journal, trash, kills>>

Present(i) == i \in prefix \union temporary

\* What if a receipt waited for its original to be gone?
ResumeWaits(r) ==
  /\ at = "resume" /\ r \in journal /\ ~ Present(r.item)
  /\ journal' = journal \ {r} /\ trash' = trash \ {r}
  /\ UNCHANGED <<cluster, clients, collector, kills>>
\* The original that is still there, or there again, is left alone.
Resume(r) ==
  /\ at = "resume" /\ r \in journal
  /\ journal' = journal \ {r} /\ trash' = trash \ {r}
  /\ UNCHANGED <<cluster, clients, collector, kills>>

ReadPointer ==
  /\ at = "pointer" \/ (at = "resume" /\ journal = {})
  /\ at' = "jobs"
  /\ keep' = keep \union ({active} \ {None})
  /\ UNCHANGED <<cluster, clients, by, plan, target, stage, seen, journal, trash, kills>>

\* What if a Job without a request referred to nothing?
ReferredByRequest == {EnvOf[c] : c \in {d \in Submissions : job[d] = "running"}}
\* An unreadable Job protects everything, a running one its environment.
Referred ==
  IF \E c \in Submissions : job[c] = "staged" THEN Items
  ELSE {EnvOf[c] : c \in {d \in Submissions : job[d] = "running"}}

ReadJobs ==
  /\ at = "jobs" /\ at' = "plan"
  /\ keep' = keep \union Referred
  /\ UNCHANGED <<cluster, clients, by, plan, target, stage, seen, journal, trash, kills>>

\* No process has this prefix or one of its temporaries in its arguments.  A
\* controller that builds runs one command after another: the scan may fall
\* between two of them.
Unused(e) == \A c \in Submissions : EnvOf[c] = e => c \notin child /\ job[c] # "running"

\* What if any dead owner's marker were an orphan's?
OrphanedByDeath(e) == marker[e] \in Nearby \ Recycled /\ step[marker[e]] = "dead"
\* Only an unknown process id of this host, with nothing running in the prefix.
Orphaned(e) == marker[e] \in Nearby \ Recycled /\ step[marker[e]] = "dead" /\ Unused(e)

\* Any build blocks a prune.
LookForBuilds ==
  /\ at = "markers" /\ by # None
  /\ IF \E e \in Envs : marker[e] # None
       THEN Finished /\ Answered
       ELSE Enter("pointer") /\ UNCHANGED step
  /\ UNCHANGED <<cluster, job, child, beat, robbed, journal, trash, kills>>

\* While the lock is held no marker is added: reading the markers and
\* listing the prefixes, two steps of the code, come to the same.
Choose(P) ==
  /\ at = "plan" /\ at' = "delete" /\ keep' = {}
  /\ IF by # None THEN P = prefix \ keep
     ELSE \E E \in SUBSET {e \in prefix \ keep : marker[e] = None \/ Orphaned(e)} :
            P = E \union {c \in temporary \ keep : Orphaned(EnvOf[c])}
  /\ plan' = P
  /\ UNCHANGED <<cluster, clients, by, target, stage, seen, journal, trash, kills>>

Receipt(i) == [item |-> i, n |-> kills]

Journal(i) ==
  /\ at = "delete" /\ stage = "none" /\ i \in plan
  /\ plan' = plan \ {i} /\ target' = i /\ stage' = "journaled"
  /\ journal' = journal \union {Receipt(i)}
  /\ UNCHANGED <<cluster, clients, at, by, keep, seen, trash, kills>>

Rename ==
  /\ at = "delete" /\ stage = "journaled" /\ stage' = "renamed"
  /\ prefix' = prefix \ {target}
  /\ temporary' = temporary \ {target}
  /\ trash' = IF Present(target) THEN trash \union {Receipt(target)} ELSE trash
  /\ UNCHANGED <<active, marker, clients, at, by, keep, plan, target, seen, journal, kills>>

\* The tree, then the receipt: killed in between, the collector leaves a
\* receipt without trash, as when it is killed before the rename.
Remove ==
  /\ at = "delete" /\ stage = "renamed" /\ stage' = "none" /\ target' = None
  /\ trash' = trash \ {Receipt(target)} /\ journal' = journal \ {Receipt(target)}
  /\ UNCHANGED <<cluster, clients, at, by, keep, plan, seen, kills>>

\* What if the marker of a published environment were nobody's orphan?
FinishUnpublished ==
  /\ at = "delete" /\ stage = "none" /\ plan = {}
  /\ marker' = [e \in Envs |-> IF by = None /\ Orphaned(e) /\ e \notin prefix THEN None ELSE marker[e]]
  /\ Finished /\ Answered
  /\ UNCHANGED <<prefix, temporary, active, job, child, beat, robbed, journal, trash, kills>>
\* gc removes the markers that are orphans now.
Finish ==
  /\ at = "delete" /\ stage = "none" /\ plan = {}
  /\ marker' = [e \in Envs |-> IF by = None /\ Orphaned(e) THEN None ELSE marker[e]]
  /\ Finished /\ Answered
  /\ UNCHANGED <<prefix, temporary, active, job, child, beat, robbed, journal, trash, kills>>

\* The removal of a marker is no single step: killed after owner.json the
\* collector leaves a marker without owner, and it fails when a heartbeat has
\* put owner.json back.  E are the markers it removed before.
FinishFails(e, E) ==
  /\ at = "delete" /\ stage = "none" /\ plan = {} /\ by = None
  /\ e \notin E /\ \A f \in E \union {e} : Orphaned(f)
  /\ \E o \in {Empty} \union {c \in beat : EnvOf[c] = e} :
       /\ marker' = [f \in Envs |-> IF f = e THEN o ELSE IF f \in E THEN None ELSE marker[f]]
       /\ beat' = beat \ {o}
       /\ IF o = Empty THEN kills < MaxKills /\ kills' = kills + 1 ELSE UNCHANGED kills
  /\ Finished
  /\ UNCHANGED <<prefix, temporary, active, step, job, child, robbed, journal, trash>>

\* Killed without a receipt, it leaves nothing behind.
Killed ==
  /\ at # "idle" /\ journal # {} /\ kills < MaxKills /\ kills' = kills + 1
  /\ Finished /\ Answered
  /\ UNCHANGED <<cluster, job, child, beat, robbed, journal, trash>>

-----------------------------------------------------------------------------
CollectorStep ==
  \/ \E r \in journal : Resume(r)
  \/ ReadPointer \/ ReadJobs \/ LookForBuilds
  \/ \E P \in SUBSET Items : Choose(P)
  \/ \E i \in Items : Journal(i)
  \/ Rename \/ Remove \/ Finish

Prepare(c) ==
  \/ Acquire(c) \/ GiveUp(c) \/ Reuse(c) \/ Build(c) \/ BuildFails(c) \/ Publish(c)
  \/ Activate(c) \/ Unlink(c) \/ Rmdir(c) \/ ReleaseLost(c) \/ BeatReads(c) \/ BeatWrites(c)

Next ==
  \/ \E c \in Submissions : \/ Prepare(c) \/ Prune(c) \/ Defer(c) \/ Stage(c) \/ Launch(c)
                            \/ JobEnds(c) \/ Dies(c) \/ ChildEnds(c)
  \/ Collect \/ CollectorStep \/ Killed
  \/ \E e \in Envs, E \in SUBSET Envs : FinishFails(e, E)

Spec == Init /\ [][Next]_vars

\* A collection that began goes on, unless it is killed or fails.
Fairness == WF_vars(CollectorStep)

FairSpec == Spec /\ Fairness

-----------------------------------------------------------------------------
(* Properties.                                                             *)

\* Every variable keeps its type; a deletion is under way in one place only.
TypeOK ==
  /\ prefix \subseteq Envs /\ temporary \subseteq Submissions /\ active \in Envs \union {None}
  /\ marker \in [Envs -> Submissions \union {None, Empty}]
  /\ step \in [Submissions -> Steps]
  /\ job \in [Submissions -> {"none", "staged", "running", "ended"}]
  /\ child \subseteq Submissions /\ beat \subseteq Submissions /\ robbed \subseteq Submissions
  /\ at \in {"idle", "resume", "markers", "pointer", "jobs", "plan", "delete"}
  /\ by \in Submissions \union {None}
  /\ keep \subseteq Items /\ plan \subseteq Items
  /\ target \in Items \union {None} /\ stage \in Stages /\ (target = None <=> stage = "none")
  /\ journal \subseteq [item : Items, n : 0..MaxKills] /\ trash \subseteq journal
  /\ kills \in 0..MaxKills /\ seen \subseteq Submissions

\* What a controller builds or its installer writes, and what it has verified
\* under its marker, is there.
Keeps(c) ==
  /\ step[c] = "building" \/ c \in child => c \in temporary
  /\ step[c] \in {"verified", "leaving"} => EnvOf[c] \in prefix

(* No collector deletes what is being built, what the installer of a lost  *)
(* controller still writes, or what is verified under a marker, as long as *)
(* no late heartbeat has put another name into that marker.                *)
BuilderKeepsItsWork == \A c \in Submissions \ robbed : Keeps(c)

(* Not so: once the controller of the late heartbeat has exited, the next  *)
(* builder's marker is an orphan's, and with it what it builds.            *)
EveryBuilderKeepsItsWork == \A c \in Submissions : Keeps(c)

(* No collection, complete, killed or resumed, takes the environment of a  *)
(* Job that was there when it began and has not ended.                     *)
SeenJobsKeepTheirs ==
  [][\A c \in seen : EnvOf[c] \in prefix => EnvOf[c] \in prefix']_vars

\* gc runs again and again: Jobs end, space gets short, a user calls lf clean.
CollectionsGoOn == []<>(at = "resume")

\* A killed collector's renamed trees do not take up space for ever, if
\* collections go on.
TrashGoes == CollectionsGoOn => (trash # {} ~> trash = {})

(* If collections go on and the environment is not in use for ever, the    *)
(* marker of a controller of this host that is gone, and whose process id  *)
(* nobody else has got, does not name it for ever: the marker goes, unless *)
(* a collector is killed between owner.json and the directory.             *)
OrphansGo ==
  CollectionsGoOn =>
    \A c \in Nearby \ Recycled :
      []<>Unused(EnvOf[c]) =>
        (step[c] = "dead" /\ marker[EnvOf[c]] = c ~> marker[EnvOf[c]] # c)

(* Not so: a marker that lost its owner.json, to a killed collector or in  *)
(* an acquisition that was cut short, is nobody's orphan.                  *)
OwnerlessMarkersGo ==
  CollectionsGoOn => \A e \in Envs : marker[e] = Empty ~> marker[e] # Empty

(* Not so: gc also removes the marker of an orphan whose temporary it      *)
(* protects, and without the marker no later collection may take it.       *)
OrphansAreReclaimed ==
  \A c \in Nearby : step[c] = "dead" /\ c \in temporary => marker[EnvOf[c]] = c

(* Not so: between the release of its marker and its Job directory nothing *)
(* protects an environment but the pointer, which another one may take.    *)
LaunchFindsEnvironment == \A c \in Submissions : step[c] = "staged" => EnvOf[c] \in prefix
===============================================================================
