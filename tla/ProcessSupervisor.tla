--------------------------- MODULE ProcessSupervisor ---------------------------
(***************************************************************************)
(* Direct (unscheduled) Jobs of one host, controlplane/ProcessSupervisor.py.*)
(* Three kinds of process share the directory of a Job: its supervisor,    *)
(* which queues for resources, starts the scientific child and publishes   *)
(* its end; the child; and any number of `control' processes that cancel,  *)
(* pause or resume.  All of them write state.json.  A write is atomic (the *)
(* lock of _update_state), but whoever writes decided what to write from   *)
(* an earlier read, so every read and every write is a step of its own.    *)
(*                                                                         *)
(* CPU cores and GPUs are leased through files that name the supervisor.   *)
(* A file whose supervisor is dead counts for nothing, and is deleted by   *)
(* whoever meets it; the model keeps it and ignores it.                    *)
(***************************************************************************)
EXTENDS Integers, FiniteSets

CONSTANTS
  Jobs,         \* Jobs submitted to the host
  Cores,        \* CPU cores of the host
  Gpus,         \* GPUs visible to the supervisors
  CoreCount,    \* cores each Job requests
  GpuCount,     \* GPUs each Job requests; 0 also when gpu_access.mode is command
  Shared,       \* Jobs whose gpu_access.mode is shared
  Limited,      \* Jobs with a runtime_seconds
  Fragile,      \* Jobs whose supervisor may be killed
  Faulty,       \* Jobs whose supervisor may meet an exception
  Controllers,  \* control processes that may be active at one time
  Operations    \* operations they perform

ASSUME ConstantsAssumption ==
  /\ IsFiniteSet(Cores) /\ IsFiniteSet(Gpus)
  \* A larger request is refused with an exception, see Fail.
  /\ CoreCount \in [Jobs -> 0..Cardinality(Cores)]
  /\ GpuCount \in [Jobs -> 0..Cardinality(Gpus)]
  /\ Operations \subseteq {"cancel", "pause", "resume"}

VARIABLES
  state,      \* "state" of state.json, "absent" before the file exists
  identity,   \* does state.json hold the child's process_identity?
  cleanup,    \* "warning" of a failed cleanup in state.json; "skipped" without one
  step,       \* where the supervisor is
  verdict,    \* what the monitor decided to publish
  child,      \* the main scientific process
  stray,      \* are descendants of it alive outside its process group?
  cores,      \* cores of the Job's CPU lease file
  gpus,       \* GPUs of the Job's GPU lease files
  control     \* what each control process is doing

files == <<state, identity, cleanup>>
leases == <<cores, gpus>>
processes == <<child, stray>>
vars == <<files, step, verdict, processes, leases, control>>

Terminal == {"succeeded", "failed", "cancelled", "timeout"}
JobState == {"absent", "staging", "queued", "running", "paused"} \union Terminal
Live == {"running", "stopped"}
Exited == {"ok", "bad"}
Waiting == {"storage", "reserve", "stage", "capacity", "capacity_queue",
            "gpus", "gpus_try", "check", "spawn"}
Tending == {"record", "monitor", "deadline", "expire", "publish"}
Failing == {"handler", "fail"}
Closing == {"release", "free_gpus", "free_cores"}
Step == {"absent", "gone", "dead"} \union Waiting \union Tending \union Failing \union Closing
Idle == [op |-> "none"]
Pending == [op : Operations, job : Jobs, at : {"write", "signal", "kill"}, seen : BOOLEAN]

Alive(j) == step[j] \notin {"absent", "gone", "dead"}
Working(j) == child[j] \in Live \/ stray[j]
LeftBehind(j) == Working(j) /\ cleanup[j] # "none"
Goto(j, s) == step' = [step EXCEPT ![j] = s]
Write(j, s) == state' = [state EXCEPT ![j] = s]

Init ==
  /\ state = [j \in Jobs |-> "absent"]
  /\ identity = [j \in Jobs |-> FALSE]
  /\ cleanup = [j \in Jobs |-> "none"]
  /\ step = [j \in Jobs |-> "absent"]
  /\ verdict = [j \in Jobs |-> "failed"]
  /\ child = [j \in Jobs |-> "none"]
  /\ stray = [j \in Jobs |-> FALSE]
  /\ cores = [j \in Jobs |-> {}]
  /\ gpus = [j \in Jobs |-> {}]
  /\ control = [c \in Controllers |-> Idle]

-----------------------------------------------------------------------------
(* From launch to the child's start: storage, source, cores, GPUs.         *)

Serve(j) ==
  /\ step[j] = "absent"
  /\ Write(j, "staging")
  /\ Goto(j, "storage")
  /\ UNCHANGED <<identity, cleanup, verdict, processes, leases, control>>

(* The supervisor reads state.json and leaves if the Job was cancelled.    *)
Proceed(j, from, cancelled, otherwise) ==
  /\ step[j] = from
  /\ Goto(j, IF state[j] = "cancelled" THEN cancelled ELSE otherwise)
  /\ UNCHANGED <<files, verdict, processes, leases, control>>

ReadBeforeStorage(j) == Proceed(j, "storage", "release", "reserve")

(* StorageAdmission answers as it likes.                                   *)
ReserveStorage(j) ==
  /\ step[j] = "reserve"
  /\ Goto(j, "stage")
  /\ UNCHANGED <<files, verdict, processes, leases, control>>

(* A refused request writes QUEUED and tries again.                        *)
QueueAgain(j, from, to) ==
  /\ step[j] = from
  /\ Write(j, "queued")
  /\ Goto(j, to)
  /\ UNCHANGED <<identity, cleanup, verdict, processes, leases, control>>

QueueForStorage(j) == QueueAgain(j, "reserve", "storage")

StageSource(j) ==
  /\ step[j] = "stage"
  /\ Goto(j, "capacity")
  /\ UNCHANGED <<files, verdict, processes, leases, control>>

FreeCores == Cores \ UNION {cores[k] : k \in {i \in Jobs : Alive(i)}}

AcquireCapacity(j) ==
  /\ step[j] = "capacity"
  /\ \E S \in SUBSET FreeCores :
       /\ Cardinality(S) = CoreCount[j]
       /\ cores' = [cores EXCEPT ![j] = S]
  /\ Goto(j, "gpus")
  /\ UNCHANGED <<files, verdict, processes, gpus, control>>

(* Cores or RAM are short, or the lease lock timed out.  A cancelled Job   *)
(* goes on without cores, towards the check before the start.              *)
ReadAfterCapacity(j) == Proceed(j, "capacity", "gpus", "capacity_queue")
QueueForCapacity(j) == QueueAgain(j, "capacity_queue", "capacity")

ReadBeforeGpus(j) ==
  Proceed(j, "gpus", "check", IF GpuCount[j] = 0 THEN "check" ELSE "gpus_try")

(* Devices the driver may report as in use, by children whose supervisor   *)
(* died or could not stop them: reported or not, as their processes        *)
(* initialise and leave them.  No lease says which devices the latter use. *)
Orphaned ==
  IF \E k \in Jobs : LeftBehind(k) THEN Gpus
  ELSE UNION {gpus[k] : k \in {i \in Jobs : step[i] = "dead" /\ Working(i)}}

Blocks(k, j) == Alive(k) /\ ~(k \in Shared /\ j \in Shared)
\* An exclusive request looks only for exclusive leases.
AvailableIgnoringShared(j) ==
  {g \in Gpus : \A k \in Jobs : Blocks(k, j) /\ k \notin Shared => g \notin gpus[k]}

Available(j) == {g \in Gpus : \A k \in Jobs : Blocks(k, j) => g \notin gpus[k]}

AcquireGpus(j) ==
  /\ step[j] = "gpus_try"
  /\ \E occupied \in SUBSET (IF j \in Shared THEN {} ELSE Orphaned) :
       \E S \in SUBSET (Available(j) \ occupied) :
         /\ Cardinality(S) = GpuCount[j]
         /\ gpus' = [gpus EXCEPT ![j] = S]
  /\ Goto(j, "check")
  /\ UNCHANGED <<files, verdict, processes, cores, control>>

QueueForGpus(j) == QueueAgain(j, "gpus_try", "gpus")

\* The last look at state.json before the start is missing.
CheckSkipped(j) == Proceed(j, "check", "spawn", "spawn")

CheckCancelled(j) == Proceed(j, "check", "release", "spawn")

Spawn(j) ==
  /\ step[j] = "spawn"
  /\ child' = [child EXCEPT ![j] = "running"]
  /\ Goto(j, "record")
  /\ UNCHANGED <<files, verdict, stray, leases, control>>

-----------------------------------------------------------------------------
(* The child runs and the supervisor watches it.                           *)

\* Only a main process that is still there is signalled.
KillMain(j) ==
  /\ \E code \in Exited :
       child' = [child EXCEPT ![j] = IF child[j] \in Live THEN code ELSE child[j]]
  /\ stray' = [stray EXCEPT ![j] = stray[j] /\ child[j] \notin Live]

(* SIGTERM to the group, then SIGKILL to whatever carries the Job's mark.  *)
(* A child that handles SIGTERM chooses its own exit code.                 *)
Kill(j) ==
  /\ \E code \in Exited :
       child' = [child EXCEPT ![j] = IF child[j] \in Live THEN code ELSE child[j]]
  /\ stray' = [stray EXCEPT ![j] = FALSE]

(* Something outlives the signals, or cannot be inspected.                 *)
KillSome(j) ==
  /\ \E code \in Exited \union {child[j]} :
       child' = [child EXCEPT ![j] = IF child[j] \in Live THEN code ELSE child[j]]
  /\ \E left \in BOOLEAN :
       (left => Working(j)) /\ stray' = [stray EXCEPT ![j] = left]

RecordRunning(j) ==
  /\ step[j] = "record"
  /\ Write(j, "running")
  /\ identity' = [identity EXCEPT ![j] = TRUE]
  /\ Goto(j, "monitor")
  /\ UNCHANGED <<cleanup, verdict, processes, leases, control>>

\* Only a success replaces what the file says.
VerdictOfSuccess(j) == IF child[j] = "ok" THEN "succeeded" ELSE state[j]

Verdict(j) ==
  IF state[j] \in {"cancelled", "timeout"} THEN state[j]
  ELSE IF child[j] = "ok" THEN "succeeded" ELSE "failed"

PollExited(j) ==
  /\ step[j] = "monitor" /\ child[j] \in Exited
  /\ verdict' = [verdict EXCEPT ![j] = Verdict(j)]
  /\ Goto(j, "publish")
  /\ UNCHANGED <<files, processes, leases, control>>

PublishExit(j) ==
  /\ step[j] = "publish"
  /\ Write(j, verdict[j])
  /\ Goto(j, "release")
  /\ UNCHANGED <<identity, cleanup, verdict, processes, leases, control>>

\* The monitor leaves cancellation to the control process.
ObeyCancelNever(j) == step[j] = "monitor" /\ FALSE

ObeyCancel(j) ==
  /\ step[j] = "monitor" /\ child[j] \in Live
  /\ state[j] = "cancelled"
  /\ Kill(j)
  /\ UNCHANGED <<files, step, verdict, leases, control>>

MeetDeadline(j) ==
  /\ step[j] = "monitor" /\ child[j] \in Live
  /\ state[j] # "cancelled"
  /\ j \in Limited
  /\ Goto(j, "deadline")
  /\ UNCHANGED <<files, verdict, processes, leases, control>>

WriteTimeout(j) ==
  /\ step[j] = "deadline"
  /\ Write(j, "timeout")
  /\ Goto(j, "expire")
  /\ UNCHANGED <<identity, cleanup, verdict, processes, leases, control>>

\* The deadline is recorded and the child goes on.
KillForgotten(j) ==
  /\ step[j] = "expire"
  /\ Goto(j, "monitor")
  /\ UNCHANGED <<files, verdict, processes, leases, control>>

KillExpired(j) ==
  /\ step[j] = "expire"
  /\ Kill(j)
  /\ Goto(j, "monitor")
  /\ UNCHANGED <<files, verdict, leases, control>>

\* A stopped one may be killed from outside.
ChildExits(j) ==
  /\ child[j] \in Live
  /\ \E code \in Exited : child' = [child EXCEPT ![j] = code]
  /\ \E left \in BOOLEAN : stray' = [stray EXCEPT ![j] = left]
  /\ UNCHANGED <<files, step, verdict, leases, control>>

StrayExits(j) ==
  /\ stray[j]
  /\ stray' = [stray EXCEPT ![j] = FALSE]
  /\ UNCHANGED <<files, step, verdict, child, leases, control>>

-----------------------------------------------------------------------------
(* The end of the supervisor: an exception, the finally clause, or SIGKILL.*)

(* An exception: a request the host cannot meet, a missing source, a lock  *)
(* that timed out, a process that cannot be started or stopped.  What a    *)
(* failing _terminate did stop are steps of ChildExits and StrayExits.     *)
Fail(j) ==
  /\ j \in Faulty /\ step[j] \in Waiting \union Tending
  /\ Goto(j, "handler")
  /\ UNCHANGED <<files, verdict, processes, leases, control>>

ReadInHandler(j) ==
  /\ step[j] = "handler"
  /\ Goto(j, IF state[j] \in {"cancelled", "timeout"} THEN "release" ELSE "fail")
  /\ UNCHANGED <<files, verdict, processes, leases, control>>

WriteFailed(j) ==
  /\ step[j] = "fail"
  /\ Write(j, "failed")
  /\ Goto(j, "release")
  /\ UNCHANGED <<identity, cleanup, verdict, processes, leases, control>>

Terminate(j) ==
  /\ step[j] = "release"
  /\ IF child[j] = "none" THEN UNCHANGED processes ELSE Kill(j)
  /\ Goto(j, "free_gpus")
  /\ UNCHANGED <<files, verdict, leases, control>>

(* A process that survives is only written down.                           *)
TerminateFails(j) ==
  /\ j \in Faulty /\ step[j] = "release" /\ child[j] # "none"
  /\ KillSome(j)
  /\ cleanup' = [cleanup EXCEPT ![j] = "warning"]
  /\ Goto(j, "free_gpus")
  /\ UNCHANGED <<state, identity, verdict, leases, control>>

(* A child whose identity could not be read is not even looked for.        *)
SkipTerminate(j) ==
  /\ j \in Faulty /\ step[j] = "release" /\ child[j] # "none" /\ ~identity[j]
  /\ cleanup' = [cleanup EXCEPT ![j] = "skipped"]
  /\ Goto(j, "free_gpus")
  /\ UNCHANGED <<state, identity, verdict, processes, leases, control>>

ReleaseGpus(j) ==
  /\ step[j] = "free_gpus"
  /\ gpus' = [gpus EXCEPT ![j] = {}]
  /\ Goto(j, "free_cores")
  /\ UNCHANGED <<files, verdict, processes, cores, control>>

ReleaseCapacity(j) ==
  /\ step[j] = "free_cores"
  /\ cores' = [cores EXCEPT ![j] = {}]
  /\ Goto(j, "gone")
  /\ UNCHANGED <<files, verdict, processes, gpus, control>>

Crash(j) ==
  /\ j \in Fragile /\ Alive(j)
  /\ Goto(j, "dead")
  /\ UNCHANGED <<files, verdict, processes, leases, control>>

-----------------------------------------------------------------------------
(* The control processes.                                                  *)

Begin(c, op, j, at) ==
  /\ control[c] = Idle /\ op \in Operations
  /\ control' = [control EXCEPT ![c] = [op |-> op, job |-> j, at |-> at, seen |-> identity[j]]]
  /\ UNCHANGED <<files, step, verdict, processes, leases>>

At(c, ops, at) == control[c] # Idle /\ control[c].op \in ops /\ control[c].at = at
Return(c) == control' = [control EXCEPT ![c] = Idle]
Advance(c, at) ==
  control' = [control EXCEPT ![c] = [op |-> control[c].op, job |-> control[c].job,
                                     at |-> at, seen |-> control[c].seen]]

ReadToCancel(c, j) ==
  /\ state[j] # "absent" /\ state[j] \notin Terminal \ {"cancelled"}
  /\ Begin(c, "cancel", j, "write")

(* Without an identity in what was read there is nothing to terminate.     *)
WriteCancelled(c) ==
  /\ At(c, {"cancel"}, "write")
  /\ Write(control[c].job, "cancelled")
  /\ IF control[c].seen THEN Advance(c, "kill") ELSE Return(c)
  /\ UNCHANGED <<identity, cleanup, step, verdict, processes, leases>>

KillCancelled(c) ==
  /\ At(c, {"cancel"}, "kill")
  /\ Kill(control[c].job) \/ (control[c].job \in Faulty /\ KillSome(control[c].job))
  /\ Return(c)
  /\ UNCHANGED <<files, step, verdict, leases>>

ReadToPause(c, j) == state[j] = "running" /\ identity[j] /\ Begin(c, "pause", j, "signal")
ReadToResume(c, j) == state[j] = "paused" /\ identity[j] /\ Begin(c, "resume", j, "signal")

(* A process that no longer matches its identity is not signalled.         *)
Signal(c) ==
  /\ At(c, {"pause", "resume"}, "signal")
  /\ LET j == control[c].job
         to == IF control[c].op = "pause" THEN "stopped" ELSE "running"
     IN IF child[j] \in Live
          THEN child' = [child EXCEPT ![j] = to] /\ Advance(c, "write")
          ELSE Return(c) /\ UNCHANGED child
  /\ UNCHANGED <<files, step, verdict, stray, leases>>

WritePaused(c) ==
  /\ At(c, {"pause", "resume"}, "write")
  /\ Write(control[c].job, IF control[c].op = "pause" THEN "paused" ELSE "running")
  /\ Return(c)
  /\ UNCHANGED <<identity, cleanup, step, verdict, processes, leases>>

-----------------------------------------------------------------------------
Start(j) ==
  \/ Serve(j) \/ ReadBeforeStorage(j) \/ ReserveStorage(j) \/ QueueForStorage(j)
  \/ StageSource(j) \/ AcquireCapacity(j) \/ ReadAfterCapacity(j) \/ QueueForCapacity(j)
  \/ ReadBeforeGpus(j) \/ AcquireGpus(j) \/ QueueForGpus(j) \/ CheckCancelled(j) \/ Spawn(j)
Tend(j) ==
  \/ RecordRunning(j) \/ PollExited(j) \/ PublishExit(j) \/ ObeyCancel(j)
  \/ MeetDeadline(j) \/ WriteTimeout(j) \/ KillExpired(j)
Close(j) ==
  \/ ReadInHandler(j) \/ WriteFailed(j)
  \/ Terminate(j) \/ TerminateFails(j) \/ SkipTerminate(j)
  \/ ReleaseGpus(j) \/ ReleaseCapacity(j)
Supervise(j) == Start(j) \/ Tend(j) \/ Close(j)
Finish(c) == WriteCancelled(c) \/ KillCancelled(c) \/ Signal(c) \/ WritePaused(c)
Control(c) ==
  \/ \E j \in Jobs : ReadToCancel(c, j) \/ ReadToPause(c, j) \/ ReadToResume(c, j)
  \/ Finish(c)

Next ==
  \/ \E j \in Jobs :
       Supervise(j) \/ ChildExits(j) \/ StrayExits(j) \/ Fail(j) \/ Crash(j)
  \/ \E c \in Controllers : Control(c)

Spec == Init /\ [][Next]_vars

(* A supervisor and a control process go on; a child need not exit.  The   *)
(* retry loops never give up, so a grant that stays possible is obtained.  *)
Fairness ==
  /\ \A j \in Jobs :
       /\ WF_vars(Supervise(j))
       /\ SF_vars(ReserveStorage(j)) /\ SF_vars(AcquireCapacity(j)) /\ SF_vars(AcquireGpus(j))
  /\ \A c \in Controllers : WF_vars(Finish(c))
FairSpec == Spec /\ Fairness
-----------------------------------------------------------------------------
(* What holds of every history.                                            *)

(* Every file and every process is in one of the states the code writes.   *)
TypeOK ==
  /\ state \in [Jobs -> JobState]
  /\ identity \in [Jobs -> BOOLEAN]
  /\ cleanup \in [Jobs -> {"none", "warning", "skipped"}]
  /\ step \in [Jobs -> Step]
  /\ verdict \in [Jobs -> Terminal]
  /\ child \in [Jobs -> {"none"} \union Live \union Exited]
  /\ stray \in [Jobs -> BOOLEAN]
  /\ cores \in [Jobs -> SUBSET Cores]
  /\ gpus \in [Jobs -> SUBSET Gpus]
  /\ control \in [Controllers -> {Idle} \union Pending]

(* Two live supervisors never hold the same core, and never the same GPU   *)
(* unless both asked for shared access, whoever died and left files behind *)
(* (_acquire_capacity, _acquire_gpus, _shared_gpu_leased).                 *)
LeasesAreExclusive ==
  \A j, k \in Jobs : j # k /\ Alive(j) /\ Alive(k) =>
    /\ cores[j] \cap cores[k] = {}
    /\ gpus[j] \cap gpus[k] # {} => j \in Shared /\ k \in Shared

(* While a process of a supervised Job lives, paused, cancelled or timed   *)
(* out as it may be, its supervisor holds all the cores and GPUs the Job   *)
(* requested: nothing starts on the way out of a wait that was cancelled,  *)
(* and nothing is released before the last descendant is stopped, unless   *)
(* stopping it failed, which state.json then says of every child that it   *)
(* identifies.                                                             *)
WorkHoldsLeases ==
  \A j \in Jobs : Alive(j) /\ Working(j) =>
    \/ Cardinality(cores[j]) = CoreCount[j] /\ Cardinality(gpus[j]) = GpuCount[j]
    \/ cleanup[j] = "warning"
    \/ cleanup[j] = "skipped" /\ ~identity[j]

(* A supervisor that returned left no lease, and no process of its Job of  *)
(* which state.json does not warn, if it identifies the child: the finally *)
(* clause of serve tries to enforce the ownership boundary on every exit.  *)
NothingLeftBehind ==
  \A j \in Jobs : step[j] = "gone" =>
    /\ gpus[j] = {} /\ cores[j] = {}
    /\ Working(j) => cleanup[j] = "warning" \/ (cleanup[j] = "skipped" /\ ~identity[j])

(* If control processes only cancel, a Job whose supervisor returned is in *)
(* a terminal state, whichever read was overtaken by whichever write.      *)
EndsTerminal ==
  Operations \subseteq {"cancel"} =>
    \A j \in Jobs : step[j] = "gone" => state[j] \in Terminal

(* If control processes only cancel, a cancellation the monitor may see is *)
(* obeyed, even when the control process read no identity to terminate, or *)
(* state.json warns that it could not be.                                  *)
CancelStopsWork ==
  \A j \in Jobs :
    state[j] = "cancelled" /\ step[j] = "monitor" ~>
      child[j] \notin Live \/ cleanup[j] = "warning"

(* Every Job with a runtime limit finishes and gives back what it held,    *)
(* however many others it waits for, unless processes that could not be    *)
(* stopped stay for ever on the devices of the host.                       *)
LimitedJobsFinish ==
  (\A k \in Jobs : []<>~LeftBehind(k)) => \A j \in Limited : Alive(j) ~> step[j] = "gone"

(* The supervisors keep HostLeases, which knows neither files nor control  *)
(* processes: nothing starts twice or without its resources, no lease      *)
(* shrinks or passes on while its work lives and its supervisor has not    *)
(* failed to stop it, nobody waits with GPUs in hand, and the files of the *)
(* dead are no leases (serve, _acquire_capacity, _acquire_gpus, _terminate,*)
(* _release_gpus, _release_capacity).                                      *)
PhaseOf(s) ==
  IF s \in Waiting \union Tending THEN "here"
  ELSE IF s \in Failing \union Closing THEN "leaving" ELSE s
Phase == [j \in Jobs |-> PhaseOf(step[j])]
Work ==
  [j \in Jobs |-> IF child[j] = "none" THEN "none"
                 ELSE IF ~Working(j) THEN "over"
                 ELSE IF cleanup[j] # "none" THEN "left" ELSE "some"]
Held(lease) == [j \in Jobs |-> IF Alive(j) THEN lease[j] ELSE {}]
CoreGrants == [j \in Jobs |-> {S \in SUBSET Cores : Cardinality(S) = CoreCount[j]}]
GpuGrants == [j \in Jobs |-> {S \in SUBSET Gpus : Cardinality(S) = GpuCount[j]}]
Promise == INSTANCE HostLeases WITH
  phase <- Phase, work <- Work, cores <- Held(cores), gpus <- Held(gpus)
ImplementsHostLeases == Promise!Spec

(* JobState.terminal of jobs.py: "Return whether no further state          *)
(* transition is expected."                                                *)
TerminalIsFinal ==
  [][\A j \in Jobs : state[j] \in Terminal => state'[j] = state[j]]_vars

(* README.md:1138 on cancelling a Job of a direct host: "Cancellation      *)
(* succeeds only after no such process remains."                           *)
CancelSucceedsWhenStopped ==
  [][\A c \in Controllers, j \in Jobs :
       control[c] # Idle /\ control[c].op = "cancel" /\ control[c].job = j
       /\ control'[c] = Idle => child'[j] \notin Live /\ ~stray'[j]]_vars
=============================================================================
