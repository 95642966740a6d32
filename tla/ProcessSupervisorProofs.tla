------------------------ MODULE ProcessSupervisorProofs ------------------------
(***************************************************************************)
(* The inductive invariant of ProcessSupervisor and what follows from it   *)
(* for every host, every set of Jobs and every number of control processes.*)
(***************************************************************************)
EXTENDS ProcessSupervisor, FiniteSetTheorems, TLAPS

Unequipped == {"absent", "storage", "reserve", "stage", "capacity", "capacity_queue"}
HasCores(j) == Cardinality(cores[j]) = CoreCount[j]
HasGpus(j) == Cardinality(gpus[j]) = GpuCount[j]

(***************************************************************************)
(* What the place of a supervisor says about its leases and its processes. *)
(* A wait left because of a cancellation leads to the check before the     *)
(* start without leases; nothing but the supervisor may undo the           *)
(* cancellation there, since the child has no identity yet.                *)
(***************************************************************************)
Placed(j) ==
  /\ step[j] \in Unequipped => cores[j] = {}
  /\ step[j] \in Unequipped \union {"gpus", "gpus_try"} => gpus[j] = {}
  /\ step[j] \in {"absent"} \union Waiting => child[j] = "none"
  /\ child[j] = "none" => stray[j] = FALSE
  /\ step[j] = "gpus" => HasCores(j) \/ state[j] = "cancelled"
  /\ step[j] = "gpus_try" => HasCores(j)
  /\ step[j] = "check" => (HasCores(j) /\ HasGpus(j)) \/ state[j] = "cancelled"
  /\ step[j] \in {"spawn"} \union Tending => HasCores(j) /\ HasGpus(j)
  /\ step[j] \in Tending => child[j] # "none"
  /\ step[j] \in Failing \union {"release"} =>
       child[j] = "none" \/ (HasCores(j) /\ HasGpus(j))
  /\ step[j] \in {"free_gpus", "free_cores", "gone"} /\ cleanup[j] = "none" =>
       child[j] \notin Live /\ stray[j] = FALSE
  /\ step[j] \in {"free_cores", "gone"} => gpus[j] = {}
  /\ step[j] = "gone" => cores[j] = {}

(***************************************************************************)
(* Processes are given up in the finally clause only, by supervisors that  *)
(* meet exceptions, and in silence only without an identity.               *)
(***************************************************************************)
GivenUp(j) ==
  /\ cleanup[j] # "none" =>
       /\ step[j] \in {"free_gpus", "free_cores", "gone", "dead"}
       /\ j \in Faulty /\ child[j] # "none"
  /\ cleanup[j] = "skipped" => identity[j] = FALSE

PlacedInv == \A j \in Jobs : Placed(j) /\ GivenUp(j)

(***************************************************************************)
(* An identity is recorded for a child that was started, and a control     *)
(* process that signals one read it first.                                 *)
(***************************************************************************)
IdentityInv ==
  /\ \A j \in Jobs : identity[j] = TRUE => child[j] # "none"
  /\ \A c \in Controllers :
       control[c] # Idle /\ (control[c].op # "cancel" \/ control[c].seen = TRUE) =>
         identity[control[c].job] = TRUE

(***************************************************************************)
(* Under cancellation alone, the last write before a supervisor closes is  *)
(* a terminal state, and no later write is anything else.                  *)
(***************************************************************************)
EndInv ==
  Operations \subseteq {"cancel"} =>
    \A j \in Jobs : step[j] \in Closing \union {"gone"} => state[j] \in Terminal

IInv == TypeOK /\ LeasesAreExclusive /\ PlacedInv /\ IdentityInv /\ EndInv
-----------------------------------------------------------------------------
THEOREM Initially == Init => IInv
<1> SUFFICES ASSUME Init PROVE IInv
  OBVIOUS
<1>1. TypeOK
  BY DEF Init, TypeOK, JobState, Step, Terminal
<1>2. LeasesAreExclusive
  BY DEF Init, LeasesAreExclusive
<1>3. PlacedInv
  BY DEF Init, PlacedInv, Placed, GivenUp, Waiting, Tending, Failing
<1>4. IdentityInv
  BY DEF Init, IdentityInv, Idle
<1>5. EndInv
  BY DEF Init, EndInv, Closing
<1> QED
  BY <1>1, <1>2, <1>3, <1>4, <1>5 DEF IInv

(* Signals end processes of one Job and start none, whatever survives them.*)
LEMMA Signalled ==
  ASSUME TypeOK, NEW j \in Jobs, Kill(j) \/ KillSome(j)
  PROVE  /\ child' \in [Jobs -> {"none"} \union Live \union Exited]
         /\ stray' \in [Jobs -> BOOLEAN]
         /\ \A i \in Jobs \ {j} : child'[i] = child[i] /\ stray'[i] = stray[i]
         /\ child'[j] = "none" <=> child[j] = "none"
         /\ Working(j)' => Working(j)
<1> USE DEF TypeOK
<1>1. CASE Kill(j)
  BY <1>1 DEF Kill, Working, Live, Exited
<1>2. CASE KillSome(j)
  <2>1. PICK left \in BOOLEAN : (left => Working(j)) /\ stray' = [stray EXCEPT ![j] = left]
    BY <1>2 DEF KillSome
  <2>2. stray' \in [Jobs -> BOOLEAN] /\ (stray'[j] => Working(j))
    BY <2>1
  <2>3. \A i \in Jobs \ {j} : stray'[i] = stray[i]
    BY <2>1
  <2>4. /\ child' \in [Jobs -> {"none"} \union Live \union Exited]
        /\ \A i \in Jobs \ {j} : child'[i] = child[i]
        /\ child'[j] = "none" <=> child[j] = "none"
        /\ child'[j] \in Live => child[j] \in Live
    BY <1>2 DEF KillSome, Live, Exited
  <2> QED
    BY <2>2, <2>3, <2>4 DEF Working
<1> QED
  BY <1>1, <1>2

(* Every step writes values the readers of the files know.                 *)
LEMMA TypeStep == IInv /\ [Next]_vars => TypeOK'
<1> SUFFICES ASSUME IInv, [Next]_vars PROVE TypeOK'
  OBVIOUS
<1>1. ASSUME NEW j \in Jobs, Serve(j) PROVE TypeOK'
  BY <1>1 DEF Serve, Write, Goto, IInv, TypeOK, JobState, Step, Waiting,
     Tending, Failing, Closing, Terminal, Live, Exited, Pending, Idle, files,
     leases, processes
<1>2. ASSUME NEW j \in Jobs, ReadBeforeStorage(j) PROVE TypeOK'
  BY <1>2 DEF ReadBeforeStorage, Proceed, Goto, IInv, TypeOK, JobState, Step,
     Waiting, Tending, Failing, Closing, Terminal, Live, Exited, Pending, Idle,
     files, leases, processes
<1>3. ASSUME NEW j \in Jobs, ReserveStorage(j) PROVE TypeOK'
  BY <1>3 DEF ReserveStorage, Goto, IInv, TypeOK, JobState, Step, Waiting,
     Tending, Failing, Closing, Terminal, Live, Exited, Pending, Idle, files,
     leases, processes
<1>4. ASSUME NEW j \in Jobs, QueueForStorage(j) PROVE TypeOK'
  BY <1>4 DEF QueueForStorage, QueueAgain, Write, Goto, IInv, TypeOK, JobState,
     Step, Waiting, Tending, Failing, Closing, Terminal, Live, Exited, Pending,
     Idle, files, leases, processes
<1>5. ASSUME NEW j \in Jobs, StageSource(j) PROVE TypeOK'
  BY <1>5 DEF StageSource, Goto, IInv, TypeOK, JobState, Step, Waiting,
     Tending, Failing, Closing, Terminal, Live, Exited, Pending, Idle, files,
     leases, processes
<1>6. ASSUME NEW j \in Jobs, AcquireCapacity(j) PROVE TypeOK'
  BY <1>6 DEF AcquireCapacity, FreeCores, Goto, IInv, TypeOK, JobState, Step,
     Waiting, Tending, Failing, Closing, Terminal, Live, Exited, Pending, Idle,
     files, leases, processes
<1>7. ASSUME NEW j \in Jobs, ReadAfterCapacity(j) PROVE TypeOK'
  BY <1>7 DEF ReadAfterCapacity, Proceed, Goto, IInv, TypeOK, JobState, Step,
     Waiting, Tending, Failing, Closing, Terminal, Live, Exited, Pending, Idle,
     files, leases, processes
<1>8. ASSUME NEW j \in Jobs, QueueForCapacity(j) PROVE TypeOK'
  BY <1>8 DEF QueueForCapacity, QueueAgain, Write, Goto, IInv, TypeOK,
     JobState, Step, Waiting, Tending, Failing, Closing, Terminal, Live,
     Exited, Pending, Idle, files, leases, processes
<1>9. ASSUME NEW j \in Jobs, ReadBeforeGpus(j) PROVE TypeOK'
  BY <1>9 DEF ReadBeforeGpus, Proceed, Goto, IInv, TypeOK, JobState, Step,
     Waiting, Tending, Failing, Closing, Terminal, Live, Exited, Pending, Idle,
     files, leases, processes
<1>10. ASSUME NEW j \in Jobs, AcquireGpus(j) PROVE TypeOK'
  BY <1>10 DEF AcquireGpus, Available, Goto, IInv, TypeOK, JobState, Step,
     Waiting, Tending, Failing, Closing, Terminal, Live, Exited, Pending, Idle,
     files, leases, processes
<1>11. ASSUME NEW j \in Jobs, QueueForGpus(j) PROVE TypeOK'
  BY <1>11 DEF QueueForGpus, QueueAgain, Write, Goto, IInv, TypeOK, JobState,
     Step, Waiting, Tending, Failing, Closing, Terminal, Live, Exited, Pending,
     Idle, files, leases, processes
<1>12. ASSUME NEW j \in Jobs, CheckCancelled(j) PROVE TypeOK'
  BY <1>12 DEF CheckCancelled, Proceed, Goto, IInv, TypeOK, JobState, Step,
     Waiting, Tending, Failing, Closing, Terminal, Live, Exited, Pending, Idle,
     files, leases, processes
<1>13. ASSUME NEW j \in Jobs, Spawn(j) PROVE TypeOK'
  BY <1>13 DEF Spawn, Goto, IInv, TypeOK, JobState, Step, Waiting, Tending,
     Failing, Closing, Terminal, Live, Exited, Pending, Idle, files, leases,
     processes
<1>14. ASSUME NEW j \in Jobs, RecordRunning(j) PROVE TypeOK'
  BY <1>14 DEF RecordRunning, Write, Goto, IInv, TypeOK, JobState, Step,
     Waiting, Tending, Failing, Closing, Terminal, Live, Exited, Pending, Idle,
     files, leases, processes
<1>15. ASSUME NEW j \in Jobs, PollExited(j) PROVE TypeOK'
  BY <1>15 DEF PollExited, Verdict, Goto, IInv, TypeOK, JobState, Step,
     Waiting, Tending, Failing, Closing, Terminal, Live, Exited, Pending, Idle,
     files, leases, processes
<1>16. ASSUME NEW j \in Jobs, PublishExit(j) PROVE TypeOK'
  BY <1>16 DEF PublishExit, Write, Goto, IInv, TypeOK, JobState, Step, Waiting,
     Tending, Failing, Closing, Terminal, Live, Exited, Pending, Idle, files,
     leases, processes
<1>17. ASSUME NEW j \in Jobs, ObeyCancel(j) PROVE TypeOK'
  BY <1>17 DEF ObeyCancel, Kill, IInv, TypeOK, JobState, Step, Waiting,
     Tending, Failing, Closing, Terminal, Live, Exited, Pending, Idle, files,
     leases, processes
<1>18. ASSUME NEW j \in Jobs, MeetDeadline(j) PROVE TypeOK'
  BY <1>18 DEF MeetDeadline, Goto, IInv, TypeOK, JobState, Step, Waiting,
     Tending, Failing, Closing, Terminal, Live, Exited, Pending, Idle, files,
     leases, processes
<1>19. ASSUME NEW j \in Jobs, WriteTimeout(j) PROVE TypeOK'
  BY <1>19 DEF WriteTimeout, Write, Goto, IInv, TypeOK, JobState, Step,
     Waiting, Tending, Failing, Closing, Terminal, Live, Exited, Pending, Idle,
     files, leases, processes
<1>20. ASSUME NEW j \in Jobs, KillExpired(j) PROVE TypeOK'
  BY <1>20 DEF KillExpired, Kill, Goto, IInv, TypeOK, JobState, Step, Waiting,
     Tending, Failing, Closing, Terminal, Live, Exited, Pending, Idle, files,
     leases, processes
<1>21. ASSUME NEW j \in Jobs, ReadInHandler(j) PROVE TypeOK'
  BY <1>21 DEF ReadInHandler, Goto, IInv, TypeOK, JobState, Step, Waiting,
     Tending, Failing, Closing, Terminal, Live, Exited, Pending, Idle, files,
     leases, processes
<1>22. ASSUME NEW j \in Jobs, WriteFailed(j) PROVE TypeOK'
  BY <1>22 DEF WriteFailed, Write, Goto, IInv, TypeOK, JobState, Step, Waiting,
     Tending, Failing, Closing, Terminal, Live, Exited, Pending, Idle, files,
     leases, processes
<1>23. ASSUME NEW j \in Jobs, Terminate(j) PROVE TypeOK'
  <2>1. child' \in [Jobs -> {"none"} \union Live \union Exited] /\ stray' \in [Jobs -> BOOLEAN]
    BY <1>23, Signalled DEF Terminate, IInv, TypeOK, processes
  <2> QED
    BY <1>23, <2>1 DEF Terminate, Goto, IInv, TypeOK, Step, Closing, files, leases
<1>38. ASSUME NEW j \in Jobs, TerminateFails(j) PROVE TypeOK'
  BY <1>38 DEF TerminateFails, KillSome, Goto, IInv, TypeOK, JobState, Step, Waiting,
     Tending, Failing, Closing, Terminal, Live, Exited, Pending, Idle, files,
     leases, processes
<1>39. ASSUME NEW j \in Jobs, SkipTerminate(j) PROVE TypeOK'
  BY <1>39 DEF SkipTerminate, Goto, IInv, TypeOK, JobState, Step, Waiting,
     Tending, Failing, Closing, Terminal, Live, Exited, Pending, Idle, files,
     leases, processes
<1>24. ASSUME NEW j \in Jobs, ReleaseGpus(j) PROVE TypeOK'
  BY <1>24 DEF ReleaseGpus, Goto, IInv, TypeOK, JobState, Step, Waiting,
     Tending, Failing, Closing, Terminal, Live, Exited, Pending, Idle, files,
     leases, processes
<1>25. ASSUME NEW j \in Jobs, ReleaseCapacity(j) PROVE TypeOK'
  BY <1>25 DEF ReleaseCapacity, Goto, IInv, TypeOK, JobState, Step, Waiting,
     Tending, Failing, Closing, Terminal, Live, Exited, Pending, Idle, files,
     leases, processes
<1>26. ASSUME NEW j \in Jobs, ChildExits(j) PROVE TypeOK'
  BY <1>26 DEF ChildExits, IInv, TypeOK, JobState, Step, Waiting, Tending,
     Failing, Closing, Terminal, Live, Exited, Pending, Idle, files, leases,
     processes
<1>27. ASSUME NEW j \in Jobs, StrayExits(j) PROVE TypeOK'
  BY <1>27 DEF StrayExits, IInv, TypeOK, JobState, Step, Waiting, Tending,
     Failing, Closing, Terminal, Live, Exited, Pending, Idle, files, leases,
     processes
<1>28. ASSUME NEW j \in Jobs, Fail(j) PROVE TypeOK'
  BY <1>28 DEF Fail, Goto, IInv, TypeOK, JobState, Step, Waiting, Tending,
     Failing, Closing, Terminal, Live, Exited, Pending, Idle, files, leases,
     processes
<1>29. ASSUME NEW j \in Jobs, Crash(j) PROVE TypeOK'
  BY <1>29 DEF Crash, Goto, IInv, TypeOK, JobState, Step, Waiting, Tending,
     Failing, Closing, Terminal, Live, Exited, Pending, Idle, files, leases,
     processes
<1>30. ASSUME NEW c \in Controllers, NEW j \in Jobs, ReadToCancel(c, j) PROVE TypeOK'
  BY <1>30 DEF ReadToCancel, Begin, IInv, TypeOK, JobState, Step, Waiting,
     Tending, Failing, Closing, Terminal, Live, Exited, Pending, Idle, files,
     leases, processes
<1>31. ASSUME NEW c \in Controllers, NEW j \in Jobs, ReadToPause(c, j) PROVE TypeOK'
  BY <1>31 DEF ReadToPause, Begin, IInv, TypeOK, JobState, Step, Waiting,
     Tending, Failing, Closing, Terminal, Live, Exited, Pending, Idle, files,
     leases, processes
<1>32. ASSUME NEW c \in Controllers, NEW j \in Jobs, ReadToResume(c, j) PROVE TypeOK'
  BY <1>32 DEF ReadToResume, Begin, IInv, TypeOK, JobState, Step, Waiting,
     Tending, Failing, Closing, Terminal, Live, Exited, Pending, Idle, files,
     leases, processes
<1>33. ASSUME NEW c \in Controllers, WriteCancelled(c) PROVE TypeOK'
  BY <1>33 DEF WriteCancelled, At, Write, Advance, Return, IInv, TypeOK,
     JobState, Step, Waiting, Tending, Failing, Closing, Terminal, Live,
     Exited, Pending, Idle, files, leases, processes
<1>34. ASSUME NEW c \in Controllers, KillCancelled(c) PROVE TypeOK'
  <2>1. control[c].job \in Jobs /\ control' \in [Controllers -> {Idle} \union Pending]
    BY <1>34 DEF KillCancelled, At, Return, IInv, TypeOK, Idle, Pending
  <2>2. /\ child' \in [Jobs -> {"none"} \union Live \union Exited]
        /\ stray' \in [Jobs -> BOOLEAN]
    BY <1>34, <2>1, Signalled DEF KillCancelled, IInv
  <2> QED
    BY <1>34, <2>1, <2>2 DEF KillCancelled, IInv, TypeOK, files, leases
<1>35. ASSUME NEW c \in Controllers, Signal(c) PROVE TypeOK'
  BY <1>35 DEF Signal, At, Advance, Return, IInv, TypeOK, JobState, Step,
     Waiting, Tending, Failing, Closing, Terminal, Live, Exited, Pending, Idle,
     files, leases, processes
<1>36. ASSUME NEW c \in Controllers, WritePaused(c) PROVE TypeOK'
  BY <1>36 DEF WritePaused, At, Write, Return, IInv, TypeOK, JobState, Step,
     Waiting, Tending, Failing, Closing, Terminal, Live, Exited, Pending, Idle,
     files, leases, processes
<1>37. CASE UNCHANGED vars
  BY <1>37 DEF vars, IInv, TypeOK, JobState, Step, Waiting, Tending, Failing,
     Closing, Terminal, Live, Exited, Pending, Idle, files, leases, processes
<1> QED
  BY <1>1, <1>2, <1>3, <1>4, <1>5, <1>6, <1>7, <1>8, <1>9, <1>10, <1>11,
     <1>12, <1>13, <1>14, <1>15, <1>16, <1>17, <1>18, <1>19, <1>20, <1>21,
     <1>22, <1>23, <1>24, <1>25, <1>26, <1>27, <1>28, <1>29, <1>30, <1>31,
     <1>32, <1>33, <1>34, <1>35, <1>36, <1>37, <1>38, <1>39, Zenon DEF Next, Supervise,
     Start, Tend, Close, Control, Finish

(* Grants are taken from what no live supervisor holds.                    *)
LEMMA ExclusiveStep == IInv /\ [Next]_vars => LeasesAreExclusive'
<1> SUFFICES ASSUME IInv, [Next]_vars PROVE LeasesAreExclusive'
  OBVIOUS
<1>1. ASSUME NEW j \in Jobs, Serve(j) PROVE LeasesAreExclusive'
  BY <1>1 DEF Serve, Write, Goto, IInv, TypeOK, LeasesAreExclusive, PlacedInv,
     Placed, GivenUp, Unequipped, Alive, Step, files, leases, processes
<1>2. ASSUME NEW j \in Jobs, ReadBeforeStorage(j) PROVE LeasesAreExclusive'
  BY <1>2 DEF ReadBeforeStorage, Proceed, Goto, IInv, TypeOK,
     LeasesAreExclusive, Alive, Step, files, leases, processes
<1>3. ASSUME NEW j \in Jobs, ReserveStorage(j) PROVE LeasesAreExclusive'
  BY <1>3 DEF ReserveStorage, Goto, IInv, TypeOK, LeasesAreExclusive, Alive,
     Step, files, leases, processes
<1>4. ASSUME NEW j \in Jobs, QueueForStorage(j) PROVE LeasesAreExclusive'
  BY <1>4 DEF QueueForStorage, QueueAgain, Write, Goto, IInv, TypeOK,
     LeasesAreExclusive, Alive, Step, files, leases, processes
<1>5. ASSUME NEW j \in Jobs, StageSource(j) PROVE LeasesAreExclusive'
  BY <1>5 DEF StageSource, Goto, IInv, TypeOK, LeasesAreExclusive, Alive, Step,
     files, leases, processes
<1>6. ASSUME NEW j \in Jobs, AcquireCapacity(j) PROVE LeasesAreExclusive'
  BY <1>6 DEF AcquireCapacity, FreeCores, Goto, IInv, TypeOK,
     LeasesAreExclusive, Alive, Step, files, leases, processes
<1>7. ASSUME NEW j \in Jobs, ReadAfterCapacity(j) PROVE LeasesAreExclusive'
  BY <1>7 DEF ReadAfterCapacity, Proceed, Goto, IInv, TypeOK,
     LeasesAreExclusive, Alive, Step, files, leases, processes
<1>8. ASSUME NEW j \in Jobs, QueueForCapacity(j) PROVE LeasesAreExclusive'
  BY <1>8 DEF QueueForCapacity, QueueAgain, Write, Goto, IInv, TypeOK,
     LeasesAreExclusive, Alive, Step, files, leases, processes
<1>9. ASSUME NEW j \in Jobs, ReadBeforeGpus(j) PROVE LeasesAreExclusive'
  BY <1>9 DEF ReadBeforeGpus, Proceed, Goto, IInv, TypeOK, LeasesAreExclusive,
     Alive, Step, files, leases, processes
<1>10. ASSUME NEW j \in Jobs, AcquireGpus(j) PROVE LeasesAreExclusive'
  BY <1>10 DEF AcquireGpus, Available, Blocks, Goto, IInv, TypeOK,
     LeasesAreExclusive, Alive, Step, files, leases, processes
<1>11. ASSUME NEW j \in Jobs, QueueForGpus(j) PROVE LeasesAreExclusive'
  BY <1>11 DEF QueueForGpus, QueueAgain, Write, Goto, IInv, TypeOK,
     LeasesAreExclusive, Alive, Step, files, leases, processes
<1>12. ASSUME NEW j \in Jobs, CheckCancelled(j) PROVE LeasesAreExclusive'
  BY <1>12 DEF CheckCancelled, Proceed, Goto, IInv, TypeOK, LeasesAreExclusive,
     Alive, Step, files, leases, processes
<1>13. ASSUME NEW j \in Jobs, Spawn(j) PROVE LeasesAreExclusive'
  BY <1>13 DEF Spawn, Goto, IInv, TypeOK, LeasesAreExclusive, Alive, Step,
     files, leases, processes
<1>14. ASSUME NEW j \in Jobs, RecordRunning(j) PROVE LeasesAreExclusive'
  BY <1>14 DEF RecordRunning, Write, Goto, IInv, TypeOK, LeasesAreExclusive,
     Alive, Step, files, leases, processes
<1>15. ASSUME NEW j \in Jobs, PollExited(j) PROVE LeasesAreExclusive'
  BY <1>15 DEF PollExited, Verdict, Goto, IInv, TypeOK, LeasesAreExclusive,
     Alive, Step, files, leases, processes
<1>16. ASSUME NEW j \in Jobs, PublishExit(j) PROVE LeasesAreExclusive'
  BY <1>16 DEF PublishExit, Write, Goto, IInv, TypeOK, LeasesAreExclusive,
     Alive, Step, files, leases, processes
<1>17. ASSUME NEW j \in Jobs, ObeyCancel(j) PROVE LeasesAreExclusive'
  BY <1>17 DEF ObeyCancel, Kill, IInv, TypeOK, LeasesAreExclusive, Alive, Step,
     files, leases, processes
<1>18. ASSUME NEW j \in Jobs, MeetDeadline(j) PROVE LeasesAreExclusive'
  BY <1>18 DEF MeetDeadline, Goto, IInv, TypeOK, LeasesAreExclusive, Alive,
     Step, files, leases, processes
<1>19. ASSUME NEW j \in Jobs, WriteTimeout(j) PROVE LeasesAreExclusive'
  BY <1>19 DEF WriteTimeout, Write, Goto, IInv, TypeOK, LeasesAreExclusive,
     Alive, Step, files, leases, processes
<1>20. ASSUME NEW j \in Jobs, KillExpired(j) PROVE LeasesAreExclusive'
  BY <1>20 DEF KillExpired, Kill, Goto, IInv, TypeOK, LeasesAreExclusive,
     Alive, Step, files, leases, processes
<1>21. ASSUME NEW j \in Jobs, ReadInHandler(j) PROVE LeasesAreExclusive'
  BY <1>21 DEF ReadInHandler, Goto, IInv, TypeOK, LeasesAreExclusive, Alive,
     Step, files, leases, processes
<1>22. ASSUME NEW j \in Jobs, WriteFailed(j) PROVE LeasesAreExclusive'
  BY <1>22 DEF WriteFailed, Write, Goto, IInv, TypeOK, LeasesAreExclusive,
     Alive, Step, files, leases, processes
<1>23. ASSUME NEW j \in Jobs, Terminate(j) PROVE LeasesAreExclusive'
  BY <1>23 DEF Terminate, Kill, Goto, IInv, TypeOK, LeasesAreExclusive, Alive,
     Step, files, leases, processes
<1>38. ASSUME NEW j \in Jobs, TerminateFails(j) PROVE LeasesAreExclusive'
  BY <1>38 DEF TerminateFails, KillSome, Goto, IInv, TypeOK, LeasesAreExclusive, Alive,
     Step, files, leases, processes
<1>39. ASSUME NEW j \in Jobs, SkipTerminate(j) PROVE LeasesAreExclusive'
  BY <1>39 DEF SkipTerminate, Goto, IInv, TypeOK, LeasesAreExclusive, Alive,
     Step, files, leases, processes
<1>24. ASSUME NEW j \in Jobs, ReleaseGpus(j) PROVE LeasesAreExclusive'
  BY <1>24 DEF ReleaseGpus, Goto, IInv, TypeOK, LeasesAreExclusive, Alive,
     Step, files, leases, processes
<1>25. ASSUME NEW j \in Jobs, ReleaseCapacity(j) PROVE LeasesAreExclusive'
  BY <1>25 DEF ReleaseCapacity, Goto, IInv, TypeOK, LeasesAreExclusive, Alive,
     Step, files, leases, processes
<1>26. ASSUME NEW j \in Jobs, ChildExits(j) PROVE LeasesAreExclusive'
  BY <1>26 DEF ChildExits, IInv, TypeOK, LeasesAreExclusive, Alive, Step,
     files, leases, processes
<1>27. ASSUME NEW j \in Jobs, StrayExits(j) PROVE LeasesAreExclusive'
  BY <1>27 DEF StrayExits, IInv, TypeOK, LeasesAreExclusive, Alive, Step,
     files, leases, processes
<1>28. ASSUME NEW j \in Jobs, Fail(j) PROVE LeasesAreExclusive'
  BY <1>28 DEF Fail, Goto, IInv, TypeOK, LeasesAreExclusive, Alive, Waiting,
     Tending, Step, files, leases, processes
<1>29. ASSUME NEW j \in Jobs, Crash(j) PROVE LeasesAreExclusive'
  BY <1>29 DEF Crash, Goto, IInv, TypeOK, LeasesAreExclusive, Alive, Step,
     files, leases, processes
<1>30. ASSUME NEW c \in Controllers, NEW j \in Jobs, ReadToCancel(c, j) PROVE LeasesAreExclusive'
  BY <1>30 DEF ReadToCancel, Begin, IInv, TypeOK, LeasesAreExclusive, Alive,
     Step, files, leases, processes
<1>31. ASSUME NEW c \in Controllers, NEW j \in Jobs, ReadToPause(c, j) PROVE LeasesAreExclusive'
  BY <1>31 DEF ReadToPause, Begin, IInv, TypeOK, LeasesAreExclusive, Alive,
     Step, files, leases, processes
<1>32. ASSUME NEW c \in Controllers, NEW j \in Jobs, ReadToResume(c, j) PROVE LeasesAreExclusive'
  BY <1>32 DEF ReadToResume, Begin, IInv, TypeOK, LeasesAreExclusive, Alive,
     Step, files, leases, processes
<1>33. ASSUME NEW c \in Controllers, WriteCancelled(c) PROVE LeasesAreExclusive'
  BY <1>33 DEF WriteCancelled, At, Write, Advance, Return, IInv, TypeOK,
     LeasesAreExclusive, Alive, Step, files, leases, processes
<1>34. ASSUME NEW c \in Controllers, KillCancelled(c) PROVE LeasesAreExclusive'
  BY <1>34 DEF KillCancelled, At, Kill, KillSome, Return, IInv, TypeOK,
     LeasesAreExclusive, Alive, Step, files, leases, processes
<1>35. ASSUME NEW c \in Controllers, Signal(c) PROVE LeasesAreExclusive'
  BY <1>35 DEF Signal, At, Advance, Return, IInv, TypeOK, LeasesAreExclusive,
     Alive, Step, files, leases, processes
<1>36. ASSUME NEW c \in Controllers, WritePaused(c) PROVE LeasesAreExclusive'
  BY <1>36 DEF WritePaused, At, Write, Return, IInv, TypeOK,
     LeasesAreExclusive, Alive, Step, files, leases, processes
<1>37. CASE UNCHANGED vars
  BY <1>37 DEF vars, IInv, TypeOK, LeasesAreExclusive, Alive, Step, files,
     leases, processes
<1> QED
  BY <1>1, <1>2, <1>3, <1>4, <1>5, <1>6, <1>7, <1>8, <1>9, <1>10, <1>11,
     <1>12, <1>13, <1>14, <1>15, <1>16, <1>17, <1>18, <1>19, <1>20, <1>21,
     <1>22, <1>23, <1>24, <1>25, <1>26, <1>27, <1>28, <1>29, <1>30, <1>31,
     <1>32, <1>33, <1>34, <1>35, <1>36, <1>37, <1>38, <1>39, Zenon DEF Next, Supervise,
     Start, Tend, Close, Control, Finish

(* Every step leaves the supervisors where their leases allow.             *)
LEMMA PlacedStep == IInv /\ [Next]_vars => PlacedInv'
<1> SUFFICES ASSUME IInv, [Next]_vars PROVE PlacedInv'
  OBVIOUS
<1>1. ASSUME NEW j \in Jobs, Serve(j) PROVE PlacedInv'
  BY <1>1 DEF Serve, Write, Goto, IInv, TypeOK, PlacedInv, Placed, GivenUp, Unequipped,
     HasCores, HasGpus, Waiting, Tending, Failing, Live, Step, files, leases,
     processes
<1>2. ASSUME NEW j \in Jobs, ReadBeforeStorage(j) PROVE PlacedInv'
  BY <1>2 DEF ReadBeforeStorage, Proceed, Goto, IInv, TypeOK, PlacedInv,
     Placed, GivenUp, Unequipped, HasCores, HasGpus, Waiting, Tending, Failing, Live,
     Step, files, leases, processes
<1>3. ASSUME NEW j \in Jobs, ReserveStorage(j) PROVE PlacedInv'
  BY <1>3 DEF ReserveStorage, Goto, IInv, TypeOK, PlacedInv, Placed, GivenUp,
     Unequipped, HasCores, HasGpus, Waiting, Tending, Failing, Live, Step,
     files, leases, processes
<1>4. ASSUME NEW j \in Jobs, QueueForStorage(j) PROVE PlacedInv'
  BY <1>4 DEF QueueForStorage, QueueAgain, Write, Goto, IInv, TypeOK,
     PlacedInv, Placed, GivenUp, Unequipped, HasCores, HasGpus, Waiting, Tending,
     Failing, Live, Step, files, leases, processes
<1>5. ASSUME NEW j \in Jobs, StageSource(j) PROVE PlacedInv'
  BY <1>5 DEF StageSource, Goto, IInv, TypeOK, PlacedInv, Placed, GivenUp, Unequipped,
     HasCores, HasGpus, Waiting, Tending, Failing, Live, Step, files, leases,
     processes
<1>6. ASSUME NEW j \in Jobs, AcquireCapacity(j) PROVE PlacedInv'
  BY <1>6 DEF AcquireCapacity, FreeCores, Goto, IInv, TypeOK, PlacedInv,
     Placed, GivenUp, Unequipped, HasCores, HasGpus, Waiting, Tending, Failing, Live,
     Step, files, leases, processes
<1>7. ASSUME NEW j \in Jobs, ReadAfterCapacity(j) PROVE PlacedInv'
  BY <1>7 DEF ReadAfterCapacity, Proceed, Goto, IInv, TypeOK, PlacedInv,
     Placed, GivenUp, Unequipped, HasCores, HasGpus, Waiting, Tending, Failing, Live,
     Step, files, leases, processes
<1>8. ASSUME NEW j \in Jobs, QueueForCapacity(j) PROVE PlacedInv'
  BY <1>8 DEF QueueForCapacity, QueueAgain, Write, Goto, IInv, TypeOK,
     PlacedInv, Placed, GivenUp, Unequipped, HasCores, HasGpus, Waiting, Tending,
     Failing, Live, Step, files, leases, processes
<1>9. ASSUME NEW j \in Jobs, ReadBeforeGpus(j) PROVE PlacedInv'
  <2>1. step[j] = "gpus" /\ UNCHANGED <<files, verdict, processes, leases, control>>
    BY <1>9 DEF ReadBeforeGpus, Proceed
  <2>2. HasCores(j) \/ state[j] = "cancelled"
    BY <2>1 DEF IInv, PlacedInv, Placed, Unequipped
  <2>3. CASE state[j] = "cancelled" \/ GpuCount[j] = 0
    <3>1. step' = [step EXCEPT ![j] = "check"]
      BY <1>9, <2>3 DEF ReadBeforeGpus, Proceed, Goto
    <3>2. state[j] = "cancelled" \/ (HasCores(j) /\ HasGpus(j))
      BY <2>1, <2>2, <2>3, FS_EmptySet DEF IInv, PlacedInv, Placed, Unequipped, HasGpus
    <3> QED
      BY <2>1, <3>1, <3>2 DEF IInv, TypeOK, PlacedInv, Placed, GivenUp, Unequipped, HasCores,
         HasGpus, Waiting, Tending, Failing, files, leases, processes
  <2>4. CASE state[j] # "cancelled" /\ GpuCount[j] # 0
    <3>1. step' = [step EXCEPT ![j] = "gpus_try"]
      BY <1>9, <2>4 DEF ReadBeforeGpus, Proceed, Goto
    <3> QED
      BY <2>1, <2>2, <2>4, <3>1 DEF IInv, TypeOK, PlacedInv, Placed, GivenUp, Unequipped,
         HasCores, HasGpus, Waiting, Tending, Failing, files, leases, processes
  <2> QED
    BY <2>3, <2>4
<1>10. ASSUME NEW j \in Jobs, AcquireGpus(j) PROVE PlacedInv'
  BY <1>10 DEF AcquireGpus, Available, Goto, IInv, TypeOK, PlacedInv, Placed, GivenUp,
     Unequipped, HasCores, HasGpus, Waiting, Tending, Failing, Live, Step,
     files, leases, processes
<1>11. ASSUME NEW j \in Jobs, QueueForGpus(j) PROVE PlacedInv'
  BY <1>11 DEF QueueForGpus, QueueAgain, Write, Goto, IInv, TypeOK, PlacedInv,
     Placed, GivenUp, Unequipped, HasCores, HasGpus, Waiting, Tending, Failing, Live,
     Step, files, leases, processes
<1>12. ASSUME NEW j \in Jobs, CheckCancelled(j) PROVE PlacedInv'
  BY <1>12 DEF CheckCancelled, Proceed, Goto, IInv, TypeOK, PlacedInv, Placed, GivenUp,
     Unequipped, HasCores, HasGpus, Waiting, Tending, Failing, Live, Step,
     files, leases, processes
<1>13. ASSUME NEW j \in Jobs, Spawn(j) PROVE PlacedInv'
  BY <1>13 DEF Spawn, Goto, IInv, TypeOK, PlacedInv, Placed, GivenUp, Unequipped,
     HasCores, HasGpus, Waiting, Tending, Failing, Live, Step, files, leases,
     processes
<1>14. ASSUME NEW j \in Jobs, RecordRunning(j) PROVE PlacedInv'
  BY <1>14 DEF RecordRunning, Write, Goto, IInv, TypeOK, PlacedInv, Placed, GivenUp,
     Unequipped, HasCores, HasGpus, Waiting, Tending, Failing, Live, Step,
     files, leases, processes
<1>15. ASSUME NEW j \in Jobs, PollExited(j) PROVE PlacedInv'
  BY <1>15 DEF PollExited, Verdict, Goto, IInv, TypeOK, PlacedInv, Placed, GivenUp,
     Unequipped, HasCores, HasGpus, Waiting, Tending, Failing, Live, Step,
     files, leases, processes
<1>16. ASSUME NEW j \in Jobs, PublishExit(j) PROVE PlacedInv'
  BY <1>16 DEF PublishExit, Write, Goto, IInv, TypeOK, PlacedInv, Placed, GivenUp,
     Unequipped, HasCores, HasGpus, Waiting, Tending, Failing, Live, Step,
     files, leases, processes
<1>17. ASSUME NEW j \in Jobs, ObeyCancel(j) PROVE PlacedInv'
  BY <1>17 DEF ObeyCancel, Kill, Exited, IInv, TypeOK, PlacedInv, Placed, GivenUp, Unequipped,
     HasCores, HasGpus, Waiting, Tending, Failing, Live, Step, files, leases,
     processes
<1>18. ASSUME NEW j \in Jobs, MeetDeadline(j) PROVE PlacedInv'
  BY <1>18 DEF MeetDeadline, Goto, IInv, TypeOK, PlacedInv, Placed, GivenUp, Unequipped,
     HasCores, HasGpus, Waiting, Tending, Failing, Live, Step, files, leases,
     processes
<1>19. ASSUME NEW j \in Jobs, WriteTimeout(j) PROVE PlacedInv'
  BY <1>19 DEF WriteTimeout, Write, Goto, IInv, TypeOK, PlacedInv, Placed, GivenUp,
     Unequipped, HasCores, HasGpus, Waiting, Tending, Failing, Live, Step,
     files, leases, processes
<1>20. ASSUME NEW j \in Jobs, KillExpired(j) PROVE PlacedInv'
  BY <1>20 DEF KillExpired, Kill, Goto, IInv, TypeOK, PlacedInv, Placed, GivenUp,
     Unequipped, HasCores, HasGpus, Waiting, Tending, Failing, Live, Exited,
     Step, files, leases, processes
<1>21. ASSUME NEW j \in Jobs, ReadInHandler(j) PROVE PlacedInv'
  BY <1>21 DEF ReadInHandler, Goto, IInv, TypeOK, PlacedInv, Placed, GivenUp,
     Unequipped, HasCores, HasGpus, Waiting, Tending, Failing, Live, Step,
     files, leases, processes
<1>22. ASSUME NEW j \in Jobs, WriteFailed(j) PROVE PlacedInv'
  BY <1>22 DEF WriteFailed, Write, Goto, IInv, TypeOK, PlacedInv, Placed, GivenUp,
     Unequipped, HasCores, HasGpus, Waiting, Tending, Failing, Live, Step,
     files, leases, processes
<1>23. ASSUME NEW j \in Jobs, Terminate(j) PROVE PlacedInv'
  <2>1. /\ child'[j] \notin Live /\ stray'[j] = FALSE
        /\ \A i \in Jobs \ {j} : child'[i] = child[i] /\ stray'[i] = stray[i]
    BY <1>23 DEF Terminate, Kill, IInv, TypeOK, PlacedInv, Placed, Tending,
       Failing, Live, Exited, processes, Waiting
  <2>2. /\ step' = [step EXCEPT ![j] = "free_gpus"]
        /\ UNCHANGED <<files, cores, gpus>>
    BY <1>23 DEF Terminate, Goto, leases
  <2> QED
    <3>1. \A i \in Jobs : Placed(i)'
      BY <2>1, <2>2 DEF IInv, TypeOK, PlacedInv, Placed, Unequipped, HasCores,
         HasGpus, Waiting, Tending, Failing, files
    <3>2. child'[j] = "none" <=> child[j] = "none"
      BY <1>23 DEF Terminate, Kill, IInv, TypeOK, Live, Exited, processes
    <3>3. \A i \in Jobs : GivenUp(i)'
      BY <2>1, <2>2, <3>2 DEF IInv, TypeOK, PlacedInv, GivenUp, files
    <3> QED
      BY <3>1, <3>3 DEF PlacedInv
<1>38. ASSUME NEW j \in Jobs, TerminateFails(j) PROVE PlacedInv'
  BY <1>38 DEF TerminateFails, KillSome, Goto, IInv, TypeOK, PlacedInv, Placed, GivenUp, Unequipped,
     HasCores, HasGpus, Waiting, Tending, Failing, Live, Exited, Step, files,
     leases, processes
<1>39. ASSUME NEW j \in Jobs, SkipTerminate(j) PROVE PlacedInv'
  BY <1>39 DEF SkipTerminate, Goto, IInv, TypeOK, PlacedInv, Placed, GivenUp, Unequipped,
     HasCores, HasGpus, Waiting, Tending, Failing, Live, Exited, Step, files,
     leases, processes
<1>24. ASSUME NEW j \in Jobs, ReleaseGpus(j) PROVE PlacedInv'
  BY <1>24 DEF ReleaseGpus, Goto, IInv, TypeOK, PlacedInv, Placed, GivenUp, Unequipped,
     HasCores, HasGpus, Waiting, Tending, Failing, Live, Step, files, leases,
     processes
<1>25. ASSUME NEW j \in Jobs, ReleaseCapacity(j) PROVE PlacedInv'
  BY <1>25 DEF ReleaseCapacity, Goto, IInv, TypeOK, PlacedInv, Placed, GivenUp,
     Unequipped, HasCores, HasGpus, Waiting, Tending, Failing, Live, Step,
     files, leases, processes
<1>26. ASSUME NEW j \in Jobs, ChildExits(j) PROVE PlacedInv'
  BY <1>26 DEF ChildExits, Exited, IInv, TypeOK, PlacedInv, Placed, GivenUp, Unequipped,
     HasCores, HasGpus, Waiting, Tending, Failing, Live, Step, files, leases,
     processes
<1>27. ASSUME NEW j \in Jobs, StrayExits(j) PROVE PlacedInv'
  BY <1>27 DEF StrayExits, IInv, TypeOK, PlacedInv, Placed, GivenUp, Unequipped,
     HasCores, HasGpus, Waiting, Tending, Failing, Live, Step, files, leases,
     processes
<1>28. ASSUME NEW j \in Jobs, Fail(j) PROVE PlacedInv'
  BY <1>28 DEF Fail, Goto, IInv, TypeOK, PlacedInv, Placed, GivenUp, Unequipped,
     HasCores, HasGpus, Waiting, Tending, Failing, Live, Step, files, leases,
     processes
<1>29. ASSUME NEW j \in Jobs, Crash(j) PROVE PlacedInv'
  BY <1>29 DEF Crash, Goto, IInv, TypeOK, PlacedInv, Placed, GivenUp, Unequipped,
     HasCores, HasGpus, Waiting, Tending, Failing, Live, Step, files, leases,
     processes
<1>30. ASSUME NEW c \in Controllers, NEW j \in Jobs, ReadToCancel(c, j) PROVE PlacedInv'
  BY <1>30 DEF ReadToCancel, Begin, IInv, TypeOK, PlacedInv, Placed, GivenUp,
     Unequipped, HasCores, HasGpus, Waiting, Tending, Failing, Live, Step,
     files, leases, processes
<1>31. ASSUME NEW c \in Controllers, NEW j \in Jobs, ReadToPause(c, j) PROVE PlacedInv'
  BY <1>31 DEF ReadToPause, Begin, IInv, TypeOK, PlacedInv, Placed, GivenUp, Unequipped,
     HasCores, HasGpus, Waiting, Tending, Failing, Live, Step, files, leases,
     processes
<1>32. ASSUME NEW c \in Controllers, NEW j \in Jobs, ReadToResume(c, j) PROVE PlacedInv'
  BY <1>32 DEF ReadToResume, Begin, IInv, TypeOK, PlacedInv, Placed, GivenUp,
     Unequipped, HasCores, HasGpus, Waiting, Tending, Failing, Live, Step,
     files, leases, processes
<1>33. ASSUME NEW c \in Controllers, WriteCancelled(c) PROVE PlacedInv'
  BY <1>33 DEF WriteCancelled, At, Write, Advance, Return, IInv, TypeOK,
     PlacedInv, Placed, GivenUp, Unequipped, HasCores, HasGpus, Waiting, Tending,
     Failing, Live, Step, files, leases, processes
<1>34. ASSUME NEW c \in Controllers, KillCancelled(c) PROVE PlacedInv'
  <2>0. control[c].job \in Jobs
    BY <1>34 DEF KillCancelled, At, IInv, TypeOK, Idle, Pending
  <2>1. PICK j \in Jobs : /\ Kill(j) \/ KillSome(j)
                          /\ UNCHANGED <<files, step, leases>>
    BY <1>34, <2>0 DEF KillCancelled
  <2>2. /\ \A i \in Jobs \ {j} : child'[i] = child[i] /\ stray'[i] = stray[i]
        /\ child'[j] = "none" <=> child[j] = "none"
        /\ Working(j)' => Working(j)
    BY <2>1, Signalled DEF IInv
  <2>3. stray \in [Jobs -> BOOLEAN] /\ stray' \in [Jobs -> BOOLEAN]
    BY TypeStep DEF IInv, TypeOK
  <2>4. \A i \in Jobs : /\ child'[i] = "none" <=> child[i] = "none"
                        /\ child'[i] \in Live => Working(i)
                        /\ stray'[i] => Working(i)
    BY <2>1, <2>2 DEF Working
  <2>5. \A i \in Jobs : Placed(i) /\ GivenUp(i)
    BY DEF IInv, PlacedInv
  <2>6. ASSUME NEW i \in Jobs PROVE Placed(i)'
    <3>1. UNCHANGED <<state, identity, cleanup, step, cores, gpus>>
      BY <2>1 DEF files, leases
    <3>2. step[i] \in {"free_gpus", "free_cores", "gone"} /\ cleanup[i] = "none" =>
            child'[i] \notin Live /\ stray'[i] = FALSE
      BY <2>6, <2>3, <2>4, <2>5 DEF Placed, Working
    <3>3. child'[i] = "none" => stray'[i] = FALSE
      BY <2>6, <2>3, <2>4, <2>5 DEF Placed, Working, Live
    <3> QED
      BY <2>6, <2>4, <2>5, <3>1, <3>2, <3>3 DEF Placed, HasCores, HasGpus
  <2>7. ASSUME NEW i \in Jobs PROVE GivenUp(i)'
    BY <2>7, <2>1, <2>4, <2>5 DEF GivenUp, files
  <2> QED
    BY <2>6, <2>7 DEF PlacedInv
<1>35. ASSUME NEW c \in Controllers, Signal(c) PROVE PlacedInv'
  BY <1>35 DEF Signal, At, Advance, Return, IInv, TypeOK, PlacedInv, Placed, GivenUp,
     Unequipped, HasCores, HasGpus, Waiting, Tending, Failing, Live, Step,
     files, leases, processes
<1>36. ASSUME NEW c \in Controllers, WritePaused(c) PROVE PlacedInv'
  BY <1>36 DEF WritePaused, At, Write, Return, IInv, TypeOK, PlacedInv,
     IdentityInv, Idle, Pending, Placed, GivenUp, Unequipped, HasCores, HasGpus,
     Waiting, Tending, Failing, Live, Step, files, leases, processes
<1>37. CASE UNCHANGED vars
  BY <1>37 DEF vars, IInv, TypeOK, PlacedInv, Placed, GivenUp, Unequipped, HasCores,
     HasGpus, Waiting, Tending, Failing, Live, Step, files, leases, processes
<1> QED
  BY <1>1, <1>2, <1>3, <1>4, <1>5, <1>6, <1>7, <1>8, <1>9, <1>10, <1>11,
     <1>12, <1>13, <1>14, <1>15, <1>16, <1>17, <1>18, <1>19, <1>20, <1>21,
     <1>22, <1>23, <1>24, <1>25, <1>26, <1>27, <1>28, <1>29, <1>30, <1>31,
     <1>32, <1>33, <1>34, <1>35, <1>36, <1>37, <1>38, <1>39, Zenon DEF Next, Supervise,
     Start, Tend, Close, Control, Finish

(* Identities are recorded after the start and read before a signal.       *)
LEMMA IdentityStep == IInv /\ [Next]_vars => IdentityInv'
<1> SUFFICES ASSUME IInv, [Next]_vars PROVE IdentityInv'
  OBVIOUS
<1>1. ASSUME NEW j \in Jobs, Serve(j) PROVE IdentityInv'
  BY <1>1 DEF Serve, Write, Goto, IInv, TypeOK, IdentityInv, Idle, Pending,
     Live, Exited, files, leases, processes
<1>2. ASSUME NEW j \in Jobs, ReadBeforeStorage(j) PROVE IdentityInv'
  BY <1>2 DEF ReadBeforeStorage, Proceed, Goto, IInv, TypeOK, IdentityInv,
     Idle, Pending, Live, Exited, files, leases, processes
<1>3. ASSUME NEW j \in Jobs, ReserveStorage(j) PROVE IdentityInv'
  BY <1>3 DEF ReserveStorage, Goto, IInv, TypeOK, IdentityInv, Idle, Pending,
     Live, Exited, files, leases, processes
<1>4. ASSUME NEW j \in Jobs, QueueForStorage(j) PROVE IdentityInv'
  BY <1>4 DEF QueueForStorage, QueueAgain, Write, Goto, IInv, TypeOK,
     IdentityInv, Idle, Pending, Live, Exited, files, leases, processes
<1>5. ASSUME NEW j \in Jobs, StageSource(j) PROVE IdentityInv'
  BY <1>5 DEF StageSource, Goto, IInv, TypeOK, IdentityInv, Idle, Pending,
     Live, Exited, files, leases, processes
<1>6. ASSUME NEW j \in Jobs, AcquireCapacity(j) PROVE IdentityInv'
  BY <1>6 DEF AcquireCapacity, FreeCores, Goto, IInv, TypeOK, IdentityInv,
     Idle, Pending, Live, Exited, files, leases, processes
<1>7. ASSUME NEW j \in Jobs, ReadAfterCapacity(j) PROVE IdentityInv'
  BY <1>7 DEF ReadAfterCapacity, Proceed, Goto, IInv, TypeOK, IdentityInv,
     Idle, Pending, Live, Exited, files, leases, processes
<1>8. ASSUME NEW j \in Jobs, QueueForCapacity(j) PROVE IdentityInv'
  BY <1>8 DEF QueueForCapacity, QueueAgain, Write, Goto, IInv, TypeOK,
     IdentityInv, Idle, Pending, Live, Exited, files, leases, processes
<1>9. ASSUME NEW j \in Jobs, ReadBeforeGpus(j) PROVE IdentityInv'
  BY <1>9 DEF ReadBeforeGpus, Proceed, Goto, IInv, TypeOK, IdentityInv, Idle,
     Pending, Live, Exited, files, leases, processes
<1>10. ASSUME NEW j \in Jobs, AcquireGpus(j) PROVE IdentityInv'
  BY <1>10 DEF AcquireGpus, Available, Goto, IInv, TypeOK, IdentityInv, Idle,
     Pending, Live, Exited, files, leases, processes
<1>11. ASSUME NEW j \in Jobs, QueueForGpus(j) PROVE IdentityInv'
  BY <1>11 DEF QueueForGpus, QueueAgain, Write, Goto, IInv, TypeOK,
     IdentityInv, Idle, Pending, Live, Exited, files, leases, processes
<1>12. ASSUME NEW j \in Jobs, CheckCancelled(j) PROVE IdentityInv'
  BY <1>12 DEF CheckCancelled, Proceed, Goto, IInv, TypeOK, IdentityInv, Idle,
     Pending, Live, Exited, files, leases, processes
<1>13. ASSUME NEW j \in Jobs, Spawn(j) PROVE IdentityInv'
  BY <1>13 DEF Spawn, Goto, IInv, TypeOK, IdentityInv, Idle, Pending, Live,
     Exited, files, leases, processes
<1>14. ASSUME NEW j \in Jobs, RecordRunning(j) PROVE IdentityInv'
  BY <1>14 DEF RecordRunning, Write, Goto, IInv, TypeOK, IdentityInv,
     PlacedInv, Placed, GivenUp, Tending, Idle, Pending, Live, Exited, files, leases,
     processes
<1>15. ASSUME NEW j \in Jobs, PollExited(j) PROVE IdentityInv'
  BY <1>15 DEF PollExited, Verdict, Goto, IInv, TypeOK, IdentityInv, Idle,
     Pending, Live, Exited, files, leases, processes
<1>16. ASSUME NEW j \in Jobs, PublishExit(j) PROVE IdentityInv'
  BY <1>16 DEF PublishExit, Write, Goto, IInv, TypeOK, IdentityInv, Idle,
     Pending, Live, Exited, files, leases, processes
<1>17. ASSUME NEW j \in Jobs, ObeyCancel(j) PROVE IdentityInv'
  BY <1>17 DEF ObeyCancel, Kill, IInv, TypeOK, IdentityInv, Idle, Pending,
     Live, Exited, files, leases, processes
<1>18. ASSUME NEW j \in Jobs, MeetDeadline(j) PROVE IdentityInv'
  BY <1>18 DEF MeetDeadline, Goto, IInv, TypeOK, IdentityInv, Idle, Pending,
     Live, Exited, files, leases, processes
<1>19. ASSUME NEW j \in Jobs, WriteTimeout(j) PROVE IdentityInv'
  BY <1>19 DEF WriteTimeout, Write, Goto, IInv, TypeOK, IdentityInv, Idle,
     Pending, Live, Exited, files, leases, processes
<1>20. ASSUME NEW j \in Jobs, KillExpired(j) PROVE IdentityInv'
  BY <1>20 DEF KillExpired, Kill, Goto, IInv, TypeOK, IdentityInv, Idle,
     Pending, Live, Exited, files, leases, processes
<1>21. ASSUME NEW j \in Jobs, ReadInHandler(j) PROVE IdentityInv'
  BY <1>21 DEF ReadInHandler, Goto, IInv, TypeOK, IdentityInv, Idle, Pending,
     Live, Exited, files, leases, processes
<1>22. ASSUME NEW j \in Jobs, WriteFailed(j) PROVE IdentityInv'
  BY <1>22 DEF WriteFailed, Write, Goto, IInv, TypeOK, IdentityInv, Idle,
     Pending, Live, Exited, files, leases, processes
<1>23. ASSUME NEW j \in Jobs, Terminate(j) PROVE IdentityInv'
  BY <1>23 DEF Terminate, Kill, Goto, IInv, TypeOK, IdentityInv, Idle, Pending,
     Live, Exited, files, leases, processes
<1>38. ASSUME NEW j \in Jobs, TerminateFails(j) PROVE IdentityInv'
  BY <1>38 DEF TerminateFails, KillSome, Goto, IInv, TypeOK, IdentityInv, Idle, Pending,
     Live, Exited, files, leases, processes
<1>39. ASSUME NEW j \in Jobs, SkipTerminate(j) PROVE IdentityInv'
  BY <1>39 DEF SkipTerminate, Goto, IInv, TypeOK, IdentityInv, Idle, Pending,
     Live, Exited, files, leases, processes
<1>24. ASSUME NEW j \in Jobs, ReleaseGpus(j) PROVE IdentityInv'
  BY <1>24 DEF ReleaseGpus, Goto, IInv, TypeOK, IdentityInv, Idle, Pending,
     Live, Exited, files, leases, processes
<1>25. ASSUME NEW j \in Jobs, ReleaseCapacity(j) PROVE IdentityInv'
  BY <1>25 DEF ReleaseCapacity, Goto, IInv, TypeOK, IdentityInv, Idle, Pending,
     Live, Exited, files, leases, processes
<1>26. ASSUME NEW j \in Jobs, ChildExits(j) PROVE IdentityInv'
  BY <1>26 DEF ChildExits, IInv, TypeOK, IdentityInv, Idle, Pending, Live,
     Exited, files, leases, processes
<1>27. ASSUME NEW j \in Jobs, StrayExits(j) PROVE IdentityInv'
  BY <1>27 DEF StrayExits, IInv, TypeOK, IdentityInv, Idle, Pending, Live,
     Exited, files, leases, processes
<1>28. ASSUME NEW j \in Jobs, Fail(j) PROVE IdentityInv'
  BY <1>28 DEF Fail, Goto, IInv, TypeOK, IdentityInv, Idle, Pending, Live,
     Exited, files, leases, processes
<1>29. ASSUME NEW j \in Jobs, Crash(j) PROVE IdentityInv'
  BY <1>29 DEF Crash, Goto, IInv, TypeOK, IdentityInv, Idle, Pending, Live,
     Exited, files, leases, processes
<1>30. ASSUME NEW c \in Controllers, NEW j \in Jobs, ReadToCancel(c, j) PROVE IdentityInv'
  BY <1>30 DEF ReadToCancel, Begin, IInv, TypeOK, IdentityInv, Idle, Pending,
     Live, Exited, files, leases, processes
<1>31. ASSUME NEW c \in Controllers, NEW j \in Jobs, ReadToPause(c, j) PROVE IdentityInv'
  BY <1>31 DEF ReadToPause, Begin, IInv, TypeOK, IdentityInv, Idle, Pending,
     Live, Exited, files, leases, processes
<1>32. ASSUME NEW c \in Controllers, NEW j \in Jobs, ReadToResume(c, j) PROVE IdentityInv'
  BY <1>32 DEF ReadToResume, Begin, IInv, TypeOK, IdentityInv, Idle, Pending,
     Live, Exited, files, leases, processes
<1>33. ASSUME NEW c \in Controllers, WriteCancelled(c) PROVE IdentityInv'
  BY <1>33 DEF WriteCancelled, At, Write, Advance, Return, IInv, TypeOK,
     IdentityInv, Idle, Pending, Live, Exited, files, leases, processes
<1>34. ASSUME NEW c \in Controllers, KillCancelled(c) PROVE IdentityInv'
  BY <1>34 DEF KillCancelled, At, Kill, KillSome, Return, IInv, TypeOK, IdentityInv,
     Idle, Pending, Live, Exited, files, leases, processes
<1>35. ASSUME NEW c \in Controllers, Signal(c) PROVE IdentityInv'
  BY <1>35 DEF Signal, At, Advance, Return, IInv, TypeOK, IdentityInv, Idle,
     Pending, Live, Exited, files, leases, processes
<1>36. ASSUME NEW c \in Controllers, WritePaused(c) PROVE IdentityInv'
  BY <1>36 DEF WritePaused, At, Write, Return, IInv, TypeOK, IdentityInv, Idle,
     Pending, Live, Exited, files, leases, processes
<1>37. CASE UNCHANGED vars
  BY <1>37 DEF vars, IInv, TypeOK, IdentityInv, Idle, Pending, Live, Exited,
     files, leases, processes
<1> QED
  BY <1>1, <1>2, <1>3, <1>4, <1>5, <1>6, <1>7, <1>8, <1>9, <1>10, <1>11,
     <1>12, <1>13, <1>14, <1>15, <1>16, <1>17, <1>18, <1>19, <1>20, <1>21,
     <1>22, <1>23, <1>24, <1>25, <1>26, <1>27, <1>28, <1>29, <1>30, <1>31,
     <1>32, <1>33, <1>34, <1>35, <1>36, <1>37, <1>38, <1>39, Zenon DEF Next, Supervise,
     Start, Tend, Close, Control, Finish

(* A terminal state is in the file before the resources are given back.    *)
LEMMA EndStep == IInv /\ [Next]_vars => EndInv'
<1> SUFFICES ASSUME IInv, [Next]_vars PROVE EndInv'
  OBVIOUS
<1>1. ASSUME NEW j \in Jobs, Serve(j) PROVE EndInv'
  BY <1>1 DEF Serve, Write, Goto, IInv, TypeOK, EndInv, Closing, Terminal,
     Waiting, Tending, Failing, Pending, Idle, files, leases, processes
<1>2. ASSUME NEW j \in Jobs, ReadBeforeStorage(j) PROVE EndInv'
  BY <1>2 DEF ReadBeforeStorage, Proceed, Goto, IInv, TypeOK, EndInv, Closing,
     Terminal, Waiting, Tending, Failing, Pending, Idle, files, leases,
     processes
<1>3. ASSUME NEW j \in Jobs, ReserveStorage(j) PROVE EndInv'
  BY <1>3 DEF ReserveStorage, Goto, IInv, TypeOK, EndInv, Closing, Terminal,
     Waiting, Tending, Failing, Pending, Idle, files, leases, processes
<1>4. ASSUME NEW j \in Jobs, QueueForStorage(j) PROVE EndInv'
  BY <1>4 DEF QueueForStorage, QueueAgain, Write, Goto, IInv, TypeOK, EndInv,
     Closing, Terminal, Waiting, Tending, Failing, Pending, Idle, files,
     leases, processes
<1>5. ASSUME NEW j \in Jobs, StageSource(j) PROVE EndInv'
  BY <1>5 DEF StageSource, Goto, IInv, TypeOK, EndInv, Closing, Terminal,
     Waiting, Tending, Failing, Pending, Idle, files, leases, processes
<1>6. ASSUME NEW j \in Jobs, AcquireCapacity(j) PROVE EndInv'
  BY <1>6 DEF AcquireCapacity, FreeCores, Goto, IInv, TypeOK, EndInv, Closing,
     Terminal, Waiting, Tending, Failing, Pending, Idle, files, leases,
     processes
<1>7. ASSUME NEW j \in Jobs, ReadAfterCapacity(j) PROVE EndInv'
  BY <1>7 DEF ReadAfterCapacity, Proceed, Goto, IInv, TypeOK, EndInv, Closing,
     Terminal, Waiting, Tending, Failing, Pending, Idle, files, leases,
     processes
<1>8. ASSUME NEW j \in Jobs, QueueForCapacity(j) PROVE EndInv'
  BY <1>8 DEF QueueForCapacity, QueueAgain, Write, Goto, IInv, TypeOK, EndInv,
     Closing, Terminal, Waiting, Tending, Failing, Pending, Idle, files,
     leases, processes
<1>9. ASSUME NEW j \in Jobs, ReadBeforeGpus(j) PROVE EndInv'
  BY <1>9 DEF ReadBeforeGpus, Proceed, Goto, IInv, TypeOK, EndInv, Closing,
     Terminal, Waiting, Tending, Failing, Pending, Idle, files, leases,
     processes
<1>10. ASSUME NEW j \in Jobs, AcquireGpus(j) PROVE EndInv'
  BY <1>10 DEF AcquireGpus, Available, Goto, IInv, TypeOK, EndInv, Closing,
     Terminal, Waiting, Tending, Failing, Pending, Idle, files, leases,
     processes
<1>11. ASSUME NEW j \in Jobs, QueueForGpus(j) PROVE EndInv'
  BY <1>11 DEF QueueForGpus, QueueAgain, Write, Goto, IInv, TypeOK, EndInv,
     Closing, Terminal, Waiting, Tending, Failing, Pending, Idle, files,
     leases, processes
<1>12. ASSUME NEW j \in Jobs, CheckCancelled(j) PROVE EndInv'
  BY <1>12 DEF CheckCancelled, Proceed, Goto, IInv, TypeOK, EndInv, Closing,
     Terminal, Waiting, Tending, Failing, Pending, Idle, files, leases,
     processes
<1>13. ASSUME NEW j \in Jobs, Spawn(j) PROVE EndInv'
  BY <1>13 DEF Spawn, Goto, IInv, TypeOK, EndInv, Closing, Terminal, Waiting,
     Tending, Failing, Pending, Idle, files, leases, processes
<1>14. ASSUME NEW j \in Jobs, RecordRunning(j) PROVE EndInv'
  BY <1>14 DEF RecordRunning, Write, Goto, IInv, TypeOK, EndInv, Closing,
     Terminal, Waiting, Tending, Failing, Pending, Idle, files, leases,
     processes
<1>15. ASSUME NEW j \in Jobs, PollExited(j) PROVE EndInv'
  BY <1>15 DEF PollExited, Verdict, Goto, IInv, TypeOK, EndInv, Closing,
     Terminal, Waiting, Tending, Failing, Pending, Idle, files, leases,
     processes
<1>16. ASSUME NEW j \in Jobs, PublishExit(j) PROVE EndInv'
  BY <1>16 DEF PublishExit, Write, Goto, IInv, TypeOK, EndInv, Closing,
     Terminal, Waiting, Tending, Failing, Pending, Idle, files, leases,
     processes
<1>17. ASSUME NEW j \in Jobs, ObeyCancel(j) PROVE EndInv'
  BY <1>17 DEF ObeyCancel, Kill, IInv, TypeOK, EndInv, Closing, Terminal,
     Waiting, Tending, Failing, Pending, Idle, files, leases, processes
<1>18. ASSUME NEW j \in Jobs, MeetDeadline(j) PROVE EndInv'
  BY <1>18 DEF MeetDeadline, Goto, IInv, TypeOK, EndInv, Closing, Terminal,
     Waiting, Tending, Failing, Pending, Idle, files, leases, processes
<1>19. ASSUME NEW j \in Jobs, WriteTimeout(j) PROVE EndInv'
  BY <1>19 DEF WriteTimeout, Write, Goto, IInv, TypeOK, EndInv, Closing,
     Terminal, Waiting, Tending, Failing, Pending, Idle, files, leases,
     processes
<1>20. ASSUME NEW j \in Jobs, KillExpired(j) PROVE EndInv'
  BY <1>20 DEF KillExpired, Kill, Goto, IInv, TypeOK, EndInv, Closing,
     Terminal, Waiting, Tending, Failing, Pending, Idle, files, leases,
     processes
<1>21. ASSUME NEW j \in Jobs, ReadInHandler(j) PROVE EndInv'
  BY <1>21 DEF ReadInHandler, Goto, IInv, TypeOK, EndInv, Closing, Terminal,
     Waiting, Tending, Failing, Pending, Idle, files, leases, processes
<1>22. ASSUME NEW j \in Jobs, WriteFailed(j) PROVE EndInv'
  BY <1>22 DEF WriteFailed, Write, Goto, IInv, TypeOK, EndInv, Closing,
     Terminal, Waiting, Tending, Failing, Pending, Idle, files, leases,
     processes
<1>23. ASSUME NEW j \in Jobs, Terminate(j) PROVE EndInv'
  BY <1>23 DEF Terminate, Kill, Goto, IInv, TypeOK, EndInv, Closing, Terminal,
     Waiting, Tending, Failing, Pending, Idle, files, leases, processes
<1>38. ASSUME NEW j \in Jobs, TerminateFails(j) PROVE EndInv'
  BY <1>38 DEF TerminateFails, KillSome, Goto, IInv, TypeOK, EndInv, Closing, Terminal,
     Waiting, Tending, Failing, Pending, Idle, files, leases, processes
<1>39. ASSUME NEW j \in Jobs, SkipTerminate(j) PROVE EndInv'
  BY <1>39 DEF SkipTerminate, Goto, IInv, TypeOK, EndInv, Closing, Terminal,
     Waiting, Tending, Failing, Pending, Idle, files, leases, processes
<1>24. ASSUME NEW j \in Jobs, ReleaseGpus(j) PROVE EndInv'
  BY <1>24 DEF ReleaseGpus, Goto, IInv, TypeOK, EndInv, Closing, Terminal,
     Waiting, Tending, Failing, Pending, Idle, files, leases, processes
<1>25. ASSUME NEW j \in Jobs, ReleaseCapacity(j) PROVE EndInv'
  BY <1>25 DEF ReleaseCapacity, Goto, IInv, TypeOK, EndInv, Closing, Terminal,
     Waiting, Tending, Failing, Pending, Idle, files, leases, processes
<1>26. ASSUME NEW j \in Jobs, ChildExits(j) PROVE EndInv'
  BY <1>26 DEF ChildExits, IInv, TypeOK, EndInv, Closing, Terminal, Waiting,
     Tending, Failing, Pending, Idle, files, leases, processes
<1>27. ASSUME NEW j \in Jobs, StrayExits(j) PROVE EndInv'
  BY <1>27 DEF StrayExits, IInv, TypeOK, EndInv, Closing, Terminal, Waiting,
     Tending, Failing, Pending, Idle, files, leases, processes
<1>28. ASSUME NEW j \in Jobs, Fail(j) PROVE EndInv'
  BY <1>28 DEF Fail, Goto, IInv, TypeOK, EndInv, Closing, Terminal, Waiting,
     Tending, Failing, Pending, Idle, files, leases, processes
<1>29. ASSUME NEW j \in Jobs, Crash(j) PROVE EndInv'
  BY <1>29 DEF Crash, Goto, IInv, TypeOK, EndInv, Closing, Terminal, Waiting,
     Tending, Failing, Pending, Idle, files, leases, processes
<1>30. ASSUME NEW c \in Controllers, NEW j \in Jobs, ReadToCancel(c, j) PROVE EndInv'
  BY <1>30 DEF ReadToCancel, Begin, IInv, TypeOK, EndInv, Closing, Terminal,
     Waiting, Tending, Failing, Pending, Idle, files, leases, processes
<1>31. ASSUME NEW c \in Controllers, NEW j \in Jobs, ReadToPause(c, j) PROVE EndInv'
  BY <1>31 DEF ReadToPause, Begin, IInv, TypeOK, EndInv, Closing, Terminal,
     Waiting, Tending, Failing, Pending, Idle, files, leases, processes
<1>32. ASSUME NEW c \in Controllers, NEW j \in Jobs, ReadToResume(c, j) PROVE EndInv'
  BY <1>32 DEF ReadToResume, Begin, IInv, TypeOK, EndInv, Closing, Terminal,
     Waiting, Tending, Failing, Pending, Idle, files, leases, processes
<1>33. ASSUME NEW c \in Controllers, WriteCancelled(c) PROVE EndInv'
  BY <1>33 DEF WriteCancelled, At, Write, Advance, Return, IInv, TypeOK,
     EndInv, Closing, Terminal, Waiting, Tending, Failing, Pending, Idle,
     files, leases, processes
<1>34. ASSUME NEW c \in Controllers, KillCancelled(c) PROVE EndInv'
  BY <1>34 DEF KillCancelled, At, Kill, KillSome, Return, IInv, TypeOK, EndInv, Closing,
     Terminal, Waiting, Tending, Failing, Pending, Idle, files, leases,
     processes
<1>35. ASSUME NEW c \in Controllers, Signal(c) PROVE EndInv'
  BY <1>35 DEF Signal, At, Advance, Return, IInv, TypeOK, EndInv, Closing,
     Terminal, Waiting, Tending, Failing, Pending, Idle, files, leases,
     processes
<1>36. ASSUME NEW c \in Controllers, WritePaused(c) PROVE EndInv'
  BY <1>36 DEF WritePaused, At, Write, Return, IInv, TypeOK, EndInv, Closing,
     Terminal, Waiting, Tending, Failing, Pending, Idle, files, leases,
     processes
<1>37. CASE UNCHANGED vars
  BY <1>37 DEF vars, IInv, TypeOK, EndInv, Closing, Terminal, Waiting, Tending,
     Failing, Pending, Idle, files, leases, processes
<1> QED
  BY <1>1, <1>2, <1>3, <1>4, <1>5, <1>6, <1>7, <1>8, <1>9, <1>10, <1>11,
     <1>12, <1>13, <1>14, <1>15, <1>16, <1>17, <1>18, <1>19, <1>20, <1>21,
     <1>22, <1>23, <1>24, <1>25, <1>26, <1>27, <1>28, <1>29, <1>30, <1>31,
     <1>32, <1>33, <1>34, <1>35, <1>36, <1>37, <1>38, <1>39, Zenon DEF Next, Supervise,
     Start, Tend, Close, Control, Finish

-----------------------------------------------------------------------------
THEOREM Invariance == Spec => []IInv
<1>1. IInv /\ [Next]_vars => IInv'
  BY TypeStep, ExclusiveStep, PlacedStep, IdentityStep, EndStep DEF IInv
<1> QED
  BY Initially, <1>1, PTL DEF Spec

(* Every write to the files of a Job is one their readers know.            *)
THEOREM TypeCorrect == Spec => []TypeOK
<1>1. IInv => TypeOK
  BY DEF IInv
<1> QED
  BY Invariance, <1>1, PTL

(* Live supervisors share no core, and a GPU only when both asked for it.  *)
THEOREM LeasesExclude == Spec => []LeasesAreExclusive
<1>1. IInv => LeasesAreExclusive
  BY DEF IInv
<1> QED
  BY Invariance, <1>1, PTL

(* Whatever lives under a live supervisor runs on all it requested, or the *)
(* supervisor failed to stop it and state.json says so if it can name it.  *)
THEOREM WorkIsEquipped == Spec => []WorkHoldsLeases
<1>1. IInv => WorkHoldsLeases
  <2> SUFFICES ASSUME IInv, NEW j \in Jobs, Alive(j), Working(j), cleanup[j] = "none"
               PROVE  HasCores(j) /\ HasGpus(j)
    BY DEF WorkHoldsLeases, HasCores, HasGpus, IInv, PlacedInv, GivenUp, TypeOK
  <2>1. Placed(j) /\ step[j] \in Step /\ stray[j] \in BOOLEAN
    BY DEF IInv, PlacedInv, TypeOK
  <2>2. child[j] # "none"
    BY <2>1 DEF Placed, GivenUp, Working, Live
  <2>3. step[j] \in {"spawn"} \union Tending \union Failing \union {"release"}
    BY <2>1, <2>2 DEF Placed, GivenUp, Step, Waiting, Closing, Alive, Working
  <2> QED
    BY <2>1, <2>2, <2>3 DEF Placed
<1> QED
  BY Invariance, <1>1, PTL

(* A supervisor that returned left no lease, and no process in silence     *)
(* unless it could not name it.                                            *)
THEOREM ReturnsClean == Spec => []NothingLeftBehind
<1>1. IInv => NothingLeftBehind
  <2> SUFFICES ASSUME IInv, NEW j \in Jobs, step[j] = "gone"
               PROVE  /\ gpus[j] = {} /\ cores[j] = {}
                      /\ \/ ~Working(j) \/ cleanup[j] = "warning"
                         \/ cleanup[j] = "skipped" /\ ~identity[j]
    BY DEF NothingLeftBehind
  <2>1. Placed(j) /\ GivenUp(j) /\ cleanup[j] \in {"none", "warning", "skipped"}
    BY DEF IInv, PlacedInv, TypeOK
  <2> QED
    BY <2>1 DEF Placed, GivenUp, Working
<1> QED
  BY Invariance, <1>1, PTL

(* Under cancellation alone a returned supervisor left a terminal state.   *)
THEOREM ReturnsTerminal == Spec => []EndsTerminal
<1>1. IInv => EndsTerminal
  BY DEF IInv, EndInv, EndsTerminal
<1> QED
  BY Invariance, <1>1, PTL

-----------------------------------------------------------------------------
(* HostLeases.  A step of one supervisor changes its phase or its work; in *)
(* most of them it only moves on, or its work ends.                        *)
LEMMA Moved ==
  ASSUME step \in [Jobs -> Step], NEW j \in Jobs, NEW s, step' = [step EXCEPT ![j] = s]
  PROVE  Phase' = [Phase EXCEPT ![j] = PhaseOf(s)]
<1> DEFINE P(x) == PhaseOf(x)
<1>1. Phase = [i \in Jobs |-> P(step[i])] /\ Phase' = [i \in Jobs |-> P(step'[i])]
  BY DEF Phase
<1>2. \A i \in Jobs : step'[i] = IF i = j THEN s ELSE step[i]
  OBVIOUS
<1> HIDE DEF P
<1>3. Phase' = [Phase EXCEPT ![j] = P(s)]
  BY <1>1, <1>2
<1> QED
  BY <1>3 DEF P

LEMMA Phases ==
  /\ \A s \in Waiting \union Tending : PhaseOf(s) = "here"
  /\ \A s \in Failing \union Closing : PhaseOf(s) = "leaving"
  /\ PhaseOf("absent") = "absent" /\ PhaseOf("gone") = "gone" /\ PhaseOf("dead") = "dead"
BY DEF PhaseOf, Waiting, Tending, Failing, Closing

(* Who is alive holds what its files say; the others hold nothing.         *)
LEMMA Holding ==
  ASSUME IInv, NEW j \in Jobs, UNCHANGED leases,
         \A i \in Jobs \ {j} : step'[i] = step[i],
         step[j] = "absent" \/ Alive(j) = Alive(j)'
  PROVE  Held(cores)' = Held(cores) /\ Held(gpus)' = Held(gpus)
<1>1. cores' = cores /\ gpus' = gpus
  BY DEF leases
<1>2. step[j] = "absent" => cores[j] = {} /\ gpus[j] = {}
  BY DEF IInv, PlacedInv, Placed, GivenUp, Unequipped
<1>3. \A i \in Jobs : Alive(i)' = Alive(i) \/ (cores[i] = {} /\ gpus[i] = {})
  BY <1>2 DEF Alive
<1> QED
  BY <1>1, <1>3 DEF Held

(* Moving on: to the next step of the same phase, into the host, or out.   *)
LEMMA Shift ==
  ASSUME IInv, NEW j \in Jobs, NEW s, step' = [step EXCEPT ![j] = s],
         UNCHANGED <<cleanup, processes, leases>>,
         \/ step[j] = "absent" /\ s \in Waiting
         \/ step[j] \in Waiting \union Tending
            /\ s \in Waiting \union Tending \union Failing \union Closing
         \/ step[j] \in Failing \union Closing /\ s \in Failing \union Closing
  PROVE  [Promise!Next]_Promise!vars
<1>1. Phase' = [Phase EXCEPT ![j] = PhaseOf(s)] /\ Phase[j] = PhaseOf(step[j])
  BY Moved DEF IInv, TypeOK, Phase
<1>2. Work' = Work
  BY DEF Work, Working, processes
<1>3. Held(cores)' = Held(cores) /\ Held(gpus)' = Held(gpus)
  <2>1. step[j] = "absent" \/ Alive(j) = Alive(j)'
    BY DEF Alive, IInv, TypeOK, Waiting, Tending, Failing, Closing
  <2> QED
    BY <2>1, Holding DEF IInv, TypeOK
<1>4. CASE step[j] = "absent" /\ s \in Waiting
  <2>1. Phase[j] = "absent" /\ PhaseOf(s) = "here"
    BY <1>1, <1>4, Phases
  <2>2. Promise!Arrive(j)
    BY <1>1, <1>2, <1>3, <2>1 DEF Promise!Arrive
  <2> QED
    BY <2>2 DEF Promise!Next
<1>5. CASE Phase[j] = PhaseOf(s)
  <2>1. Phase' = Phase
    BY <1>1, <1>5 DEF Phase
  <2> QED
    BY <1>2, <1>3, <2>1 DEF Promise!vars
<1>6. CASE step[j] \in Waiting \union Tending /\ s \in Failing \union Closing
  <2>1. Phase[j] = "here" /\ PhaseOf(s) = "leaving"
    BY <1>1, <1>6, Phases
  <2>2. Promise!Leave(j)
    BY <1>1, <1>2, <1>3, <2>1 DEF Promise!Leave
  <2> QED
    BY <2>2 DEF Promise!Next
<1> QED
  BY <1>1, <1>4, <1>5, <1>6, Phases

(* The processes of one Job change, at most to their end.                  *)
LEMMA Handled ==
  ASSUME IInv, TypeOK', NEW j \in Jobs, UNCHANGED <<cleanup, leases>>, Phase' = Phase,
         \A i \in Jobs : Alive(i)' = Alive(i),
         \A i \in Jobs \ {j} : child'[i] = child[i] /\ stray'[i] = stray[i],
         child'[j] = "none" <=> child[j] = "none",
         Working(j)' => Working(j)
  PROVE  [Promise!Next]_Promise!vars
<1>1. Held(cores)' = Held(cores) /\ Held(gpus)' = Held(gpus)
  BY DEF Held, leases
<1>2. \A i \in Jobs \ {j} : Work'[i] = Work[i]
  BY DEF Work, Working
<1>3. Work'[j] = Work[j] \/ (Work[j] \in {"some", "left"} /\ Work'[j] = "over")
  BY DEF Work, Working
<1>4. CASE Work'[j] = Work[j]
  <2>1. Work' = Work
    BY <1>2, <1>4 DEF Work
  <2> QED
    BY <1>1, <2>1 DEF Promise!vars
<1>5. CASE Work[j] \in {"some", "left"} /\ Work'[j] = "over"
  <2>1. Work' = [Work EXCEPT ![j] = "over"]
    BY <1>2, <1>5 DEF Work
  <2>2. Promise!EndWork(j)
    BY <1>1, <1>5, <2>1 DEF Promise!EndWork
  <2> QED
    BY <2>2 DEF Promise!Next
<1> QED
  BY <1>3, <1>4, <1>5

(* What only moves a supervisor on.                                        *)
LEMMA ShiftSteps ==
  ASSUME IInv, NEW j \in Jobs,
         \/ Serve(j) \/ ReadBeforeStorage(j) \/ ReserveStorage(j) \/ QueueForStorage(j)
         \/ StageSource(j) \/ ReadAfterCapacity(j) \/ QueueForCapacity(j)
         \/ ReadBeforeGpus(j) \/ QueueForGpus(j) \/ CheckCancelled(j)
         \/ RecordRunning(j) \/ PollExited(j) \/ PublishExit(j) \/ MeetDeadline(j)
         \/ WriteTimeout(j) \/ ReadInHandler(j) \/ WriteFailed(j) \/ Fail(j)
  PROVE  [Promise!Next]_Promise!vars
<1>1. CASE Serve(j)
  BY <1>1, Shift DEF Serve, Write, Goto, files, processes, leases, Waiting, Tending,
       Failing, Closing
<1>2. CASE ReadBeforeStorage(j)
  BY <1>2, Shift DEF ReadBeforeStorage, Proceed, Goto, files, processes, leases,
       Waiting, Tending, Failing, Closing
<1>3. CASE ReserveStorage(j)
  BY <1>3, Shift DEF ReserveStorage, Goto, files, processes, leases, Waiting,
       Tending, Failing, Closing
<1>4. CASE QueueForStorage(j)
  BY <1>4, Shift DEF QueueForStorage, QueueAgain, Write, Goto, files, processes,
       leases, Waiting, Tending, Failing, Closing
<1>5. CASE StageSource(j)
  BY <1>5, Shift DEF StageSource, Goto, files, processes, leases, Waiting, Tending,
       Failing, Closing
<1>6. CASE ReadAfterCapacity(j)
  BY <1>6, Shift DEF ReadAfterCapacity, Proceed, Goto, files, processes, leases,
       Waiting, Tending, Failing, Closing
<1>7. CASE QueueForCapacity(j)
  BY <1>7, Shift DEF QueueForCapacity, QueueAgain, Write, Goto, files, processes,
       leases, Waiting, Tending, Failing, Closing
<1>8. CASE ReadBeforeGpus(j)
  BY <1>8, Shift DEF ReadBeforeGpus, Proceed, Goto, files, processes, leases,
       Waiting, Tending, Failing, Closing
<1>9. CASE QueueForGpus(j)
  BY <1>9, Shift DEF QueueForGpus, QueueAgain, Write, Goto, files, processes,
       leases, Waiting, Tending, Failing, Closing
<1>10. CASE CheckCancelled(j)
  BY <1>10, Shift DEF CheckCancelled, Proceed, Goto, files, processes, leases,
       Waiting, Tending, Failing, Closing
<1>11. CASE RecordRunning(j)
  BY <1>11, Shift DEF RecordRunning, Write, Goto, files, processes, leases, Waiting,
       Tending, Failing, Closing
<1>12. CASE PollExited(j)
  BY <1>12, Shift DEF PollExited, Goto, files, processes, leases, Waiting, Tending,
       Failing, Closing
<1>13. CASE PublishExit(j)
  BY <1>13, Shift DEF PublishExit, Write, Goto, files, processes, leases, Waiting,
       Tending, Failing, Closing
<1>14. CASE MeetDeadline(j)
  BY <1>14, Shift DEF MeetDeadline, Goto, files, processes, leases, Waiting,
       Tending, Failing, Closing
<1>15. CASE WriteTimeout(j)
  BY <1>15, Shift DEF WriteTimeout, Write, Goto, files, processes, leases, Waiting,
       Tending, Failing, Closing
<1>16. CASE ReadInHandler(j)
  BY <1>16, Shift DEF ReadInHandler, Goto, files, processes, leases, Waiting,
       Tending, Failing, Closing
<1>17. CASE WriteFailed(j)
  BY <1>17, Shift DEF WriteFailed, Write, Goto, files, processes, leases, Waiting,
       Tending, Failing, Closing
<1>18. CASE Fail(j)
  BY <1>18, Shift DEF Fail, Goto, files, processes, leases, Waiting, Tending,
       Failing, Closing
<1> QED
  BY <1>1, <1>2, <1>3, <1>4, <1>5, <1>6, <1>7, <1>8, <1>9, <1>10, <1>11,
       <1>12, <1>13, <1>14, <1>15, <1>16, <1>17, <1>18

(* What ends processes: the child itself, its supervisor or a control      *)
(* process.                                                                *)
LEMMA EndSteps ==
  ASSUME IInv, TypeOK', NEW j \in Jobs,
         \/ ObeyCancel(j) \/ KillExpired(j) \/ Terminate(j) \/ ChildExits(j) \/ StrayExits(j)
         \/ \E c \in Controllers : (KillCancelled(c) \/ Signal(c)) /\ control[c].job = j
  PROVE  [Promise!Next]_Promise!vars
<1> USE DEF IInv, TypeOK
<1>1. CASE ObeyCancel(j)
  <2>1. UNCHANGED <<cleanup, step, leases>> /\ child[j] \in Live /\ Kill(j)
    BY <1>1 DEF ObeyCancel, files
  <2>2. Phase' = Phase /\ \A i \in Jobs : Alive(i)' = Alive(i)
    BY <2>1 DEF Phase, Alive
  <2> QED
    BY <2>1, <2>2, Signalled, Handled
<1>2. CASE KillExpired(j)
  <2>1. step[j] = "expire" /\ step' = [step EXCEPT ![j] = "monitor"] /\ Kill(j) /\ UNCHANGED <<cleanup, leases>>
    BY <1>2 DEF KillExpired, Goto, files
  <2>2. Phase' = Phase
    BY <2>1, Moved, Phases DEF Phase, Tending
  <2>3. \A i \in Jobs : Alive(i)' = Alive(i)
    BY <2>1 DEF Alive
  <2> QED
    BY <2>1, <2>2, <2>3, Signalled, Handled
<1>3. CASE Terminate(j)
  <2>1. /\ step[j] = "release" /\ step' = [step EXCEPT ![j] = "free_gpus"]
        /\ Kill(j) \/ UNCHANGED processes
        /\ UNCHANGED <<cleanup, leases>>
    BY <1>3 DEF Terminate, Goto, files
  <2>2. Phase' = Phase
    BY <2>1, Moved, Phases DEF Phase, Closing
  <2>3. \A i \in Jobs : Alive(i)' = Alive(i)
    BY <2>1 DEF Alive
  <2>4. CASE Kill(j)
    BY <2>1, <2>2, <2>3, <2>4, Signalled, Handled
  <2>5. CASE UNCHANGED processes
    BY <2>1, <2>2, <2>3, <2>5, Handled DEF Working, processes
  <2> QED
    BY <2>1, <2>4, <2>5
<1>4. CASE ChildExits(j)
  <2>1. Phase' = Phase /\ \A i \in Jobs : Alive(i)' = Alive(i)
    BY <1>4 DEF ChildExits, Phase, Alive
  <2>2. /\ UNCHANGED <<cleanup, leases>> /\ child[j] \in Live /\ child'[j] \in Exited
        /\ \A i \in Jobs \ {j} : child'[i] = child[i] /\ stray'[i] = stray[i]
    BY <1>4 DEF ChildExits, files
  <2> QED
    BY <2>1, <2>2, Handled DEF Working, Live, Exited
<1>5. CASE StrayExits(j)
  <2>1. Phase' = Phase /\ \A i \in Jobs : Alive(i)' = Alive(i)
    BY <1>5 DEF StrayExits, Phase, Alive
  <2>2. /\ UNCHANGED <<cleanup, leases, child>> /\ stray[j] /\ stray'[j] = FALSE
        /\ \A i \in Jobs \ {j} : stray'[i] = stray[i]
    BY <1>5 DEF StrayExits, files
  <2> QED
    BY <2>1, <2>2, Handled DEF Working
<1>6. ASSUME NEW c \in Controllers, KillCancelled(c), control[c].job = j
      PROVE  [Promise!Next]_Promise!vars
  <2>1. Phase' = Phase /\ \A i \in Jobs : Alive(i)' = Alive(i)
    BY <1>6 DEF KillCancelled, Phase, Alive
  <2>2. (Kill(j) \/ KillSome(j)) /\ UNCHANGED <<cleanup, leases>>
    BY <1>6 DEF KillCancelled, files
  <2> QED
    BY <2>1, <2>2, Signalled, Handled
<1>7. ASSUME NEW c \in Controllers, Signal(c), control[c].job = j
      PROVE  [Promise!Next]_Promise!vars
  <2>1. Phase' = Phase /\ \A i \in Jobs : Alive(i)' = Alive(i)
    BY <1>7 DEF Signal, Phase, Alive
  <2>2. child'[j] = child[j] \/ (child[j] \in Live /\ child'[j] \in Live)
    BY <1>7 DEF Signal, Live
  <2>3. UNCHANGED <<cleanup, leases, stray>> /\ \A i \in Jobs \ {j} : child'[i] = child[i]
    BY <1>7 DEF Signal, files
  <2> QED
    BY <2>1, <2>2, <2>3, Handled DEF Working, Live
<1> QED
  BY <1>1, <1>2, <1>3, <1>4, <1>5, <1>6, <1>7

(* What could not be stopped is left to itself.                            *)
LEMMA GiveUpSteps ==
  ASSUME IInv, TypeOK', NEW j \in Jobs, TerminateFails(j) \/ SkipTerminate(j)
  PROVE  [Promise!Next]_Promise!vars
<1> USE DEF IInv, TypeOK
<1>1. /\ step[j] = "release" /\ step' = [step EXCEPT ![j] = "free_gpus"]
      /\ j \in Faulty /\ child[j] # "none" /\ UNCHANGED leases
      /\ cleanup'[j] # "none"
      /\ \A i \in Jobs \ {j} : cleanup'[i] = cleanup[i] /\ child'[i] = child[i] /\ stray'[i] = stray[i]
  BY DEF TerminateFails, SkipTerminate, Goto, KillSome, processes
<1>2. child'[j] # "none" /\ (Working(j)' => Working(j))
  BY <1>1 DEF TerminateFails, SkipTerminate, KillSome, Working, Live, Exited, processes
<1>3. Phase' = Phase /\ Phase[j] = "leaving"
  BY <1>1, Moved, Phases DEF Phase, Closing
<1>4. \A i \in Jobs : Alive(i)' = Alive(i)
  BY <1>1 DEF Alive
<1>5. Held(cores)' = Held(cores) /\ Held(gpus)' = Held(gpus)
  BY <1>1, <1>4 DEF Held, leases
<1>6. cleanup[j] = "none"
  BY <1>1 DEF PlacedInv, GivenUp
<1>7. \A i \in Jobs \ {j} : Work'[i] = Work[i]
  BY <1>1 DEF Work, Working
<1>8. CASE Working(j)'
  <2>1. Work[j] = "some" /\ Work'[j] = "left"
    BY <1>1, <1>2, <1>6, <1>8 DEF Work
  <2>2. Work' = [Work EXCEPT ![j] = "left"]
    BY <1>7, <2>1 DEF Work
  <2>3. Promise!GiveUp(j)
    BY <1>1, <1>3, <1>5, <2>1, <2>2 DEF Promise!GiveUp
  <2> QED
    BY <2>3 DEF Promise!Next
<1>9. CASE Working(j) /\ ~Working(j)'
  <2>1. Work[j] = "some" /\ Work'[j] = "over"
    BY <1>1, <1>2, <1>6, <1>9 DEF Work
  <2>2. Work' = [Work EXCEPT ![j] = "over"]
    BY <1>7, <2>1 DEF Work
  <2>3. Promise!EndWork(j)
    BY <1>3, <1>5, <2>1, <2>2 DEF Promise!EndWork
  <2> QED
    BY <2>3 DEF Promise!Next
<1>10. CASE ~Working(j) /\ ~Working(j)'
  <2>1. Work'[j] = Work[j]
    BY <1>1, <1>2, <1>10 DEF Work
  <2>2. Work' = Work
    BY <1>7, <2>1 DEF Work
  <2> QED
    BY <1>3, <1>5, <2>2 DEF Promise!vars
<1> QED
  BY <1>2, <1>8, <1>9, <1>10

(* Grants: what nobody alive excludes the Job from.                        *)
LEMMA GrantSteps ==
  ASSUME IInv, NEW j \in Jobs, AcquireCapacity(j) \/ AcquireGpus(j)
  PROVE  [Promise!Next]_Promise!vars
<1> USE DEF IInv, TypeOK
<1>1. Phase[j] = "here" /\ Alive(j) /\ Work[j] = "none"
  BY Phases DEF Phase, AcquireCapacity, AcquireGpus, Waiting, Alive, Work, PlacedInv, Placed, GivenUp
<1>2. /\ UNCHANGED <<cleanup, processes>>
      /\ step' = [step EXCEPT ![j] = IF AcquireCapacity(j) THEN "gpus" ELSE "check"]
  BY DEF AcquireCapacity, AcquireGpus, Goto, files
<1>3. Phase' = Phase
  BY <1>1, <1>2, Moved, Phases DEF Phase, Waiting
<1>4. Work' = Work
  BY <1>2 DEF Work, Working, processes
<1>5. \A i \in Jobs : Alive(i)' = Alive(i)
  BY <1>1, <1>2 DEF Alive
<1>6. CASE AcquireCapacity(j)
  <2>1. PICK S \in SUBSET FreeCores :
          Cardinality(S) = CoreCount[j] /\ cores' = [cores EXCEPT ![j] = S]
    BY <1>6 DEF AcquireCapacity
  <2>2. gpus' = gpus /\ S \in SUBSET Cores
    BY <1>6, <2>1 DEF AcquireCapacity, FreeCores
  <2>3. cores[j] = {} /\ gpus[j] = {}
    BY <1>6 DEF AcquireCapacity, PlacedInv, Placed, GivenUp, Unequipped
  <2>4. Held(gpus)' = Held(gpus) /\ Held(cores)' = [Held(cores) EXCEPT ![j] = S]
    BY <1>1, <1>5, <2>1, <2>2 DEF Held
  <2>5. Held(cores)[j] = {} /\ Held(gpus)[j] = {}
    BY <2>3 DEF Held
  <2>6. \A k \in Jobs : S \intersect Held(cores)[k] = {}
    BY DEF Held, FreeCores
  <2>7. Promise!TakeCores(j)
    BY <1>1, <1>3, <1>4, <2>1, <2>2, <2>4, <2>5, <2>6 DEF Promise!TakeCores, CoreGrants
  <2> QED
    BY <2>7 DEF Promise!Next
<1>7. CASE AcquireGpus(j)
  <2>1. PICK S \in SUBSET Available(j) :
          Cardinality(S) = GpuCount[j] /\ gpus' = [gpus EXCEPT ![j] = S]
    BY <1>7 DEF AcquireGpus
  <2>2. cores' = cores /\ S \in SUBSET Gpus
    BY <1>7, <2>1 DEF AcquireGpus, Available
  <2>3. HasCores(j) /\ gpus[j] = {}
    BY <1>7 DEF AcquireGpus, PlacedInv, Placed, GivenUp, Unequipped
  <2>4. Held(cores)' = Held(cores) /\ Held(gpus)' = [Held(gpus) EXCEPT ![j] = S]
    BY <1>1, <1>5, <2>1, <2>2 DEF Held
  <2>5. Held(cores)[j] \in CoreGrants[j] /\ Held(gpus)[j] = {}
    BY <1>1, <2>3 DEF Held, HasCores, CoreGrants
  <2>6. \A k \in Jobs : Promise!Excludes(j, k) => S \intersect Held(gpus)[k] = {}
    BY DEF Held, Available, Blocks, Promise!Excludes
  <2>7. Promise!TakeGpus(j)
    BY <1>1, <1>3, <1>4, <2>1, <2>2, <2>4, <2>5, <2>6 DEF Promise!TakeGpus, GpuGrants
  <2> QED
    BY <2>7 DEF Promise!Next
<1> QED
  BY <1>6, <1>7

(* The start, the returns and a death.                                     *)
LEMMA TurnSteps ==
  ASSUME IInv, NEW j \in Jobs,
         Spawn(j) \/ ReleaseGpus(j) \/ ReleaseCapacity(j) \/ Crash(j)
  PROVE  [Promise!Next]_Promise!vars
<1> USE DEF IInv, TypeOK
<1>1. CASE Spawn(j)
  <2>1. /\ step[j] = "spawn" /\ step' = [step EXCEPT ![j] = "record"]
        /\ child' = [child EXCEPT ![j] = "running"] /\ UNCHANGED <<cleanup, stray, leases>>
    BY <1>1 DEF Spawn, Goto, files
  <2>2. /\ HasCores(j) /\ HasGpus(j) /\ child[j] = "none" /\ cleanup[j] = "none"
        /\ Alive(j) = Alive(j)'
    BY <2>1 DEF PlacedInv, Placed, GivenUp, Waiting, Alive
  <2>3. Phase' = Phase /\ Phase[j] = "here"
    BY <2>1, Moved, Phases DEF Phase, Waiting, Tending
  <2>4. Held(cores)' = Held(cores) /\ Held(gpus)' = Held(gpus)
    BY <2>1, <2>2, Holding
  <2>5. Held(cores)[j] \in CoreGrants[j] /\ Held(gpus)[j] \in GpuGrants[j]
    BY <2>1, <2>2 DEF Held, Alive, HasCores, HasGpus, CoreGrants, GpuGrants
  <2>6. Work[j] = "none" /\ Work' = [Work EXCEPT ![j] = "some"]
    BY <2>1, <2>2 DEF Work, Working, Live
  <2>7. Promise!StartWork(j)
    BY <2>3, <2>4, <2>5, <2>6 DEF Promise!StartWork
  <2> QED
    BY <2>7 DEF Promise!Next
<1>2. CASE ReleaseGpus(j)
  <2>1. /\ step[j] = "free_gpus" /\ step' = [step EXCEPT ![j] = "free_cores"]
        /\ gpus' = [gpus EXCEPT ![j] = {}] /\ UNCHANGED <<cleanup, processes, cores>>
    BY <1>2 DEF ReleaseGpus, Goto, files
  <2>2. Work' = Work /\ Work[j] # "some"
    BY <2>1 DEF PlacedInv, Placed, GivenUp, Work, Working, processes
  <2>3. Phase' = Phase /\ Phase[j] = "leaving"
    BY <2>1, Moved, Phases DEF Phase, Closing
  <2>4. \A i \in Jobs : Alive(i)' = Alive(i)
    BY <2>1 DEF Alive
  <2>5. Held(cores)' = Held(cores) /\ Held(gpus)' = [Held(gpus) EXCEPT ![j] = {}]
    BY <2>1, <2>4 DEF Held
  <2>6. Promise!ReturnGpus(j)
    BY <2>2, <2>3, <2>5 DEF Promise!ReturnGpus
  <2> QED
    BY <2>6 DEF Promise!Next
<1>3. CASE ReleaseCapacity(j)
  <2>1. /\ step[j] = "free_cores" /\ step' = [step EXCEPT ![j] = "gone"]
        /\ cores' = [cores EXCEPT ![j] = {}] /\ UNCHANGED <<cleanup, processes, gpus>>
    BY <1>3 DEF ReleaseCapacity, Goto, files
  <2>2. Work' = Work /\ Work[j] # "some" /\ gpus[j] = {}
    BY <2>1 DEF PlacedInv, Placed, GivenUp, Work, Working, processes
  <2>3. Phase' = [Phase EXCEPT ![j] = "gone"] /\ Phase[j] = "leaving"
    BY <2>1, Moved, Phases DEF Phase, Closing
  <2>4. \A i \in Jobs \ {j} : Alive(i)' = Alive(i)
    BY <2>1 DEF Alive
  <2>5. ~Alive(j)'
    BY <2>1 DEF Alive
  <2>6. Held(cores)' = [Held(cores) EXCEPT ![j] = {}]
    BY <2>1, <2>4, <2>5 DEF Held
  <2>7. Held(gpus)' = Held(gpus) /\ Held(gpus)[j] = {}
    BY <2>1, <2>2, <2>4, <2>5 DEF Held
  <2>8. Promise!ReturnCores(j)
    BY <2>2, <2>3, <2>6, <2>7 DEF Promise!ReturnCores
  <2> QED
    BY <2>8 DEF Promise!Next
<1>4. CASE Crash(j)
  <2>1. /\ Alive(j) /\ step' = [step EXCEPT ![j] = "dead"]
        /\ UNCHANGED <<cleanup, processes, leases>>
    BY <1>4 DEF Crash, Goto, files
  <2>2. Work' = Work
    BY <2>1 DEF Work, Working, processes
  <2>3. Phase' = [Phase EXCEPT ![j] = "dead"]
    BY <2>1, Moved, Phases
  <2>4. step[j] \in Waiting \union Tending \union Failing \union Closing
    BY <2>1 DEF Alive, Step
  <2>5. Phase[j] \in {"here", "leaving"}
    BY <2>4, Phases DEF Phase
  <2>6. ~Alive(j)' /\ \A i \in Jobs \ {j} : Alive(i)' = Alive(i)
    BY <2>1 DEF Alive
  <2>7. /\ Held(cores)' = [Held(cores) EXCEPT ![j] = {}]
        /\ Held(gpus)' = [Held(gpus) EXCEPT ![j] = {}]
    BY <2>1, <2>6 DEF Held, leases
  <2>8. Promise!Die(j)
    BY <2>2, <2>3, <2>5, <2>7 DEF Promise!Die
  <2> QED
    BY <2>8 DEF Promise!Next
<1> QED
  BY <1>1, <1>2, <1>3, <1>4

(* The supervisors of a host keep what HostLeases promises.                *)
THEOREM HostKeepsPromise == Spec => ImplementsHostLeases
<1>1. Init => Promise!Init
  <2> SUFFICES ASSUME Init PROVE Promise!Init
    OBVIOUS
  <2>1. Phase = [j \in Jobs |-> "absent"]
    BY Phases DEF Init, Phase
  <2>2. Work = [j \in Jobs |-> "none"]
    BY DEF Init, Work
  <2>3. Held(cores) = [j \in Jobs |-> {}] /\ Held(gpus) = [j \in Jobs |-> {}]
    BY DEF Init, Held
  <2> QED
    BY <2>1, <2>2, <2>3 DEF Promise!Init
<1>2. IInv /\ TypeOK' /\ [Next]_vars => [Promise!Next]_Promise!vars
  <2> SUFFICES ASSUME IInv, TypeOK', [Next]_vars PROVE [Promise!Next]_Promise!vars
    OBVIOUS
  <2>1. ASSUME NEW j \in Jobs, Supervise(j) \/ ChildExits(j) \/ StrayExits(j) \/ Fail(j) \/ Crash(j)
        PROVE  [Promise!Next]_Promise!vars
    BY <2>1, ShiftSteps, EndSteps, GiveUpSteps, GrantSteps, TurnSteps, Zenon
       DEF Supervise, Start, Tend, Close
  <2>2. ASSUME UNCHANGED <<cleanup, step, processes, leases>> PROVE [Promise!Next]_Promise!vars
    <3>1. Phase' = Phase /\ Work' = Work
      BY <2>2 DEF Phase, Work, Working, processes
    <3>2. Held(cores)' = Held(cores) /\ Held(gpus)' = Held(gpus)
      BY <2>2 DEF Held, Alive, leases
    <3> QED
      BY <3>1, <3>2 DEF Promise!vars
  <2>3. ASSUME NEW c \in Controllers, Control(c) PROVE [Promise!Next]_Promise!vars
    <3>1. CASE KillCancelled(c) \/ Signal(c)
      <4>1. control[c].job \in Jobs
        BY <3>1 DEF KillCancelled, Signal, At, Idle, Pending, IInv, TypeOK
      <4> QED
        BY <3>1, <4>1, EndSteps
    <3>2. CASE ~(KillCancelled(c) \/ Signal(c))
      <4>1. UNCHANGED <<cleanup, step, processes, leases>>
        BY <2>3, <3>2 DEF Control, Finish, ReadToCancel, ReadToPause, ReadToResume, Begin,
           WriteCancelled, WritePaused, files
      <4> QED
        BY <2>2, <4>1
    <3> QED
      BY <3>1, <3>2
  <2>4. CASE UNCHANGED vars
    BY <2>2, <2>4 DEF vars, files
  <2> QED
    BY <2>1, <2>3, <2>4 DEF Next
<1> QED
  BY <1>1, <1>2, Invariance, TypeCorrect, PTL DEF Spec, Promise!Spec, ImplementsHostLeases

-----------------------------------------------------------------------------
(* Who is in line for cores may wait for whoever holds cores, and who is   *)
(* in line for GPUs for whoever holds GPUs.                                *)
AwaitsCores(j) == step[j] \in {"capacity", "capacity_queue"}
AwaitsGpus(j) == step[j] \in {"gpus", "gpus_try"}
WaitsFor(j, k) ==
  /\ Alive(k)
  /\ (AwaitsCores(j) /\ cores[k] # {}) \/ (AwaitsGpus(j) /\ gpus[k] # {})

\* How far a supervisor has come with its leases.
Rank(j) == IF AwaitsCores(j) THEN 0 ELSE IF AwaitsGpus(j) THEN 1 ELSE 2

(* Every wait is for somebody further on: no circle of supervisors waits.  *)
WaitsGoUp == \A j, k \in Jobs : WaitsFor(j, k) => Rank(j) < Rank(k)

(* Supervisors cannot wait for each other in a circle, whatever was        *)
(* cancelled or killed: cores are taken before GPUs, and who is refused    *)
(* holds nothing it could keep from those it waits for (serve,             *)
(* _acquire_capacity, _acquire_gpus).                                      *)
THEOREM WaitsInOrder == Spec => []WaitsGoUp
<1>1. IInv => WaitsGoUp
  <2> SUFFICES ASSUME IInv, NEW j \in Jobs, NEW k \in Jobs, WaitsFor(j, k)
               PROVE  Rank(j) < Rank(k)
    BY DEF WaitsGoUp
  <2>1. Placed(k)
    BY DEF IInv, PlacedInv
  <2>2. CASE AwaitsCores(j) /\ cores[k] # {}
    <3>1. ~ AwaitsCores(k)
      BY <2>1, <2>2 DEF Placed, GivenUp, Unequipped, AwaitsCores
    <3> QED
      BY <2>2, <3>1 DEF Rank
  <2>3. CASE AwaitsGpus(j) /\ gpus[k] # {}
    <3>1. ~ AwaitsCores(k) /\ ~ AwaitsGpus(k)
      BY <2>1, <2>3 DEF Placed, GivenUp, Unequipped, AwaitsCores, AwaitsGpus
    <3>2. Rank(k) = 2 /\ Rank(j) \in {0, 1}
      BY <2>3, <3>1 DEF Rank, AwaitsGpus, AwaitsCores
    <3> QED
      BY <3>2
  <2> QED
    BY <2>2, <2>3 DEF WaitsFor
<1> QED
  BY Invariance, <1>1, PTL

-----------------------------------------------------------------------------
(* A host all of whose live supervisors are in line for cores or GPUs, and *)
(* a request that could be granted at once.                                *)
Standstill ==
  /\ \E j \in Jobs : Alive(j)
  /\ \A k \in Jobs : Alive(k) => AwaitsCores(k) \/ AwaitsGpus(k)
Grantable(j) ==
  \/ AwaitsCores(j) /\ \E S \in CoreGrants[j] : S \subseteq FreeCores
  \/ AwaitsGpus(j) /\ \E S \in GpuGrants[j] : S \subseteq Available(j)
SomebodyIsServed == Standstill => \E j \in Jobs : Grantable(j)

(* A finite set has a subset of every smaller size.                        *)
LEMMA SubsetOfSize ==
  ASSUME NEW S, IsFiniteSet(S), NEW k \in 0..Cardinality(S)
  PROVE  \E T \in SUBSET S : Cardinality(T) = k
<1> DEFINE n == Cardinality(S)
<1>1. n \in Nat /\ ExistsBijection(1..n, S)
  BY FS_CardinalityType
<1>2. PICK f \in Bijection(1..n, S) : TRUE
  BY <1>1 DEF ExistsBijection
<1>3. k \in Nat /\ 1..k \subseteq 1..n
  BY <1>1
<1> DEFINE T == {f[i] : i \in 1..k}
           g == [i \in 1..k |-> f[i]]
<1> HIDE DEF n
<1>4. f \in [1..n -> S] /\ \A a, b \in 1..n : f[a] = f[b] => a = b
  BY <1>2 DEF Bijection, Injection, IsInjective
<1>5. g \in Bijection(1..k, T)
  <2>1. g \in [1..k -> T]
    OBVIOUS
  <2>2. \A a, b \in 1..k : g[a] = g[b] => a = b
    BY <1>3, <1>4
  <2>3. \A t \in T : \E i \in 1..k : g[i] = t
    OBVIOUS
  <2> QED
    BY <2>1, <2>2, <2>3 DEF Bijection, Injection, Surjection, IsInjective
<1>6. IsFiniteSet(1..k) /\ Cardinality(1..k) = k
  BY <1>3, FS_Interval
<1>7. ExistsBijection(1..k, T)
  BY <1>5 DEF ExistsBijection
<1>8. Cardinality(T) = k
  <2> HIDE DEF T
  <2> QED
    BY <1>6, <1>7, FS_Bijection
<1>9. T \in SUBSET S
  BY <1>3, <1>4
<1> QED
  BY <1>8, <1>9

(* No deadlock over resources: when all live supervisors wait, one of them *)
(* finds enough cores or GPUs that nobody leases, whatever the dead left   *)
(* in their files; the driver may still refuse a device that the child of  *)
(* a dead one uses (_acquire_capacity, _acquire_gpus, _release_gpus).      *)
THEOREM StandstillEnds == Spec => []SomebodyIsServed
<1>1. IInv => SomebodyIsServed
  <2> SUFFICES ASSUME IInv, Standstill PROVE \E j \in Jobs : Grantable(j)
    BY DEF SomebodyIsServed
  <2>1. \A k \in Jobs : Placed(k)
    BY DEF IInv, PlacedInv
  <2>2. \A k \in Jobs : Alive(k) => gpus[k] = {}
    BY <2>1 DEF Standstill, Placed, GivenUp, Unequipped, AwaitsCores, AwaitsGpus
  <2>3. CASE \E j \in Jobs : AwaitsGpus(j)
    <3>1. PICK j \in Jobs : AwaitsGpus(j)
      BY <2>3
    <3>2. Available(j) = Gpus
      BY <2>2 DEF Available, Blocks
    <3>3. IsFiniteSet(Gpus) /\ GpuCount[j] \in 0..Cardinality(Gpus)
      BY ConstantsAssumption
    <3>4. \E S \in SUBSET Gpus : Cardinality(S) = GpuCount[j]
      BY <3>3, SubsetOfSize
    <3> QED
      BY <3>1, <3>2, <3>4 DEF Grantable, GpuGrants
  <2>4. CASE \A j \in Jobs : ~ AwaitsGpus(j)
    <3>1. PICK j \in Jobs : AwaitsCores(j)
      BY <2>4 DEF Standstill
    <3>2. \A k \in Jobs : Alive(k) => cores[k] = {}
      BY <2>1, <2>4 DEF Standstill, Placed, GivenUp, Unequipped, AwaitsCores
    <3>3. FreeCores = Cores
      BY <3>2 DEF FreeCores
    <3>4. IsFiniteSet(Cores) /\ CoreCount[j] \in 0..Cardinality(Cores)
      BY ConstantsAssumption
    <3>5. \E S \in SUBSET Cores : Cardinality(S) = CoreCount[j]
      BY <3>4, SubsetOfSize
    <3> QED
      BY <3>1, <3>3, <3>5 DEF Grantable, CoreGrants
  <2> QED
    BY <2>3, <2>4
<1> QED
  BY Invariance, <1>1, PTL
=============================================================================
