------------------------ MODULE MemberAllocationProofs ------------------------
(***************************************************************************)
(* Proofs about MemberAllocation for every set of waves, every capacity    *)
(* and every number of restarts.                                           *)
(***************************************************************************)
EXTENDS MemberAllocation, TLAPS

Past == {"hold", "open", "work", "free", "clear"}

\* A driver submits at most once, and only behind its own intent.
Submissions ==
  /\ submitted <= 1
  /\ starting => submitted = 0
  /\ receipt = "none" => submitted = 0 /\ ~starting

\* Nothing happened before member.json was written, and only its writer works.
OwnedWork ==
  /\ main \in Loop => owner = "running"
  /\ owner = "none" => \A v \in Waves : worker[v] = "none"

\* A process that has not failed leaves no interrupted wave behind it.
OneOpen ==
  /\ main \in Loop \ {"work", "fail"} => \A v \in Waves : worker[v] # "running"
  /\ main = "work" => /\ worker[wave] = "running"
                      /\ \A v \in Waves : worker[v] = "running" => v = wave

\* The inbox is what was taken, and its waves share no Run.
Inbox ==
  /\ \A v \in Waves : v \in inbox <=> answer[v] = "taken"
  /\ \A v, u \in inbox : v # u => RunsOf(v) \intersect RunsOf(u) = {}
  /\ todo \subseteq inbox
  /\ main \in Past => wave \in inbox

\* A lease that started belongs to an accepted wave that was opened.
StartedIsOpen ==
  \A k \in Leases : life[k] # "idle" => WaveOf[k] \in inbox /\ worker[WaveOf[k]] # "none"

\* A stop is only prepared for a Run that has started.
Stops ==
  /\ StopAfterStart
  /\ pruning # None /\ pruning.live => life[pruning.lease] # "idle"

IInv == TypeOK /\ Submissions /\ OwnedWork /\ OneOpen /\ Inbox /\ StartedIsOpen /\ Stops

-------------------------------------------------------------------------------

LEMMA TypeStep == TypeOK /\ Inbox /\ [Next]_vars => TypeOK'
<1> SUFFICES ASSUME TypeOK, Inbox, [Next]_vars PROVE TypeOK'
  OBVIOUS
<1> USE MemberAssumption DEF grant, wire, process, beat, work, calls, TypeOK, Loop, Offers, Closed
<1>1. ASSUME Reserve PROVE TypeOK'
  BY <1>1 DEF Reserve
<1>2. ASSUME Prepare PROVE TypeOK'
  BY <1>2 DEF Prepare
<1>3. ASSUME SubmitJob PROVE TypeOK'
  <2>1. starting' \in BOOLEAN
    BY <1>3 DEF SubmitJob, Inbox, Past
  <2>2. submitted' \in 0..2
    BY <1>3 DEF SubmitJob, Inbox, Past
  <2>3. job' \in {"absent", "queued", "running", "ended"}
    BY <1>3 DEF SubmitJob, Inbox, Past
  <2>4. QED
    BY <1>3, <2>1, <2>2, <2>3 DEF SubmitJob
<1>4. ASSUME DriverDies PROVE TypeOK'
  <2>1. starting' \in BOOLEAN
    BY <1>4 DEF DriverDies, Inbox, Past
  <2>2. QED
    BY <1>4, <2>1 DEF DriverDies
<1>5. ASSUME NEW w \in Waves, Send(w) PROVE TypeOK'
  BY <1>5 DEF Send
<1>6. ASSUME NEW w \in Waves, Enqueue(w) PROVE TypeOK'
  BY <1>6 DEF Enqueue
<1>7. ASSUME Shutdown PROVE TypeOK'
  BY <1>7 DEF Shutdown
<1>8. ASSUME ProviderStarts PROVE TypeOK'
  BY <1>8 DEF ProviderStarts
<1>9. ASSUME ProviderEnds PROVE TypeOK'
  BY <1>9 DEF ProviderEnds
<1>10. ASSUME ProviderRestarts PROVE TypeOK'
  BY <1>10 DEF ProviderRestarts
<1>11. ASSUME Kill PROVE TypeOK'
  BY <1>11 DEF Kill
<1>12. ASSUME WaveFails PROVE TypeOK'
  BY <1>12 DEF WaveFails
<1>13. ASSUME BeginOwner PROVE TypeOK'
  <2>1. busy' \in BOOLEAN
    BY <1>13 DEF BeginOwner, Inbox, Past
  <2>2. owner' \in {"none", "running", "completed"}
    BY <1>13 DEF BeginOwner, Inbox, Past
  <2>3. main' \in Loop \union {"off", "begin", "gone"}
    BY <1>13 DEF BeginOwner, Inbox, Past
  <2>4. QED
    BY <1>13, <2>1, <2>2, <2>3 DEF BeginOwner
<1>14. ASSUME Scan PROVE TypeOK'
  BY <1>14 DEF Scan
<1>15. ASSUME NEW w \in Waves, Take(w) PROVE TypeOK'
  BY <1>15 DEF Take
<1>16. ASSUME Hold PROVE TypeOK'
  <2>1. wave \in Waves
    BY <1>16 DEF Hold, Inbox, Past
  <2>2. main' \in Loop
    BY <1>16 DEF Hold, Inbox, Past
  <2>3. QED
    BY <1>16, <2>1, <2>2 DEF Hold
<1>17. ASSUME OpenWave PROVE TypeOK'
  <2>1. wave \in Waves
    BY <1>17 DEF OpenWave, Inbox, Past
  <2>2. main' \in Loop
    BY <1>17 DEF OpenWave, Inbox, Past
  <2>3. QED
    BY <1>17, <2>1, <2>2 DEF OpenWave
<1>18. ASSUME CloseWave PROVE TypeOK'
  <2>1. wave \in Waves
    BY <1>18 DEF CloseWave, Inbox, Past
  <2>2. main' \in Loop
    BY <1>18 DEF CloseWave, Inbox, Past
  <2>3. QED
    BY <1>18, <2>1, <2>2 DEF CloseWave
<1>19. ASSUME Free PROVE TypeOK'
  <2>1. wave \in Waves
    BY <1>19 DEF Free, Inbox, Past
  <2>2. main' \in Loop
    BY <1>19 DEF Free, Inbox, Past
  <2>3. QED
    BY <1>19, <2>1, <2>2 DEF Free
<1>20. ASSUME Clear PROVE TypeOK'
  <2>1. busy' \in BOOLEAN
    BY <1>20 DEF Clear, Inbox, Past
  <2>2. main' \in Loop
    BY <1>20 DEF Clear, Inbox, Past
  <2>3. QED
    BY <1>20, <2>1, <2>2 DEF Clear
<1>21. ASSUME Check PROVE TypeOK'
  BY <1>21 DEF Check
<1>22. ASSUME Finish PROVE TypeOK'
  BY <1>22 DEF Finish
<1>23. ASSUME NEW l \in Leases, StartRun(l) PROVE TypeOK'
  BY <1>23 DEF StartRun
<1>24. ASSUME NEW l \in Leases, EndRun(l) PROVE TypeOK'
  BY <1>24 DEF EndRun
<1>25. ASSUME NEW l \in Leases, StoreResult(l) PROVE TypeOK'
  BY <1>25 DEF StoreResult
<1>26. ASSUME NEW n \in 0..Capacity, Probe(n) PROVE TypeOK'
  <2>1. pulse' \in Pulses
    BY <1>26 DEF Probe, Pulses
  <2>2. QED
    BY <1>26, <2>1 DEF Probe
<1>27. ASSUME Publish PROVE TypeOK'
  <2>1. offer' \in Offers
    BY <1>27 DEF Publish, Pulses, Offers
  <2>2. QED
    BY <1>27, <2>1 DEF Publish
<1>35. ASSUME ReadHeld PROVE TypeOK'
  <2>1. pulse' \in Pulses
    BY <1>35 DEF ReadHeld, Pulses
  <2>2. QED
    BY <1>35, <2>1 DEF ReadHeld
<1>28. ASSUME NEW w \in Waves, ReadWave(w) PROVE TypeOK'
  <2>1. seen' \in [wave : Waves, results : SUBSET Leases]
    BY <1>28 DEF ReadWave, Results, LeasesOf
  <2>2. QED
    BY <1>28, <2>1 DEF ReadWave
<1>29. ASSUME AnswerWave PROVE TypeOK'
  BY <1>29 DEF AnswerWave
<1>30. ASSUME NEW l \in Leases, ReadWorker(l) PROVE TypeOK'
  BY <1>30 DEF ReadWorker
<1>31. ASSUME LookAtRun PROVE TypeOK'
  <2>1. pruning' \in [lease : Leases, terminal : BOOLEAN, live : BOOLEAN] \union {None}
    BY <1>31 DEF LookAtRun, Inbox, Past
  <2>2. QED
    BY <1>31, <2>1 DEF LookAtRun
<1>32. ASSUME WriteStop PROVE TypeOK'
  BY <1>32 DEF WriteStop
<1>33. CASE UNCHANGED vars
  BY <1>33 DEF vars
<1>34. QED
  BY <1>1, <1>2, <1>3, <1>4, <1>5, <1>6, <1>7, <1>8, <1>9, <1>10, <1>11, <1>12, <1>13, <1>14, <1>15, <1>16, <1>17, <1>18, <1>19, <1>20, <1>21, <1>22, <1>23, <1>24, <1>25, <1>26, <1>27, <1>35, <1>28, <1>29, <1>30, <1>31, <1>32, <1>33 DEF Next, MainStep

LEMMA SubmissionsStep == Submissions /\ TypeOK /\ [Next]_vars => Submissions'
<1> SUFFICES ASSUME Submissions, TypeOK, [Next]_vars PROVE Submissions'
  OBVIOUS
<1> USE MemberAssumption DEF grant, wire, process, beat, work, calls, Submissions, TypeOK
<1>1. ASSUME Reserve PROVE Submissions'
  BY <1>1 DEF Reserve
<1>2. ASSUME Prepare PROVE Submissions'
  BY <1>2 DEF Prepare
<1>3. ASSUME SubmitJob PROVE Submissions'
  BY <1>3 DEF SubmitJob
<1>4. ASSUME DriverDies PROVE Submissions'
  BY <1>4 DEF DriverDies
<1>5. ASSUME NEW w \in Waves, Send(w) PROVE Submissions'
  BY <1>5 DEF Send
<1>6. ASSUME NEW w \in Waves, Enqueue(w) PROVE Submissions'
  BY <1>6 DEF Enqueue
<1>7. ASSUME Shutdown PROVE Submissions'
  BY <1>7 DEF Shutdown
<1>8. ASSUME ProviderStarts PROVE Submissions'
  BY <1>8 DEF ProviderStarts
<1>9. ASSUME ProviderEnds PROVE Submissions'
  BY <1>9 DEF ProviderEnds
<1>10. ASSUME ProviderRestarts PROVE Submissions'
  BY <1>10 DEF ProviderRestarts
<1>11. ASSUME Kill PROVE Submissions'
  BY <1>11 DEF Kill
<1>12. ASSUME WaveFails PROVE Submissions'
  BY <1>12 DEF WaveFails
<1>13. ASSUME BeginOwner PROVE Submissions'
  BY <1>13 DEF BeginOwner
<1>14. ASSUME Scan PROVE Submissions'
  BY <1>14 DEF Scan
<1>15. ASSUME NEW w \in Waves, Take(w) PROVE Submissions'
  BY <1>15 DEF Take
<1>16. ASSUME Hold PROVE Submissions'
  BY <1>16 DEF Hold
<1>17. ASSUME OpenWave PROVE Submissions'
  BY <1>17 DEF OpenWave
<1>18. ASSUME CloseWave PROVE Submissions'
  BY <1>18 DEF CloseWave
<1>19. ASSUME Free PROVE Submissions'
  BY <1>19 DEF Free
<1>20. ASSUME Clear PROVE Submissions'
  BY <1>20 DEF Clear
<1>21. ASSUME Check PROVE Submissions'
  BY <1>21 DEF Check
<1>22. ASSUME Finish PROVE Submissions'
  BY <1>22 DEF Finish
<1>23. ASSUME NEW l \in Leases, StartRun(l) PROVE Submissions'
  BY <1>23 DEF StartRun
<1>24. ASSUME NEW l \in Leases, EndRun(l) PROVE Submissions'
  BY <1>24 DEF EndRun
<1>25. ASSUME NEW l \in Leases, StoreResult(l) PROVE Submissions'
  BY <1>25 DEF StoreResult
<1>26. ASSUME NEW n \in 0..Capacity, Probe(n) PROVE Submissions'
  BY <1>26 DEF Probe
<1>27. ASSUME Publish PROVE Submissions'
  BY <1>27 DEF Publish
<1>35. ASSUME ReadHeld PROVE Submissions'
  BY <1>35 DEF ReadHeld
<1>28. ASSUME NEW w \in Waves, ReadWave(w) PROVE Submissions'
  BY <1>28 DEF ReadWave
<1>29. ASSUME AnswerWave PROVE Submissions'
  BY <1>29 DEF AnswerWave
<1>30. ASSUME NEW l \in Leases, ReadWorker(l) PROVE Submissions'
  BY <1>30 DEF ReadWorker
<1>31. ASSUME LookAtRun PROVE Submissions'
  BY <1>31 DEF LookAtRun
<1>32. ASSUME WriteStop PROVE Submissions'
  BY <1>32 DEF WriteStop
<1>33. CASE UNCHANGED vars
  BY <1>33 DEF vars
<1>34. QED
  BY <1>1, <1>2, <1>3, <1>4, <1>5, <1>6, <1>7, <1>8, <1>9, <1>10, <1>11, <1>12, <1>13, <1>14, <1>15, <1>16, <1>17, <1>18, <1>19, <1>20, <1>21, <1>22, <1>23, <1>24, <1>25, <1>26, <1>27, <1>35, <1>28, <1>29, <1>30, <1>31, <1>32, <1>33 DEF Next, MainStep

LEMMA OwnedStep == OwnedWork /\ TypeOK /\ OneOpen /\ [Next]_vars => OwnedWork'
<1> SUFFICES ASSUME OwnedWork, TypeOK, OneOpen, [Next]_vars PROVE OwnedWork'
  OBVIOUS
<1> USE MemberAssumption DEF grant, wire, process, beat, work, calls, OwnedWork, OneOpen, TypeOK, Loop
<1>1. ASSUME Reserve PROVE OwnedWork'
  BY <1>1 DEF Reserve
<1>2. ASSUME Prepare PROVE OwnedWork'
  BY <1>2 DEF Prepare
<1>3. ASSUME SubmitJob PROVE OwnedWork'
  BY <1>3 DEF SubmitJob
<1>4. ASSUME DriverDies PROVE OwnedWork'
  BY <1>4 DEF DriverDies
<1>5. ASSUME NEW w \in Waves, Send(w) PROVE OwnedWork'
  BY <1>5 DEF Send
<1>6. ASSUME NEW w \in Waves, Enqueue(w) PROVE OwnedWork'
  BY <1>6 DEF Enqueue
<1>7. ASSUME Shutdown PROVE OwnedWork'
  BY <1>7 DEF Shutdown
<1>8. ASSUME ProviderStarts PROVE OwnedWork'
  BY <1>8 DEF ProviderStarts
<1>9. ASSUME ProviderEnds PROVE OwnedWork'
  BY <1>9 DEF ProviderEnds
<1>10. ASSUME ProviderRestarts PROVE OwnedWork'
  BY <1>10 DEF ProviderRestarts
<1>11. ASSUME Kill PROVE OwnedWork'
  BY <1>11 DEF Kill
<1>12. ASSUME WaveFails PROVE OwnedWork'
  BY <1>12 DEF WaveFails
<1>13. ASSUME BeginOwner PROVE OwnedWork'
  BY <1>13 DEF BeginOwner
<1>14. ASSUME Scan PROVE OwnedWork'
  BY <1>14 DEF Scan
<1>15. ASSUME NEW w \in Waves, Take(w) PROVE OwnedWork'
  BY <1>15 DEF Take
<1>16. ASSUME Hold PROVE OwnedWork'
  BY <1>16 DEF Hold
<1>17. ASSUME OpenWave PROVE OwnedWork'
  BY <1>17 DEF OpenWave
<1>18. ASSUME CloseWave PROVE OwnedWork'
  BY <1>18 DEF CloseWave
<1>19. ASSUME Free PROVE OwnedWork'
  BY <1>19 DEF Free
<1>20. ASSUME Clear PROVE OwnedWork'
  BY <1>20 DEF Clear
<1>21. ASSUME Check PROVE OwnedWork'
  BY <1>21 DEF Check
<1>22. ASSUME Finish PROVE OwnedWork'
  BY <1>22 DEF Finish
<1>23. ASSUME NEW l \in Leases, StartRun(l) PROVE OwnedWork'
  BY <1>23 DEF StartRun
<1>24. ASSUME NEW l \in Leases, EndRun(l) PROVE OwnedWork'
  BY <1>24 DEF EndRun
<1>25. ASSUME NEW l \in Leases, StoreResult(l) PROVE OwnedWork'
  BY <1>25 DEF StoreResult
<1>26. ASSUME NEW n \in 0..Capacity, Probe(n) PROVE OwnedWork'
  BY <1>26 DEF Probe
<1>27. ASSUME Publish PROVE OwnedWork'
  BY <1>27 DEF Publish
<1>35. ASSUME ReadHeld PROVE OwnedWork'
  BY <1>35 DEF ReadHeld
<1>28. ASSUME NEW w \in Waves, ReadWave(w) PROVE OwnedWork'
  BY <1>28 DEF ReadWave
<1>29. ASSUME AnswerWave PROVE OwnedWork'
  BY <1>29 DEF AnswerWave
<1>30. ASSUME NEW l \in Leases, ReadWorker(l) PROVE OwnedWork'
  BY <1>30 DEF ReadWorker
<1>31. ASSUME LookAtRun PROVE OwnedWork'
  BY <1>31 DEF LookAtRun
<1>32. ASSUME WriteStop PROVE OwnedWork'
  BY <1>32 DEF WriteStop
<1>33. CASE UNCHANGED vars
  BY <1>33 DEF vars
<1>34. QED
  BY <1>1, <1>2, <1>3, <1>4, <1>5, <1>6, <1>7, <1>8, <1>9, <1>10, <1>11, <1>12, <1>13, <1>14, <1>15, <1>16, <1>17, <1>18, <1>19, <1>20, <1>21, <1>22, <1>23, <1>24, <1>25, <1>26, <1>27, <1>35, <1>28, <1>29, <1>30, <1>31, <1>32, <1>33 DEF Next, MainStep

LEMMA OpenStep == OneOpen /\ TypeOK /\ OwnedWork /\ Inbox /\ [Next]_vars => OneOpen'
<1> SUFFICES ASSUME OneOpen, TypeOK, OwnedWork, Inbox, [Next]_vars PROVE OneOpen'
  OBVIOUS
<1> USE MemberAssumption DEF grant, wire, process, beat, work, calls, OneOpen, OwnedWork, TypeOK, Loop
<1>1. ASSUME Reserve PROVE OneOpen'
  BY <1>1 DEF Reserve
<1>2. ASSUME Prepare PROVE OneOpen'
  BY <1>2 DEF Prepare
<1>3. ASSUME SubmitJob PROVE OneOpen'
  BY <1>3 DEF SubmitJob
<1>4. ASSUME DriverDies PROVE OneOpen'
  BY <1>4 DEF DriverDies
<1>5. ASSUME NEW w \in Waves, Send(w) PROVE OneOpen'
  BY <1>5 DEF Send
<1>6. ASSUME NEW w \in Waves, Enqueue(w) PROVE OneOpen'
  BY <1>6 DEF Enqueue
<1>7. ASSUME Shutdown PROVE OneOpen'
  BY <1>7 DEF Shutdown
<1>8. ASSUME ProviderStarts PROVE OneOpen'
  BY <1>8 DEF ProviderStarts
<1>9. ASSUME ProviderEnds PROVE OneOpen'
  BY <1>9 DEF ProviderEnds
<1>10. ASSUME ProviderRestarts PROVE OneOpen'
  BY <1>10 DEF ProviderRestarts
<1>11. ASSUME Kill PROVE OneOpen'
  BY <1>11 DEF Kill
<1>12. ASSUME WaveFails PROVE OneOpen'
  BY <1>12 DEF WaveFails
<1>13. ASSUME BeginOwner PROVE OneOpen'
  BY <1>13 DEF BeginOwner
<1>14. ASSUME Scan PROVE OneOpen'
  BY <1>14 DEF Scan
<1>15. ASSUME NEW w \in Waves, Take(w) PROVE OneOpen'
  BY <1>15 DEF Take
<1>16. ASSUME Hold PROVE OneOpen'
  BY <1>16 DEF Hold
<1>17. ASSUME OpenWave PROVE OneOpen'
  <2>1. wave \in Waves /\ wave' = wave
    BY <1>17 DEF OpenWave, Inbox, Past, TypeOK
  <2>2. CASE worker[wave] = "none"
    BY <1>17, <2>1, <2>2 DEF OpenWave, OneOpen, TypeOK, Loop
  <2>3. CASE worker[wave] # "none"
    BY <1>17, <2>1, <2>3 DEF OpenWave, OneOpen, TypeOK, Loop
  <2>4. QED
    BY <2>2, <2>3
<1>18. ASSUME CloseWave PROVE OneOpen'
  BY <1>18 DEF CloseWave
<1>19. ASSUME Free PROVE OneOpen'
  BY <1>19 DEF Free
<1>20. ASSUME Clear PROVE OneOpen'
  BY <1>20 DEF Clear
<1>21. ASSUME Check PROVE OneOpen'
  BY <1>21 DEF Check
<1>22. ASSUME Finish PROVE OneOpen'
  BY <1>22 DEF Finish
<1>23. ASSUME NEW l \in Leases, StartRun(l) PROVE OneOpen'
  BY <1>23 DEF StartRun
<1>24. ASSUME NEW l \in Leases, EndRun(l) PROVE OneOpen'
  BY <1>24 DEF EndRun
<1>25. ASSUME NEW l \in Leases, StoreResult(l) PROVE OneOpen'
  BY <1>25 DEF StoreResult
<1>26. ASSUME NEW n \in 0..Capacity, Probe(n) PROVE OneOpen'
  BY <1>26 DEF Probe
<1>27. ASSUME Publish PROVE OneOpen'
  BY <1>27 DEF Publish
<1>35. ASSUME ReadHeld PROVE OneOpen'
  BY <1>35 DEF ReadHeld
<1>28. ASSUME NEW w \in Waves, ReadWave(w) PROVE OneOpen'
  BY <1>28 DEF ReadWave
<1>29. ASSUME AnswerWave PROVE OneOpen'
  BY <1>29 DEF AnswerWave
<1>30. ASSUME NEW l \in Leases, ReadWorker(l) PROVE OneOpen'
  BY <1>30 DEF ReadWorker
<1>31. ASSUME LookAtRun PROVE OneOpen'
  BY <1>31 DEF LookAtRun
<1>32. ASSUME WriteStop PROVE OneOpen'
  BY <1>32 DEF WriteStop
<1>33. CASE UNCHANGED vars
  BY <1>33 DEF vars
<1>34. QED
  BY <1>1, <1>2, <1>3, <1>4, <1>5, <1>6, <1>7, <1>8, <1>9, <1>10, <1>11, <1>12, <1>13, <1>14, <1>15, <1>16, <1>17, <1>18, <1>19, <1>20, <1>21, <1>22, <1>23, <1>24, <1>25, <1>26, <1>27, <1>35, <1>28, <1>29, <1>30, <1>31, <1>32, <1>33 DEF Next, MainStep

LEMMA InboxStep == Inbox /\ TypeOK /\ [Next]_vars => Inbox'
<1> SUFFICES ASSUME Inbox, TypeOK, [Next]_vars PROVE Inbox'
  OBVIOUS
<1> USE MemberAssumption DEF grant, wire, process, beat, work, calls, Inbox, TypeOK, Past
<1>1. ASSUME Reserve PROVE Inbox'
  BY <1>1 DEF Reserve
<1>2. ASSUME Prepare PROVE Inbox'
  BY <1>2 DEF Prepare
<1>3. ASSUME SubmitJob PROVE Inbox'
  BY <1>3 DEF SubmitJob
<1>4. ASSUME DriverDies PROVE Inbox'
  BY <1>4 DEF DriverDies
<1>5. ASSUME NEW w \in Waves, Send(w) PROVE Inbox'
  BY <1>5 DEF Send
<1>6. ASSUME NEW w \in Waves, Enqueue(w) PROVE Inbox'
  <2>1. CASE Acceptable(w)
    <3>1. inbox' = inbox \union {w} /\ answer' = [answer EXCEPT ![w] = "taken"]
      BY <1>6, <2>1 DEF Enqueue
    <3>2. \A v \in Waves : v \in inbox' <=> answer'[v] = "taken"
      BY <3>1 DEF Inbox, TypeOK
    <3>3. ASSUME NEW v \in inbox', NEW u \in inbox', v # u PROVE RunsOf(v) \intersect RunsOf(u) = {}
      BY <2>1, <3>1, <3>3 DEF Inbox, Acceptable
    <3>4. todo' = todo /\ wave' = wave /\ main' = main
      BY <1>6 DEF Enqueue, process
    <3>5. QED
      BY <3>1, <3>2, <3>3, <3>4 DEF Inbox, RunsOf, LeasesOf
  <2>2. CASE ~Acceptable(w)
    <3>1. inbox' = inbox /\ answer' = [answer EXCEPT ![w] = "refused"] /\ answer[w] = "sent"
      BY <1>6, <2>2 DEF Enqueue
    <3>2. \A v \in Waves : v \in inbox' <=> answer'[v] = "taken"
      BY <3>1 DEF Inbox, TypeOK
    <3>3. QED
      BY <1>6, <3>1, <3>2 DEF Enqueue, process, Inbox, RunsOf, LeasesOf
  <2>3. QED
    BY <2>1, <2>2
<1>7. ASSUME Shutdown PROVE Inbox'
  BY <1>7 DEF Shutdown
<1>8. ASSUME ProviderStarts PROVE Inbox'
  BY <1>8 DEF ProviderStarts
<1>9. ASSUME ProviderEnds PROVE Inbox'
  BY <1>9 DEF ProviderEnds
<1>10. ASSUME ProviderRestarts PROVE Inbox'
  BY <1>10 DEF ProviderRestarts
<1>11. ASSUME Kill PROVE Inbox'
  BY <1>11 DEF Kill
<1>12. ASSUME WaveFails PROVE Inbox'
  BY <1>12 DEF WaveFails
<1>13. ASSUME BeginOwner PROVE Inbox'
  BY <1>13 DEF BeginOwner
<1>14. ASSUME Scan PROVE Inbox'
  BY <1>14 DEF Scan
<1>15. ASSUME NEW w \in Waves, Take(w) PROVE Inbox'
  BY <1>15 DEF Take
<1>16. ASSUME Hold PROVE Inbox'
  BY <1>16 DEF Hold
<1>17. ASSUME OpenWave PROVE Inbox'
  BY <1>17 DEF OpenWave
<1>18. ASSUME CloseWave PROVE Inbox'
  BY <1>18 DEF CloseWave
<1>19. ASSUME Free PROVE Inbox'
  BY <1>19 DEF Free
<1>20. ASSUME Clear PROVE Inbox'
  BY <1>20 DEF Clear
<1>21. ASSUME Check PROVE Inbox'
  BY <1>21 DEF Check
<1>22. ASSUME Finish PROVE Inbox'
  BY <1>22 DEF Finish
<1>23. ASSUME NEW l \in Leases, StartRun(l) PROVE Inbox'
  BY <1>23 DEF StartRun
<1>24. ASSUME NEW l \in Leases, EndRun(l) PROVE Inbox'
  BY <1>24 DEF EndRun
<1>25. ASSUME NEW l \in Leases, StoreResult(l) PROVE Inbox'
  BY <1>25 DEF StoreResult
<1>26. ASSUME NEW n \in 0..Capacity, Probe(n) PROVE Inbox'
  BY <1>26 DEF Probe
<1>27. ASSUME Publish PROVE Inbox'
  BY <1>27 DEF Publish
<1>35. ASSUME ReadHeld PROVE Inbox'
  BY <1>35 DEF ReadHeld
<1>28. ASSUME NEW w \in Waves, ReadWave(w) PROVE Inbox'
  BY <1>28 DEF ReadWave
<1>29. ASSUME AnswerWave PROVE Inbox'
  BY <1>29 DEF AnswerWave
<1>30. ASSUME NEW l \in Leases, ReadWorker(l) PROVE Inbox'
  BY <1>30 DEF ReadWorker
<1>31. ASSUME LookAtRun PROVE Inbox'
  BY <1>31 DEF LookAtRun
<1>32. ASSUME WriteStop PROVE Inbox'
  BY <1>32 DEF WriteStop
<1>33. CASE UNCHANGED vars
  BY <1>33 DEF vars
<1>34. QED
  BY <1>1, <1>2, <1>3, <1>4, <1>5, <1>6, <1>7, <1>8, <1>9, <1>10, <1>11, <1>12, <1>13, <1>14, <1>15, <1>16, <1>17, <1>18, <1>19, <1>20, <1>21, <1>22, <1>23, <1>24, <1>25, <1>26, <1>27, <1>35, <1>28, <1>29, <1>30, <1>31, <1>32, <1>33 DEF Next, MainStep

LEMMA StartedStep == StartedIsOpen /\ TypeOK /\ Inbox /\ OneOpen /\ [Next]_vars => StartedIsOpen'
<1> SUFFICES ASSUME StartedIsOpen, TypeOK, Inbox, OneOpen, [Next]_vars PROVE StartedIsOpen'
  OBVIOUS
<1> USE MemberAssumption DEF grant, wire, process, beat, work, calls, StartedIsOpen, Inbox, OneOpen, TypeOK, Past
<1>1. ASSUME Reserve PROVE StartedIsOpen'
  BY <1>1 DEF Reserve
<1>2. ASSUME Prepare PROVE StartedIsOpen'
  BY <1>2 DEF Prepare
<1>3. ASSUME SubmitJob PROVE StartedIsOpen'
  BY <1>3 DEF SubmitJob
<1>4. ASSUME DriverDies PROVE StartedIsOpen'
  BY <1>4 DEF DriverDies
<1>5. ASSUME NEW w \in Waves, Send(w) PROVE StartedIsOpen'
  BY <1>5 DEF Send
<1>6. ASSUME NEW w \in Waves, Enqueue(w) PROVE StartedIsOpen'
  BY <1>6 DEF Enqueue
<1>7. ASSUME Shutdown PROVE StartedIsOpen'
  BY <1>7 DEF Shutdown
<1>8. ASSUME ProviderStarts PROVE StartedIsOpen'
  BY <1>8 DEF ProviderStarts
<1>9. ASSUME ProviderEnds PROVE StartedIsOpen'
  BY <1>9 DEF ProviderEnds
<1>10. ASSUME ProviderRestarts PROVE StartedIsOpen'
  BY <1>10 DEF ProviderRestarts
<1>11. ASSUME Kill PROVE StartedIsOpen'
  BY <1>11 DEF Kill
<1>12. ASSUME WaveFails PROVE StartedIsOpen'
  BY <1>12 DEF WaveFails
<1>13. ASSUME BeginOwner PROVE StartedIsOpen'
  BY <1>13 DEF BeginOwner
<1>14. ASSUME Scan PROVE StartedIsOpen'
  BY <1>14 DEF Scan
<1>15. ASSUME NEW w \in Waves, Take(w) PROVE StartedIsOpen'
  BY <1>15 DEF Take
<1>16. ASSUME Hold PROVE StartedIsOpen'
  BY <1>16 DEF Hold
<1>17. ASSUME OpenWave PROVE StartedIsOpen'
  BY <1>17 DEF OpenWave
<1>18. ASSUME CloseWave PROVE StartedIsOpen'
  BY <1>18 DEF CloseWave
<1>19. ASSUME Free PROVE StartedIsOpen'
  BY <1>19 DEF Free
<1>20. ASSUME Clear PROVE StartedIsOpen'
  BY <1>20 DEF Clear
<1>21. ASSUME Check PROVE StartedIsOpen'
  BY <1>21 DEF Check
<1>22. ASSUME Finish PROVE StartedIsOpen'
  BY <1>22 DEF Finish
<1>23. ASSUME NEW l \in Leases, StartRun(l) PROVE StartedIsOpen'
  BY <1>23 DEF StartRun
<1>24. ASSUME NEW l \in Leases, EndRun(l) PROVE StartedIsOpen'
  BY <1>24 DEF EndRun
<1>25. ASSUME NEW l \in Leases, StoreResult(l) PROVE StartedIsOpen'
  BY <1>25 DEF StoreResult
<1>26. ASSUME NEW n \in 0..Capacity, Probe(n) PROVE StartedIsOpen'
  BY <1>26 DEF Probe
<1>27. ASSUME Publish PROVE StartedIsOpen'
  BY <1>27 DEF Publish
<1>35. ASSUME ReadHeld PROVE StartedIsOpen'
  BY <1>35 DEF ReadHeld
<1>28. ASSUME NEW w \in Waves, ReadWave(w) PROVE StartedIsOpen'
  BY <1>28 DEF ReadWave
<1>29. ASSUME AnswerWave PROVE StartedIsOpen'
  BY <1>29 DEF AnswerWave
<1>30. ASSUME NEW l \in Leases, ReadWorker(l) PROVE StartedIsOpen'
  BY <1>30 DEF ReadWorker
<1>31. ASSUME LookAtRun PROVE StartedIsOpen'
  BY <1>31 DEF LookAtRun
<1>32. ASSUME WriteStop PROVE StartedIsOpen'
  BY <1>32 DEF WriteStop
<1>33. CASE UNCHANGED vars
  BY <1>33 DEF vars
<1>34. QED
  BY <1>1, <1>2, <1>3, <1>4, <1>5, <1>6, <1>7, <1>8, <1>9, <1>10, <1>11, <1>12, <1>13, <1>14, <1>15, <1>16, <1>17, <1>18, <1>19, <1>20, <1>21, <1>22, <1>23, <1>24, <1>25, <1>26, <1>27, <1>35, <1>28, <1>29, <1>30, <1>31, <1>32, <1>33 DEF Next, MainStep

LEMMA StopsStep == Stops /\ TypeOK /\ [Next]_vars => Stops'
<1> SUFFICES ASSUME Stops, TypeOK, [Next]_vars PROVE Stops'
  OBVIOUS
<1> USE MemberAssumption DEF grant, wire, process, beat, work, calls, Stops, StopAfterStart, TypeOK
<1>1. ASSUME Reserve PROVE Stops'
  BY <1>1 DEF Reserve
<1>2. ASSUME Prepare PROVE Stops'
  BY <1>2 DEF Prepare
<1>3. ASSUME SubmitJob PROVE Stops'
  BY <1>3 DEF SubmitJob
<1>4. ASSUME DriverDies PROVE Stops'
  BY <1>4 DEF DriverDies
<1>5. ASSUME NEW w \in Waves, Send(w) PROVE Stops'
  BY <1>5 DEF Send
<1>6. ASSUME NEW w \in Waves, Enqueue(w) PROVE Stops'
  BY <1>6 DEF Enqueue
<1>7. ASSUME Shutdown PROVE Stops'
  BY <1>7 DEF Shutdown
<1>8. ASSUME ProviderStarts PROVE Stops'
  BY <1>8 DEF ProviderStarts
<1>9. ASSUME ProviderEnds PROVE Stops'
  BY <1>9 DEF ProviderEnds
<1>10. ASSUME ProviderRestarts PROVE Stops'
  BY <1>10 DEF ProviderRestarts
<1>11. ASSUME Kill PROVE Stops'
  BY <1>11 DEF Kill
<1>12. ASSUME WaveFails PROVE Stops'
  BY <1>12 DEF WaveFails
<1>13. ASSUME BeginOwner PROVE Stops'
  BY <1>13 DEF BeginOwner
<1>14. ASSUME Scan PROVE Stops'
  BY <1>14 DEF Scan
<1>15. ASSUME NEW w \in Waves, Take(w) PROVE Stops'
  BY <1>15 DEF Take
<1>16. ASSUME Hold PROVE Stops'
  BY <1>16 DEF Hold
<1>17. ASSUME OpenWave PROVE Stops'
  BY <1>17 DEF OpenWave
<1>18. ASSUME CloseWave PROVE Stops'
  BY <1>18 DEF CloseWave
<1>19. ASSUME Free PROVE Stops'
  BY <1>19 DEF Free
<1>20. ASSUME Clear PROVE Stops'
  BY <1>20 DEF Clear
<1>21. ASSUME Check PROVE Stops'
  BY <1>21 DEF Check
<1>22. ASSUME Finish PROVE Stops'
  BY <1>22 DEF Finish
<1>23. ASSUME NEW l \in Leases, StartRun(l) PROVE Stops'
  BY <1>23 DEF StartRun
<1>24. ASSUME NEW l \in Leases, EndRun(l) PROVE Stops'
  BY <1>24 DEF EndRun
<1>25. ASSUME NEW l \in Leases, StoreResult(l) PROVE Stops'
  BY <1>25 DEF StoreResult
<1>26. ASSUME NEW n \in 0..Capacity, Probe(n) PROVE Stops'
  BY <1>26 DEF Probe
<1>27. ASSUME Publish PROVE Stops'
  BY <1>27 DEF Publish
<1>35. ASSUME ReadHeld PROVE Stops'
  BY <1>35 DEF ReadHeld
<1>28. ASSUME NEW w \in Waves, ReadWave(w) PROVE Stops'
  BY <1>28 DEF ReadWave
<1>29. ASSUME AnswerWave PROVE Stops'
  BY <1>29 DEF AnswerWave
<1>30. ASSUME NEW l \in Leases, ReadWorker(l) PROVE Stops'
  BY <1>30 DEF ReadWorker
<1>31. ASSUME LookAtRun PROVE Stops'
  BY <1>31 DEF LookAtRun
<1>32. ASSUME WriteStop PROVE Stops'
  BY <1>32 DEF WriteStop
<1>33. CASE UNCHANGED vars
  BY <1>33 DEF vars
<1>34. QED
  BY <1>1, <1>2, <1>3, <1>4, <1>5, <1>6, <1>7, <1>8, <1>9, <1>10, <1>11, <1>12, <1>13, <1>14, <1>15, <1>16, <1>17, <1>18, <1>19, <1>20, <1>21, <1>22, <1>23, <1>24, <1>25, <1>26, <1>27, <1>35, <1>28, <1>29, <1>30, <1>31, <1>32, <1>33 DEF Next, MainStep

\* The invariant holds in every state the allocation can reach.
THEOREM Invariance == Spec => []IInv
<1>1. Init => IInv
  <2> SUFFICES ASSUME Init PROVE IInv
    OBVIOUS
  <2> USE MemberAssumption DEF Init
  <2>1. TypeOK
    <3>1. starting \in BOOLEAN /\ shutdown \in BOOLEAN /\ busy \in BOOLEAN
      OBVIOUS
    <3>2. /\ answer \in [Waves -> {"unsent", "sent", "taken", "refused"}]
          /\ worker \in [Waves -> {"none", "running", "completed"}]
          /\ life \in [Leases -> {"idle", "running", "ended", "stored", "lost"}]
      OBVIOUS
    <3>3. submitted \in 0..2 /\ restarts \in 0..MaxRestarts
      OBVIOUS
    <3>4. QED
      BY <3>1, <3>2, <3>3 DEF TypeOK
  <2>2. Submissions /\ OwnedWork /\ OneOpen
    BY DEF Submissions, OwnedWork, OneOpen, Loop
  <2>3. Inbox /\ StartedIsOpen /\ Stops
    BY DEF Inbox, Past, StartedIsOpen, Stops, StopAfterStart
  <2>4. QED
    BY <2>1, <2>2, <2>3 DEF IInv
<1>2. IInv /\ [Next]_vars => IInv'
  BY TypeStep, SubmissionsStep, OwnedStep, OpenStep, InboxStep, StartedStep, StopsStep DEF IInv
<1>3. QED
  BY <1>1, <1>2, PTL DEF Spec

\* Every variable keeps its type, whatever dies when.
THEOREM TypeCorrect == Spec => []TypeOK
<1>1. IInv => TypeOK
  BY DEF IInv
<1>2. QED
  BY Invariance, <1>1, PTL

\* However often its driver dies, the allocation is one provider Job.
THEOREM SubmitsOneJob == Spec => []OneProviderJob
<1>1. IInv => OneProviderJob
  BY DEF IInv, Submissions, OneProviderJob
<1>2. QED
  BY Invariance, <1>1, PTL

LEMMA OnceEach == IInv => RunsStartOnce
<1> SUFFICES ASSUME IInv, NEW k \in Leases, NEW l \in Leases,
                    RunOf[k] = RunOf[l], life[k] # "idle", life[l] # "idle"
             PROVE k = l
  BY DEF RunsStartOnce
<1>1. WaveOf[k] \in inbox /\ WaveOf[l] \in inbox
  BY DEF IInv, StartedIsOpen
<1>2. RunOf[k] \in RunsOf(WaveOf[k]) /\ RunOf[k] \in RunsOf(WaveOf[l])
  BY DEF RunsOf, LeasesOf
<1>3. WaveOf[k] = WaveOf[l]
  BY <1>1, <1>2 DEF IInv, Inbox
<1>4. QED
  BY <1>3, MemberAssumption

\* No logical Run is started twice by an allocation.
THEOREM StartsOnce == Spec => []RunsStartOnce
  BY Invariance, OnceEach, PTL

\* A wave is never worked on beside an interrupted one.
THEOREM WorksAlone == Spec => []OwnerWorksAlone
<1>1. IInv => OwnerWorksAlone
  BY DEF IInv, OneOpen, OwnerWorksAlone
<1>2. QED
  BY Invariance, <1>1, PTL

\* A stop file never waits for a Run that is yet to start.
THEOREM StopsFollowStarts == Spec => []StopAfterStart
<1>1. IInv => StopAfterStart
  BY DEF IInv, Stops
<1>2. QED
  BY Invariance, <1>1, PTL

-------------------------------------------------------------------------------
LEMMA PromiseInit == Init => Promise!Init
  BY DEF Init, Promise!Init

LEMMA PromiseStep == IInv /\ [Next]_vars => [Promise!Next]_(Promise!vars)
<1> SUFFICES ASSUME IInv, [Next]_vars PROVE Promise!Next \/ UNCHANGED Promise!vars
  OBVIOUS
<1> USE MemberAssumption
<1>0. TypeOK
  BY DEF IInv
<1>1. ASSUME Reserve PROVE Promise!Next \/ UNCHANGED Promise!vars
  BY <1>1 DEF Reserve, wire, work, Promise!vars
<1>2. ASSUME Prepare PROVE Promise!Next \/ UNCHANGED Promise!vars
  BY <1>2 DEF Prepare, wire, work, Promise!vars
<1>3. ASSUME SubmitJob PROVE Promise!Next \/ UNCHANGED Promise!vars
  BY <1>3 DEF SubmitJob, wire, work, Promise!vars
<1>4. ASSUME DriverDies PROVE Promise!Next \/ UNCHANGED Promise!vars
  BY <1>4 DEF DriverDies, wire, work, Promise!vars
<1>5. ASSUME NEW w \in Waves, Send(w) PROVE Promise!Next \/ UNCHANGED Promise!vars
  <2>1. CASE answer'[w] = "sent"
    BY <1>5, <1>0, <2>1 DEF Send, TypeOK, work, Promise!vars
  <2>2. CASE answer'[w] = "refused"
    <3>1. Promise!Decide(w)
      BY <1>5, <1>0, <2>2 DEF Send, TypeOK, work, Promise!Decide
    <3>2. QED
      BY <3>1 DEF Promise!Next
  <2>3. QED
    BY <1>5, <1>0, <2>1, <2>2 DEF Send, TypeOK
<1>6. ASSUME NEW w \in Waves, Enqueue(w) PROVE Promise!Next \/ UNCHANGED Promise!vars
  <2>1. Promise!Decide(w)
    BY <1>6, <1>0 DEF Enqueue, TypeOK, work, Promise!Decide
  <2>2. QED
    BY <2>1 DEF Promise!Next
<1>7. ASSUME Shutdown PROVE Promise!Next \/ UNCHANGED Promise!vars
  BY <1>7 DEF Shutdown, wire, work, Promise!vars
<1>8. ASSUME ProviderStarts PROVE Promise!Next \/ UNCHANGED Promise!vars
  BY <1>8 DEF ProviderStarts, wire, work, Promise!vars
<1>9. ASSUME ProviderEnds PROVE Promise!Next \/ UNCHANGED Promise!vars
  BY <1>9 DEF ProviderEnds, wire, work, Promise!vars
<1>10. ASSUME ProviderRestarts PROVE Promise!Next \/ UNCHANGED Promise!vars
  BY <1>10 DEF ProviderRestarts, wire, work, Promise!vars
<1>11. ASSUME Kill PROVE Promise!Next \/ UNCHANGED Promise!vars
  <2>1. Promise!Lose
    BY <1>11 DEF Kill, wire, Promise!Lose
  <2>2. QED
    BY <2>1 DEF Promise!Next
<1>12. ASSUME WaveFails PROVE Promise!Next \/ UNCHANGED Promise!vars
  <2>1. Promise!Lose
    BY <1>12 DEF WaveFails, wire, Promise!Lose
  <2>2. QED
    BY <2>1 DEF Promise!Next
<1>13. ASSUME BeginOwner PROVE Promise!Next \/ UNCHANGED Promise!vars
  BY <1>13 DEF BeginOwner, wire, work, Promise!vars
<1>14. ASSUME Scan PROVE Promise!Next \/ UNCHANGED Promise!vars
  BY <1>14 DEF Scan, wire, work, Promise!vars
<1>15. ASSUME NEW w \in Waves, Take(w) PROVE Promise!Next \/ UNCHANGED Promise!vars
  BY <1>15 DEF Take, wire, work, Promise!vars
<1>16. ASSUME Hold PROVE Promise!Next \/ UNCHANGED Promise!vars
  BY <1>16 DEF Hold, wire, work, Promise!vars
<1>17. ASSUME OpenWave PROVE Promise!Next \/ UNCHANGED Promise!vars
  BY <1>17 DEF OpenWave, wire, work, Promise!vars
<1>18. ASSUME CloseWave PROVE Promise!Next \/ UNCHANGED Promise!vars
  BY <1>18 DEF CloseWave, wire, work, Promise!vars
<1>19. ASSUME Free PROVE Promise!Next \/ UNCHANGED Promise!vars
  BY <1>19 DEF Free, wire, work, Promise!vars
<1>20. ASSUME Clear PROVE Promise!Next \/ UNCHANGED Promise!vars
  BY <1>20 DEF Clear, wire, work, Promise!vars
<1>21. ASSUME Check PROVE Promise!Next \/ UNCHANGED Promise!vars
  BY <1>21 DEF Check, wire, work, Promise!vars
<1>22. ASSUME Finish PROVE Promise!Next \/ UNCHANGED Promise!vars
  BY <1>22 DEF Finish, wire, work, Promise!vars
<1>23. ASSUME NEW l \in Leases, StartRun(l) PROVE Promise!Next \/ UNCHANGED Promise!vars
  <2>1. WaveOf[l] \in inbox /\ WaveOf[l] \in Waves
    BY <1>23 DEF StartRun, IInv, Inbox, Past
  <2>2. answer[WaveOf[l]] = "taken"
    BY <2>1 DEF IInv, Inbox
  <2>3. ASSUME NEW k \in Leases, RunOf[k] = RunOf[l], life[k] # "idle" PROVE FALSE
    <3>1. WaveOf[k] \in inbox
      BY <2>3 DEF IInv, StartedIsOpen
    <3>2. RunOf[l] \in RunsOf(WaveOf[k]) /\ RunOf[l] \in RunsOf(WaveOf[l])
      BY <2>3 DEF RunsOf, LeasesOf
    <3>3. WaveOf[k] = WaveOf[l]
      BY <2>1, <3>1, <3>2 DEF IInv, Inbox
    <3>4. k = l
      BY <2>3, <3>3
    <3>5. QED
      BY <1>23, <2>3, <3>4 DEF StartRun
  <2>4. Promise!Start(l)
    BY <1>23, <2>1, <2>2, <2>3 DEF StartRun, wire, Promise!Start, Promise!Started
  <2>5. QED
    BY <2>4 DEF Promise!Next
<1>24. ASSUME NEW l \in Leases, EndRun(l) PROVE Promise!Next \/ UNCHANGED Promise!vars
  <2>1. Promise!End(l)
    BY <1>24 DEF EndRun, wire, Promise!End
  <2>2. QED
    BY <2>1 DEF Promise!Next
<1>25. ASSUME NEW l \in Leases, StoreResult(l) PROVE Promise!Next \/ UNCHANGED Promise!vars
  <2>1. Promise!Store(l)
    BY <1>25 DEF StoreResult, wire, Promise!Store
  <2>2. QED
    BY <2>1 DEF Promise!Next
<1>26. ASSUME NEW n \in 0..Capacity, Probe(n) PROVE Promise!Next \/ UNCHANGED Promise!vars
  BY <1>26 DEF Probe, wire, work, Promise!vars
<1>27. ASSUME Publish PROVE Promise!Next \/ UNCHANGED Promise!vars
  BY <1>27 DEF Publish, wire, work, Promise!vars
<1>35. ASSUME ReadHeld PROVE Promise!Next \/ UNCHANGED Promise!vars
  BY <1>35 DEF ReadHeld, wire, work, Promise!vars
<1>28. ASSUME NEW w \in Waves, ReadWave(w) PROVE Promise!Next \/ UNCHANGED Promise!vars
  BY <1>28 DEF ReadWave, wire, work, Promise!vars
<1>29. ASSUME AnswerWave PROVE Promise!Next \/ UNCHANGED Promise!vars
  BY <1>29 DEF AnswerWave, wire, work, Promise!vars
<1>30. ASSUME NEW l \in Leases, ReadWorker(l) PROVE Promise!Next \/ UNCHANGED Promise!vars
  BY <1>30 DEF ReadWorker, wire, work, Promise!vars
<1>31. ASSUME LookAtRun PROVE Promise!Next \/ UNCHANGED Promise!vars
  BY <1>31 DEF LookAtRun, wire, work, Promise!vars
<1>32. ASSUME WriteStop PROVE Promise!Next \/ UNCHANGED Promise!vars
  BY <1>32 DEF WriteStop, wire, work, Promise!vars
<1>33. CASE UNCHANGED vars
  BY <1>33 DEF vars, wire, work, Promise!vars
<1>34. QED
  BY <1>1, <1>2, <1>3, <1>4, <1>5, <1>6, <1>7, <1>8, <1>9, <1>10, <1>11, <1>12, <1>13, <1>14, <1>15, <1>16, <1>17, <1>18, <1>19, <1>20, <1>21, <1>22, <1>23, <1>24, <1>25, <1>26, <1>27, <1>35, <1>28, <1>29, <1>30, <1>31, <1>32, <1>33 DEF Next, MainStep

\* The allocation keeps the promise of LeasedWaves.
THEOREM AllocationKeepsPromise == Spec => ImplementsLeasedWaves
<1>1. Init => Promise!Init
  BY PromiseInit
<1>2. IInv /\ [Next]_vars => [Promise!Next]_(Promise!vars)
  BY PromiseStep
<1>3. QED
  BY Invariance, <1>1, <1>2, PTL DEF Spec, ImplementsLeasedWaves, Promise!Spec

-------------------------------------------------------------------------------
\* A wave that was closed has all its results.
ClosedIsStored ==
  \A k \in Leases : worker[WaveOf[k]] = "completed" => life[k] = "stored"

\* When the owner is completed no wave is open, and nobody opens one again.
Settled == owner = "completed" => \A v \in Waves : worker[v] # "running"

\* What is left of DrainKeepsAccepted: a drained allocation may leave accepted
\* waves unopened, but of those it opened it has every result.
DrainFinishesBegun ==
  owner = "completed" => \A k \in Leases : life[k] \in {"idle", "stored"}

LEMMA SettledStep == IInv /\ ClosedIsStored /\ Settled /\ [Next]_vars => (ClosedIsStored /\ Settled)'
<1> SUFFICES ASSUME IInv, ClosedIsStored, Settled, [Next]_vars PROVE (ClosedIsStored /\ Settled)'
  OBVIOUS
<1> USE MemberAssumption
    DEF grant, wire, process, beat, work, calls, ClosedIsStored, Settled, IInv, TypeOK
<1>1. ASSUME Reserve PROVE (ClosedIsStored /\ Settled)'
  BY <1>1 DEF Reserve
<1>2. ASSUME Prepare PROVE (ClosedIsStored /\ Settled)'
  BY <1>2 DEF Prepare
<1>3. ASSUME SubmitJob PROVE (ClosedIsStored /\ Settled)'
  BY <1>3 DEF SubmitJob
<1>4. ASSUME DriverDies PROVE (ClosedIsStored /\ Settled)'
  BY <1>4 DEF DriverDies
<1>5. ASSUME NEW w \in Waves, Send(w) PROVE (ClosedIsStored /\ Settled)'
  BY <1>5 DEF Send
<1>6. ASSUME NEW w \in Waves, Enqueue(w) PROVE (ClosedIsStored /\ Settled)'
  BY <1>6 DEF Enqueue
<1>7. ASSUME Shutdown PROVE (ClosedIsStored /\ Settled)'
  BY <1>7 DEF Shutdown
<1>8. ASSUME ProviderStarts PROVE (ClosedIsStored /\ Settled)'
  BY <1>8 DEF ProviderStarts
<1>9. ASSUME ProviderEnds PROVE (ClosedIsStored /\ Settled)'
  BY <1>9 DEF ProviderEnds
<1>10. ASSUME ProviderRestarts PROVE (ClosedIsStored /\ Settled)'
  BY <1>10 DEF ProviderRestarts
<1>11. ASSUME Kill PROVE (ClosedIsStored /\ Settled)'
  BY <1>11 DEF Kill
<1>12. ASSUME WaveFails PROVE (ClosedIsStored /\ Settled)'
  BY <1>12 DEF WaveFails
<1>13. ASSUME BeginOwner PROVE (ClosedIsStored /\ Settled)'
  BY <1>13 DEF BeginOwner, OneOpen, OwnedWork, Inbox, Past, Loop
<1>14. ASSUME Scan PROVE (ClosedIsStored /\ Settled)'
  BY <1>14 DEF Scan
<1>15. ASSUME NEW w \in Waves, Take(w) PROVE (ClosedIsStored /\ Settled)'
  BY <1>15 DEF Take
<1>16. ASSUME Hold PROVE (ClosedIsStored /\ Settled)'
  BY <1>16 DEF Hold
<1>17. ASSUME OpenWave PROVE (ClosedIsStored /\ Settled)'
  BY <1>17 DEF OpenWave, OneOpen, OwnedWork, Inbox, Past, Loop
<1>18. ASSUME CloseWave PROVE (ClosedIsStored /\ Settled)'
  BY <1>18 DEF CloseWave, Results, LeasesOf, OneOpen, OwnedWork, Inbox, Past, Loop
<1>19. ASSUME Free PROVE (ClosedIsStored /\ Settled)'
  BY <1>19 DEF Free
<1>20. ASSUME Clear PROVE (ClosedIsStored /\ Settled)'
  BY <1>20 DEF Clear
<1>21. ASSUME Check PROVE (ClosedIsStored /\ Settled)'
  BY <1>21 DEF Check
<1>22. ASSUME Finish PROVE (ClosedIsStored /\ Settled)'
  BY <1>22 DEF Finish, OneOpen, OwnedWork, Inbox, Past, Loop
<1>23. ASSUME NEW l \in Leases, StartRun(l) PROVE (ClosedIsStored /\ Settled)'
  BY <1>23 DEF StartRun, OneOpen, OwnedWork
<1>24. ASSUME NEW l \in Leases, EndRun(l) PROVE (ClosedIsStored /\ Settled)'
  BY <1>24 DEF EndRun
<1>25. ASSUME NEW l \in Leases, StoreResult(l) PROVE (ClosedIsStored /\ Settled)'
  BY <1>25 DEF StoreResult
<1>26. ASSUME NEW n \in 0..Capacity, Probe(n) PROVE (ClosedIsStored /\ Settled)'
  BY <1>26 DEF Probe
<1>27. ASSUME Publish PROVE (ClosedIsStored /\ Settled)'
  BY <1>27 DEF Publish
<1>35. ASSUME ReadHeld PROVE (ClosedIsStored /\ Settled)'
  BY <1>35 DEF ReadHeld
<1>28. ASSUME NEW w \in Waves, ReadWave(w) PROVE (ClosedIsStored /\ Settled)'
  BY <1>28 DEF ReadWave
<1>29. ASSUME AnswerWave PROVE (ClosedIsStored /\ Settled)'
  BY <1>29 DEF AnswerWave
<1>30. ASSUME NEW l \in Leases, ReadWorker(l) PROVE (ClosedIsStored /\ Settled)'
  BY <1>30 DEF ReadWorker
<1>31. ASSUME LookAtRun PROVE (ClosedIsStored /\ Settled)'
  BY <1>31 DEF LookAtRun
<1>32. ASSUME WriteStop PROVE (ClosedIsStored /\ Settled)'
  BY <1>32 DEF WriteStop
<1>33. CASE UNCHANGED vars
  BY <1>33 DEF vars
<1>34. QED
  BY <1>1, <1>2, <1>3, <1>4, <1>5, <1>6, <1>7, <1>8, <1>9, <1>10, <1>11, <1>12, <1>13, <1>14, <1>15, <1>16, <1>17, <1>18, <1>19, <1>20, <1>21, <1>22, <1>23, <1>24, <1>25, <1>26, <1>27, <1>35, <1>28, <1>29, <1>30, <1>31, <1>32, <1>33 DEF Next, MainStep

\* A drained allocation leaves no wave half executed: whatever it started is
\* stored (work/member.py: shutdown is looked at between waves only).
THEOREM DrainsCleanly == Spec => []DrainFinishesBegun
<1>1. Init => ClosedIsStored /\ Settled
  BY MemberAssumption DEF Init, ClosedIsStored, Settled
<1>2. IInv /\ ClosedIsStored /\ Settled => DrainFinishesBegun
  BY MemberAssumption DEF IInv, TypeOK, StartedIsOpen, ClosedIsStored, Settled, DrainFinishesBegun
<1>3. QED
  BY <1>1, <1>2, SettledStep, Invariance, PTL DEF Spec
===============================================================================
