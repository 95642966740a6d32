------------------------- MODULE EnvironmentCacheProofs -------------------------
(***************************************************************************)
(* Proofs about EnvironmentCache for all submissions and environments, any *)
(* of them on the cluster's host, and any number of killed collectors.     *)
(***************************************************************************)
EXTENDS EnvironmentCache, TLAPS

\* From the acquired marker to the beginning of its release.
Guarding == {"leased", "building", "verified", "leaving", "failing"}
Guards(c) == step[c] \in Guarding

\* The marker names who guards it, until a late heartbeat puts another name:
\* one submission at a time is between the two.
Marked == \A c \in Submissions \ robbed : Guards(c) => marker[EnvOf[c]] = c

\* An installer without its submission is left by a build that failed or died.
Fates == \A c \in child : step[c] \in {"failing", "failunlinked", "over", "dead"}

\* Before it deletes, a collector has chosen nothing.
Idle ==
  /\ at # "delete" => stage = "none" /\ target = None /\ plan = {}
  /\ at \in {"idle", "resume"} => by = None
  /\ stage # "none" => Receipt(target) \in journal

\* What is chosen belongs to no builder with its marker and to no installer,
\* and a prune that began finds no builder at all.
Doomed == plan \union {target}
Unowned ==
  /\ at = "delete" => \A c \in Submissions \ robbed :
       /\ EnvOf[c] \in Doomed => ~ Guards(c)
       /\ c \in Doomed => ~ Guards(c) /\ c \notin child
  /\ by # None /\ at # "markers" => \A c \in Submissions \ robbed : ~ Guards(c)

\* The environment of a Job that the collection found is kept.
Kept ==
  /\ \A c \in seen : Live(c)
  /\ at = "plan" => \A c \in seen : EnvOf[c] \in keep
  /\ at = "delete" => \A c \in seen : EnvOf[c] \notin Doomed

IInv == TypeOK /\ Marked /\ Fates /\ Idle /\ Unowned /\ BuilderKeepsItsWork /\ Kept

-------------------------------------------------------------------------------
LEMMA Initial == Init => IInv
<1> SUFFICES ASSUME Init PROVE IInv
  OBVIOUS
<1> USE CacheAssumption DEF Init
<1>1. TypeOK
  BY DEF TypeOK, Steps, Stages, Items
<1>2. Marked
  BY DEF Marked, Guards, Guarding
<1>3. Fates /\ Idle /\ Unowned
  BY DEF Fates, Idle, Unowned, Guards, Guarding
<1>4. BuilderKeepsItsWork /\ Kept
  BY DEF BuilderKeepsItsWork, Keeps, Kept
<1>5. QED
  BY <1>1, <1>2, <1>3, <1>4 DEF IInv

LEMMA TypeKept ==
  TypeOK /\ Idle /\ [Next]_vars => TypeOK'
<1> SUFFICES ASSUME TypeOK, Idle, [Next]_vars PROVE TypeOK'
  OBVIOUS
<1> USE CacheAssumption DEF cluster, clients, collector, Move, TypeOK, Steps, Stages, Items
<1>1. ASSUME NEW c \in Submissions, Acquire(c) PROVE TypeOK'
  BY <1>1 DEF Acquire
<1>2. ASSUME NEW c \in Submissions, GiveUp(c) PROVE TypeOK'
  BY <1>2 DEF GiveUp
<1>3. ASSUME NEW c \in Submissions, Reuse(c) PROVE TypeOK'
  BY <1>3 DEF Reuse
<1>4. ASSUME NEW c \in Submissions, Build(c) PROVE TypeOK'
  BY <1>4 DEF Build
<1>5. ASSUME NEW c \in Submissions, BuildFails(c) PROVE TypeOK'
  BY <1>5 DEF BuildFails
<1>6. ASSUME NEW c \in Submissions, Publish(c) PROVE TypeOK'
  BY <1>6 DEF Publish
<1>7. ASSUME NEW c \in Submissions, Activate(c) PROVE TypeOK'
  BY <1>7 DEF Activate
<1>8. ASSUME NEW c \in Submissions, Unlink(c) PROVE TypeOK'
  BY <1>8 DEF Unlink, Leaving, Unlinked, Left
<1>9. ASSUME NEW c \in Submissions, Rmdir(c) PROVE TypeOK'
  BY <1>9 DEF Rmdir, Left
<1>10. ASSUME NEW c \in Submissions, ReleaseLost(c) PROVE TypeOK'
  BY <1>10 DEF ReleaseLost, Leaving, Left
<1>11. ASSUME NEW c \in Submissions, BeatReads(c) PROVE TypeOK'
  BY <1>11 DEF BeatReads
<1>12. ASSUME NEW c \in Submissions, BeatWrites(c) PROVE TypeOK'
  BY <1>12 DEF BeatWrites
<1>13. ASSUME NEW c \in Submissions, Prune(c) PROVE TypeOK'
  BY <1>13 DEF Prune
<1>14. ASSUME NEW c \in Submissions, Defer(c) PROVE TypeOK'
  BY <1>14 DEF Defer
<1>15. ASSUME NEW c \in Submissions, Stage(c) PROVE TypeOK'
  BY <1>15 DEF Stage
<1>16. ASSUME NEW c \in Submissions, Launch(c) PROVE TypeOK'
  BY <1>16 DEF Launch
<1>17. ASSUME NEW c \in Submissions, JobEnds(c) PROVE TypeOK'
  BY <1>17 DEF JobEnds
<1>18. ASSUME NEW c \in Submissions, Dies(c) PROVE TypeOK'
  BY <1>18 DEF Dies
<1>19. ASSUME NEW c \in Submissions, ChildEnds(c) PROVE TypeOK'
  BY <1>19 DEF ChildEnds
<1>20. ASSUME Collect PROVE TypeOK'
  BY <1>20 DEF Collect, Idle
<1>21. ASSUME NEW r \in journal, Resume(r) PROVE TypeOK'
  BY <1>21 DEF Resume
<1>22. ASSUME ReadPointer PROVE TypeOK'
  BY <1>22 DEF ReadPointer
<1>23. ASSUME ReadJobs PROVE TypeOK'
  BY <1>23 DEF ReadJobs, Referred
<1>24. ASSUME LookForBuilds PROVE TypeOK'
  BY <1>24 DEF LookForBuilds, Finished, Answered, Enter
<1>25. ASSUME NEW P \in SUBSET Items, Choose(P) PROVE TypeOK'
  BY <1>25 DEF Choose, Idle
<1>26. ASSUME NEW i \in Items, Journal(i) PROVE TypeOK'
  BY <1>26 DEF Journal, Receipt
<1>27. ASSUME Rename PROVE TypeOK'
  BY <1>27 DEF Rename, Present, Idle
<1>28. ASSUME Remove PROVE TypeOK'
  BY <1>28 DEF Remove, Receipt
<1>29. ASSUME Finish PROVE TypeOK'
  BY <1>29 DEF Finish, Finished, Answered
<1>30. ASSUME Killed PROVE TypeOK'
  BY <1>30 DEF Killed, Finished, Answered
<1>31. ASSUME NEW e \in Envs, NEW E \in SUBSET Envs, FinishFails(e, E) PROVE TypeOK'
  BY <1>31 DEF FinishFails, Finished
<1>32. CASE UNCHANGED vars
  BY <1>32 DEF vars
<1> HIDE DEF TypeOK, Steps, Stages, Items, cluster, clients, collector, Move
<1>33. QED
  BY <1>1, <1>2, <1>3, <1>4, <1>5, <1>6, <1>7, <1>8, <1>9, <1>10, <1>11, <1>12, <1>13, <1>14,
     <1>15, <1>16, <1>17, <1>18, <1>19, <1>20, <1>21, <1>22, <1>23, <1>24, <1>25, <1>26, <1>27,
     <1>28, <1>29, <1>30, <1>31, <1>32 DEF Next, Prepare, CollectorStep

LEMMA MarkedKept ==
  Marked /\ TypeOK /\ [Next]_vars => Marked'
<1> SUFFICES ASSUME Marked, TypeOK, [Next]_vars PROVE Marked'
  OBVIOUS
<1> USE CacheAssumption DEF cluster, clients, collector, Move, Marked, Guards, Guarding, TypeOK
<1>1. ASSUME NEW c \in Submissions, Acquire(c) PROVE Marked'
  BY <1>1 DEF Acquire
<1>2. ASSUME NEW c \in Submissions, GiveUp(c) PROVE Marked'
  BY <1>2 DEF GiveUp
<1>3. ASSUME NEW c \in Submissions, Reuse(c) PROVE Marked'
  BY <1>3 DEF Reuse
<1>4. ASSUME NEW c \in Submissions, Build(c) PROVE Marked'
  BY <1>4 DEF Build
<1>5. ASSUME NEW c \in Submissions, BuildFails(c) PROVE Marked'
  BY <1>5 DEF BuildFails
<1>6. ASSUME NEW c \in Submissions, Publish(c) PROVE Marked'
  BY <1>6 DEF Publish
<1>7. ASSUME NEW c \in Submissions, Activate(c) PROVE Marked'
  BY <1>7 DEF Activate
<1>8. ASSUME NEW c \in Submissions, Unlink(c) PROVE Marked'
  BY <1>8 DEF Unlink, Leaving, Unlinked, Left
<1>9. ASSUME NEW c \in Submissions, Rmdir(c) PROVE Marked'
  BY <1>9 DEF Rmdir, Left
<1>10. ASSUME NEW c \in Submissions, ReleaseLost(c) PROVE Marked'
  BY <1>10 DEF ReleaseLost, Leaving, Left
<1>11. ASSUME NEW c \in Submissions, BeatReads(c) PROVE Marked'
  BY <1>11 DEF BeatReads
<1>12. ASSUME NEW c \in Submissions, BeatWrites(c) PROVE Marked'
  BY <1>12 DEF BeatWrites
<1>13. ASSUME NEW c \in Submissions, Prune(c) PROVE Marked'
  BY <1>13 DEF Prune
<1>14. ASSUME NEW c \in Submissions, Defer(c) PROVE Marked'
  BY <1>14 DEF Defer
<1>15. ASSUME NEW c \in Submissions, Stage(c) PROVE Marked'
  BY <1>15 DEF Stage
<1>16. ASSUME NEW c \in Submissions, Launch(c) PROVE Marked'
  BY <1>16 DEF Launch
<1>17. ASSUME NEW c \in Submissions, JobEnds(c) PROVE Marked'
  BY <1>17 DEF JobEnds
<1>18. ASSUME NEW c \in Submissions, Dies(c) PROVE Marked'
  BY <1>18 DEF Dies
<1>19. ASSUME NEW c \in Submissions, ChildEnds(c) PROVE Marked'
  BY <1>19 DEF ChildEnds
<1>20. ASSUME Collect PROVE Marked'
  BY <1>20 DEF Collect
<1>21. ASSUME NEW r \in journal, Resume(r) PROVE Marked'
  BY <1>21 DEF Resume
<1>22. ASSUME ReadPointer PROVE Marked'
  BY <1>22 DEF ReadPointer
<1>23. ASSUME ReadJobs PROVE Marked'
  BY <1>23 DEF ReadJobs
<1>24. ASSUME LookForBuilds PROVE Marked'
  BY <1>24 DEF LookForBuilds, Finished, Answered, Enter
<1>25. ASSUME NEW P \in SUBSET Items, Choose(P) PROVE Marked'
  BY <1>25 DEF Choose
<1>26. ASSUME NEW i \in Items, Journal(i) PROVE Marked'
  BY <1>26 DEF Journal
<1>27. ASSUME Rename PROVE Marked'
  BY <1>27 DEF Rename
<1>28. ASSUME Remove PROVE Marked'
  BY <1>28 DEF Remove
<1>29. ASSUME Finish PROVE Marked'
  BY <1>29 DEF Finish, Finished, Answered, Orphaned
<1>30. ASSUME Killed PROVE Marked'
  BY <1>30 DEF Killed, Finished, Answered
<1>31. ASSUME NEW e \in Envs, NEW E \in SUBSET Envs, FinishFails(e, E) PROVE Marked'
  BY <1>31 DEF FinishFails, Finished, Orphaned
<1>32. CASE UNCHANGED vars
  BY <1>32 DEF vars
<1> HIDE DEF Marked, Guards, Guarding, TypeOK, cluster, clients, collector, Move
<1>33. QED
  BY <1>1, <1>2, <1>3, <1>4, <1>5, <1>6, <1>7, <1>8, <1>9, <1>10, <1>11, <1>12, <1>13, <1>14,
     <1>15, <1>16, <1>17, <1>18, <1>19, <1>20, <1>21, <1>22, <1>23, <1>24, <1>25, <1>26, <1>27,
     <1>28, <1>29, <1>30, <1>31, <1>32 DEF Next, Prepare, CollectorStep

LEMMA FatesKept ==
  Fates /\ TypeOK /\ [Next]_vars => Fates'
<1> SUFFICES ASSUME Fates, TypeOK, [Next]_vars PROVE Fates'
  OBVIOUS
<1> USE CacheAssumption DEF cluster, clients, collector, Move, Fates, TypeOK, Steps
<1>1. ASSUME NEW c \in Submissions, Acquire(c) PROVE Fates'
  BY <1>1 DEF Acquire
<1>2. ASSUME NEW c \in Submissions, GiveUp(c) PROVE Fates'
  BY <1>2 DEF GiveUp
<1>3. ASSUME NEW c \in Submissions, Reuse(c) PROVE Fates'
  BY <1>3 DEF Reuse
<1>4. ASSUME NEW c \in Submissions, Build(c) PROVE Fates'
  BY <1>4 DEF Build
<1>5. ASSUME NEW c \in Submissions, BuildFails(c) PROVE Fates'
  BY <1>5 DEF BuildFails
<1>6. ASSUME NEW c \in Submissions, Publish(c) PROVE Fates'
  BY <1>6 DEF Publish
<1>7. ASSUME NEW c \in Submissions, Activate(c) PROVE Fates'
  BY <1>7 DEF Activate
<1>8. ASSUME NEW c \in Submissions, Unlink(c) PROVE Fates'
  BY <1>8 DEF Unlink, Leaving, Unlinked, Left
<1>9. ASSUME NEW c \in Submissions, Rmdir(c) PROVE Fates'
  BY <1>9 DEF Rmdir, Left
<1>10. ASSUME NEW c \in Submissions, ReleaseLost(c) PROVE Fates'
  BY <1>10 DEF ReleaseLost, Leaving, Left
<1>11. ASSUME NEW c \in Submissions, BeatReads(c) PROVE Fates'
  BY <1>11 DEF BeatReads
<1>12. ASSUME NEW c \in Submissions, BeatWrites(c) PROVE Fates'
  BY <1>12 DEF BeatWrites
<1>13. ASSUME NEW c \in Submissions, Prune(c) PROVE Fates'
  BY <1>13 DEF Prune
<1>14. ASSUME NEW c \in Submissions, Defer(c) PROVE Fates'
  BY <1>14 DEF Defer
<1>15. ASSUME NEW c \in Submissions, Stage(c) PROVE Fates'
  BY <1>15 DEF Stage
<1>16. ASSUME NEW c \in Submissions, Launch(c) PROVE Fates'
  BY <1>16 DEF Launch
<1>17. ASSUME NEW c \in Submissions, JobEnds(c) PROVE Fates'
  BY <1>17 DEF JobEnds
<1>18. ASSUME NEW c \in Submissions, Dies(c) PROVE Fates'
  BY <1>18 DEF Dies
<1>19. ASSUME NEW c \in Submissions, ChildEnds(c) PROVE Fates'
  BY <1>19 DEF ChildEnds
<1>20. ASSUME Collect PROVE Fates'
  BY <1>20 DEF Collect
<1>21. ASSUME NEW r \in journal, Resume(r) PROVE Fates'
  BY <1>21 DEF Resume
<1>22. ASSUME ReadPointer PROVE Fates'
  BY <1>22 DEF ReadPointer
<1>23. ASSUME ReadJobs PROVE Fates'
  BY <1>23 DEF ReadJobs
<1>24. ASSUME LookForBuilds PROVE Fates'
  BY <1>24 DEF LookForBuilds, Finished, Answered, Enter
<1>25. ASSUME NEW P \in SUBSET Items, Choose(P) PROVE Fates'
  BY <1>25 DEF Choose
<1>26. ASSUME NEW i \in Items, Journal(i) PROVE Fates'
  BY <1>26 DEF Journal
<1>27. ASSUME Rename PROVE Fates'
  BY <1>27 DEF Rename
<1>28. ASSUME Remove PROVE Fates'
  BY <1>28 DEF Remove
<1>29. ASSUME Finish PROVE Fates'
  BY <1>29 DEF Finish, Finished, Answered
<1>30. ASSUME Killed PROVE Fates'
  BY <1>30 DEF Killed, Finished, Answered
<1>31. ASSUME NEW e \in Envs, NEW E \in SUBSET Envs, FinishFails(e, E) PROVE Fates'
  BY <1>31 DEF FinishFails, Finished
<1>32. CASE UNCHANGED vars
  BY <1>32 DEF vars
<1> HIDE DEF Fates, TypeOK, Steps, cluster, clients, collector, Move
<1>33. QED
  BY <1>1, <1>2, <1>3, <1>4, <1>5, <1>6, <1>7, <1>8, <1>9, <1>10, <1>11, <1>12, <1>13, <1>14,
     <1>15, <1>16, <1>17, <1>18, <1>19, <1>20, <1>21, <1>22, <1>23, <1>24, <1>25, <1>26, <1>27,
     <1>28, <1>29, <1>30, <1>31, <1>32 DEF Next, Prepare, CollectorStep

LEMMA IdleKept ==
  Idle /\ TypeOK /\ [Next]_vars => Idle'
<1> SUFFICES ASSUME Idle, TypeOK, [Next]_vars PROVE Idle'
  OBVIOUS
<1> USE CacheAssumption DEF cluster, clients, collector, Move, Idle, TypeOK, Receipt
<1>1. ASSUME NEW c \in Submissions, Acquire(c) PROVE Idle'
  BY <1>1 DEF Acquire
<1>2. ASSUME NEW c \in Submissions, GiveUp(c) PROVE Idle'
  BY <1>2 DEF GiveUp
<1>3. ASSUME NEW c \in Submissions, Reuse(c) PROVE Idle'
  BY <1>3 DEF Reuse
<1>4. ASSUME NEW c \in Submissions, Build(c) PROVE Idle'
  BY <1>4 DEF Build
<1>5. ASSUME NEW c \in Submissions, BuildFails(c) PROVE Idle'
  BY <1>5 DEF BuildFails
<1>6. ASSUME NEW c \in Submissions, Publish(c) PROVE Idle'
  BY <1>6 DEF Publish
<1>7. ASSUME NEW c \in Submissions, Activate(c) PROVE Idle'
  BY <1>7 DEF Activate
<1>8. ASSUME NEW c \in Submissions, Unlink(c) PROVE Idle'
  BY <1>8 DEF Unlink, Leaving, Unlinked, Left
<1>9. ASSUME NEW c \in Submissions, Rmdir(c) PROVE Idle'
  BY <1>9 DEF Rmdir, Left
<1>10. ASSUME NEW c \in Submissions, ReleaseLost(c) PROVE Idle'
  BY <1>10 DEF ReleaseLost, Leaving, Left
<1>11. ASSUME NEW c \in Submissions, BeatReads(c) PROVE Idle'
  BY <1>11 DEF BeatReads
<1>12. ASSUME NEW c \in Submissions, BeatWrites(c) PROVE Idle'
  BY <1>12 DEF BeatWrites
<1>13. ASSUME NEW c \in Submissions, Prune(c) PROVE Idle'
  BY <1>13 DEF Prune
<1>14. ASSUME NEW c \in Submissions, Defer(c) PROVE Idle'
  BY <1>14 DEF Defer
<1>15. ASSUME NEW c \in Submissions, Stage(c) PROVE Idle'
  BY <1>15 DEF Stage
<1>16. ASSUME NEW c \in Submissions, Launch(c) PROVE Idle'
  BY <1>16 DEF Launch
<1>17. ASSUME NEW c \in Submissions, JobEnds(c) PROVE Idle'
  BY <1>17 DEF JobEnds
<1>18. ASSUME NEW c \in Submissions, Dies(c) PROVE Idle'
  BY <1>18 DEF Dies
<1>19. ASSUME NEW c \in Submissions, ChildEnds(c) PROVE Idle'
  BY <1>19 DEF ChildEnds
<1>20. ASSUME Collect PROVE Idle'
  BY <1>20 DEF Collect
<1>21. ASSUME NEW r \in journal, Resume(r) PROVE Idle'
  BY <1>21 DEF Resume
<1>22. ASSUME ReadPointer PROVE Idle'
  BY <1>22 DEF ReadPointer
<1>23. ASSUME ReadJobs PROVE Idle'
  BY <1>23 DEF ReadJobs
<1>24. ASSUME LookForBuilds PROVE Idle'
  BY <1>24 DEF LookForBuilds, Finished, Answered, Enter
<1>25. ASSUME NEW P \in SUBSET Items, Choose(P) PROVE Idle'
  BY <1>25 DEF Choose
<1>26. ASSUME NEW i \in Items, Journal(i) PROVE Idle'
  BY <1>26 DEF Journal
<1>27. ASSUME Rename PROVE Idle'
  BY <1>27 DEF Rename
<1>28. ASSUME Remove PROVE Idle'
  BY <1>28 DEF Remove
<1>29. ASSUME Finish PROVE Idle'
  BY <1>29 DEF Finish, Finished, Answered
<1>30. ASSUME Killed PROVE Idle'
  BY <1>30 DEF Killed, Finished, Answered
<1>31. ASSUME NEW e \in Envs, NEW E \in SUBSET Envs, FinishFails(e, E) PROVE Idle'
  BY <1>31 DEF FinishFails, Finished
<1>32. CASE UNCHANGED vars
  BY <1>32 DEF vars
<1> HIDE DEF Idle, TypeOK, Receipt, cluster, clients, collector, Move
<1>33. QED
  BY <1>1, <1>2, <1>3, <1>4, <1>5, <1>6, <1>7, <1>8, <1>9, <1>10, <1>11, <1>12, <1>13, <1>14,
     <1>15, <1>16, <1>17, <1>18, <1>19, <1>20, <1>21, <1>22, <1>23, <1>24, <1>25, <1>26, <1>27,
     <1>28, <1>29, <1>30, <1>31, <1>32 DEF Next, Prepare, CollectorStep

LEMMA UnownedKept ==
  Unowned /\ TypeOK /\ Marked /\ Fates /\ Idle /\ BuilderKeepsItsWork /\ [Next]_vars => Unowned'
<1> SUFFICES ASSUME Unowned, TypeOK, Marked, Fates, Idle, BuilderKeepsItsWork, [Next]_vars PROVE Unowned'
  OBVIOUS
<1> USE CacheAssumption DEF cluster, clients, collector, Move, Unowned, Doomed, Guards, Guarding, TypeOK
<1>1. ASSUME NEW c \in Submissions, Acquire(c) PROVE Unowned'
  BY <1>1 DEF Acquire, Idle
<1>2. ASSUME NEW c \in Submissions, GiveUp(c) PROVE Unowned'
  BY <1>2 DEF GiveUp
<1>3. ASSUME NEW c \in Submissions, Reuse(c) PROVE Unowned'
  BY <1>3 DEF Reuse
<1>4. ASSUME NEW c \in Submissions, Build(c) PROVE Unowned'
  BY <1>4 DEF Build
<1>5. ASSUME NEW c \in Submissions, BuildFails(c) PROVE Unowned'
  BY <1>5 DEF BuildFails
<1>6. ASSUME NEW c \in Submissions, Publish(c) PROVE Unowned'
  BY <1>6 DEF Publish
<1>7. ASSUME NEW c \in Submissions, Activate(c) PROVE Unowned'
  BY <1>7 DEF Activate
<1>8. ASSUME NEW c \in Submissions, Unlink(c) PROVE Unowned'
  BY <1>8 DEF Unlink, Leaving, Unlinked, Left
<1>9. ASSUME NEW c \in Submissions, Rmdir(c) PROVE Unowned'
  BY <1>9 DEF Rmdir, Left
<1>10. ASSUME NEW c \in Submissions, ReleaseLost(c) PROVE Unowned'
  BY <1>10 DEF ReleaseLost, Leaving, Left
<1>11. ASSUME NEW c \in Submissions, BeatReads(c) PROVE Unowned'
  BY <1>11 DEF BeatReads
<1>12. ASSUME NEW c \in Submissions, BeatWrites(c) PROVE Unowned'
  BY <1>12 DEF BeatWrites
<1>13. ASSUME NEW c \in Submissions, Prune(c) PROVE Unowned'
  BY <1>13 DEF Prune
<1>14. ASSUME NEW c \in Submissions, Defer(c) PROVE Unowned'
  BY <1>14 DEF Defer
<1>15. ASSUME NEW c \in Submissions, Stage(c) PROVE Unowned'
  BY <1>15 DEF Stage
<1>16. ASSUME NEW c \in Submissions, Launch(c) PROVE Unowned'
  BY <1>16 DEF Launch
<1>17. ASSUME NEW c \in Submissions, JobEnds(c) PROVE Unowned'
  BY <1>17 DEF JobEnds
<1>18. ASSUME NEW c \in Submissions, Dies(c) PROVE Unowned'
  BY <1>18 DEF Dies, BuilderKeepsItsWork, Keeps
<1>19. ASSUME NEW c \in Submissions, ChildEnds(c) PROVE Unowned'
  BY <1>19 DEF ChildEnds
<1>20. ASSUME Collect PROVE Unowned'
  BY <1>20 DEF Collect, Idle
<1>21. ASSUME NEW r \in journal, Resume(r) PROVE Unowned'
  BY <1>21 DEF Resume
<1>22. ASSUME ReadPointer PROVE Unowned'
  BY <1>22 DEF ReadPointer, Idle
<1>23. ASSUME ReadJobs PROVE Unowned'
  BY <1>23 DEF ReadJobs
<1>24. ASSUME LookForBuilds PROVE Unowned'
  BY <1>24 DEF LookForBuilds, Finished, Answered, Enter, Marked
<1>25. ASSUME NEW P \in SUBSET Items, Choose(P) PROVE Unowned'
  BY <1>25 DEF Choose, Marked, Fates, Idle, Orphaned, Unused
<1>26. ASSUME NEW i \in Items, Journal(i) PROVE Unowned'
  BY <1>26 DEF Journal, Items
<1>27. ASSUME Rename PROVE Unowned'
  BY <1>27 DEF Rename
<1>28. ASSUME Remove PROVE Unowned'
  BY <1>28 DEF Remove
<1>29. ASSUME Finish PROVE Unowned'
  BY <1>29 DEF Finish, Finished, Answered
<1>30. ASSUME Killed PROVE Unowned'
  BY <1>30 DEF Killed, Finished, Answered
<1>31. ASSUME NEW e \in Envs, NEW E \in SUBSET Envs, FinishFails(e, E) PROVE Unowned'
  BY <1>31 DEF FinishFails, Finished
<1>32. CASE UNCHANGED vars
  BY <1>32 DEF vars
<1> HIDE DEF Unowned, Doomed, Guards, Guarding, TypeOK, cluster, clients, collector, Move
<1>33. QED
  BY <1>1, <1>2, <1>3, <1>4, <1>5, <1>6, <1>7, <1>8, <1>9, <1>10, <1>11, <1>12, <1>13, <1>14,
     <1>15, <1>16, <1>17, <1>18, <1>19, <1>20, <1>21, <1>22, <1>23, <1>24, <1>25, <1>26, <1>27,
     <1>28, <1>29, <1>30, <1>31, <1>32 DEF Next, Prepare, CollectorStep

LEMMA WorkKept ==
  BuilderKeepsItsWork /\ TypeOK /\ Fates /\ Unowned /\ [Next]_vars => BuilderKeepsItsWork'
<1> SUFFICES ASSUME BuilderKeepsItsWork, TypeOK, Fates, Unowned, [Next]_vars PROVE BuilderKeepsItsWork'
  OBVIOUS
<1> USE CacheAssumption DEF cluster, clients, collector, Move, BuilderKeepsItsWork, Keeps, TypeOK, Fates
<1>1. ASSUME NEW c \in Submissions, Acquire(c) PROVE BuilderKeepsItsWork'
  BY <1>1 DEF Acquire
<1>2. ASSUME NEW c \in Submissions, GiveUp(c) PROVE BuilderKeepsItsWork'
  BY <1>2 DEF GiveUp
<1>3. ASSUME NEW c \in Submissions, Reuse(c) PROVE BuilderKeepsItsWork'
  BY <1>3 DEF Reuse
<1>4. ASSUME NEW c \in Submissions, Build(c) PROVE BuilderKeepsItsWork'
  BY <1>4 DEF Build
<1>5. ASSUME NEW c \in Submissions, BuildFails(c) PROVE BuilderKeepsItsWork'
  BY <1>5 DEF BuildFails
<1>6. ASSUME NEW c \in Submissions, Publish(c) PROVE BuilderKeepsItsWork'
  BY <1>6 DEF Publish
<1>7. ASSUME NEW c \in Submissions, Activate(c) PROVE BuilderKeepsItsWork'
  BY <1>7 DEF Activate
<1>8. ASSUME NEW c \in Submissions, Unlink(c) PROVE BuilderKeepsItsWork'
  BY <1>8 DEF Unlink, Leaving, Unlinked, Left
<1>9. ASSUME NEW c \in Submissions, Rmdir(c) PROVE BuilderKeepsItsWork'
  BY <1>9 DEF Rmdir, Left
<1>10. ASSUME NEW c \in Submissions, ReleaseLost(c) PROVE BuilderKeepsItsWork'
  BY <1>10 DEF ReleaseLost, Leaving, Left
<1>11. ASSUME NEW c \in Submissions, BeatReads(c) PROVE BuilderKeepsItsWork'
  BY <1>11 DEF BeatReads
<1>12. ASSUME NEW c \in Submissions, BeatWrites(c) PROVE BuilderKeepsItsWork'
  BY <1>12 DEF BeatWrites
<1>13. ASSUME NEW c \in Submissions, Prune(c) PROVE BuilderKeepsItsWork'
  BY <1>13 DEF Prune
<1>14. ASSUME NEW c \in Submissions, Defer(c) PROVE BuilderKeepsItsWork'
  BY <1>14 DEF Defer
<1>15. ASSUME NEW c \in Submissions, Stage(c) PROVE BuilderKeepsItsWork'
  BY <1>15 DEF Stage
<1>16. ASSUME NEW c \in Submissions, Launch(c) PROVE BuilderKeepsItsWork'
  BY <1>16 DEF Launch
<1>17. ASSUME NEW c \in Submissions, JobEnds(c) PROVE BuilderKeepsItsWork'
  BY <1>17 DEF JobEnds
<1>18. ASSUME NEW c \in Submissions, Dies(c) PROVE BuilderKeepsItsWork'
  BY <1>18 DEF Dies
<1>19. ASSUME NEW c \in Submissions, ChildEnds(c) PROVE BuilderKeepsItsWork'
  BY <1>19 DEF ChildEnds
<1>20. ASSUME Collect PROVE BuilderKeepsItsWork'
  BY <1>20 DEF Collect
<1>21. ASSUME NEW r \in journal, Resume(r) PROVE BuilderKeepsItsWork'
  BY <1>21 DEF Resume
<1>22. ASSUME ReadPointer PROVE BuilderKeepsItsWork'
  BY <1>22 DEF ReadPointer
<1>23. ASSUME ReadJobs PROVE BuilderKeepsItsWork'
  BY <1>23 DEF ReadJobs
<1>24. ASSUME LookForBuilds PROVE BuilderKeepsItsWork'
  BY <1>24 DEF LookForBuilds, Finished, Answered, Enter
<1>25. ASSUME NEW P \in SUBSET Items, Choose(P) PROVE BuilderKeepsItsWork'
  BY <1>25 DEF Choose
<1>26. ASSUME NEW i \in Items, Journal(i) PROVE BuilderKeepsItsWork'
  BY <1>26 DEF Journal
<1>27. ASSUME Rename PROVE BuilderKeepsItsWork'
  BY <1>27 DEF Rename, Unowned, Doomed, Guards, Guarding
<1>28. ASSUME Remove PROVE BuilderKeepsItsWork'
  BY <1>28 DEF Remove
<1>29. ASSUME Finish PROVE BuilderKeepsItsWork'
  BY <1>29 DEF Finish, Finished, Answered
<1>30. ASSUME Killed PROVE BuilderKeepsItsWork'
  BY <1>30 DEF Killed, Finished, Answered
<1>31. ASSUME NEW e \in Envs, NEW E \in SUBSET Envs, FinishFails(e, E) PROVE BuilderKeepsItsWork'
  BY <1>31 DEF FinishFails, Finished
<1>32. CASE UNCHANGED vars
  BY <1>32 DEF vars
<1> HIDE DEF BuilderKeepsItsWork, Keeps, TypeOK, Fates, cluster, clients, collector, Move
<1>33. QED
  BY <1>1, <1>2, <1>3, <1>4, <1>5, <1>6, <1>7, <1>8, <1>9, <1>10, <1>11, <1>12, <1>13, <1>14,
     <1>15, <1>16, <1>17, <1>18, <1>19, <1>20, <1>21, <1>22, <1>23, <1>24, <1>25, <1>26, <1>27,
     <1>28, <1>29, <1>30, <1>31, <1>32 DEF Next, Prepare, CollectorStep

LEMMA KeptGoesOn ==
  Kept /\ TypeOK /\ Idle /\ [Next]_vars => Kept'
<1> SUFFICES ASSUME Kept, TypeOK, Idle, [Next]_vars PROVE Kept'
  OBVIOUS
<1> USE CacheAssumption DEF cluster, clients, collector, Move, Kept, Live, TypeOK, Doomed
<1>1. ASSUME NEW c \in Submissions, Acquire(c) PROVE Kept'
  BY <1>1 DEF Acquire
<1>2. ASSUME NEW c \in Submissions, GiveUp(c) PROVE Kept'
  BY <1>2 DEF GiveUp
<1>3. ASSUME NEW c \in Submissions, Reuse(c) PROVE Kept'
  BY <1>3 DEF Reuse
<1>4. ASSUME NEW c \in Submissions, Build(c) PROVE Kept'
  BY <1>4 DEF Build
<1>5. ASSUME NEW c \in Submissions, BuildFails(c) PROVE Kept'
  BY <1>5 DEF BuildFails
<1>6. ASSUME NEW c \in Submissions, Publish(c) PROVE Kept'
  BY <1>6 DEF Publish
<1>7. ASSUME NEW c \in Submissions, Activate(c) PROVE Kept'
  BY <1>7 DEF Activate
<1>8. ASSUME NEW c \in Submissions, Unlink(c) PROVE Kept'
  BY <1>8 DEF Unlink, Leaving, Unlinked, Left
<1>9. ASSUME NEW c \in Submissions, Rmdir(c) PROVE Kept'
  BY <1>9 DEF Rmdir, Left
<1>10. ASSUME NEW c \in Submissions, ReleaseLost(c) PROVE Kept'
  BY <1>10 DEF ReleaseLost, Leaving, Left
<1>11. ASSUME NEW c \in Submissions, BeatReads(c) PROVE Kept'
  BY <1>11 DEF BeatReads
<1>12. ASSUME NEW c \in Submissions, BeatWrites(c) PROVE Kept'
  BY <1>12 DEF BeatWrites
<1>13. ASSUME NEW c \in Submissions, Prune(c) PROVE Kept'
  BY <1>13 DEF Prune
<1>14. ASSUME NEW c \in Submissions, Defer(c) PROVE Kept'
  BY <1>14 DEF Defer
<1>15. ASSUME NEW c \in Submissions, Stage(c) PROVE Kept'
  BY <1>15 DEF Stage
<1>16. ASSUME NEW c \in Submissions, Launch(c) PROVE Kept'
  BY <1>16 DEF Launch
<1>17. ASSUME NEW c \in Submissions, JobEnds(c) PROVE Kept'
  BY <1>17 DEF JobEnds
<1>18. ASSUME NEW c \in Submissions, Dies(c) PROVE Kept'
  BY <1>18 DEF Dies
<1>19. ASSUME NEW c \in Submissions, ChildEnds(c) PROVE Kept'
  BY <1>19 DEF ChildEnds
<1>20. ASSUME Collect PROVE Kept'
  BY <1>20 DEF Collect
<1>21. ASSUME NEW r \in journal, Resume(r) PROVE Kept'
  BY <1>21 DEF Resume
<1>22. ASSUME ReadPointer PROVE Kept'
  BY <1>22 DEF ReadPointer
<1>23. ASSUME ReadJobs PROVE Kept'
  BY <1>23 DEF ReadJobs, Referred, Items
<1>24. ASSUME LookForBuilds PROVE Kept'
  BY <1>24 DEF LookForBuilds, Finished, Answered, Enter
<1>25. ASSUME NEW P \in SUBSET Items, Choose(P) PROVE Kept'
  BY <1>25 DEF Choose, Idle
<1>26. ASSUME NEW i \in Items, Journal(i) PROVE Kept'
  BY <1>26 DEF Journal
<1>27. ASSUME Rename PROVE Kept'
  BY <1>27 DEF Rename
<1>28. ASSUME Remove PROVE Kept'
  BY <1>28 DEF Remove
<1>29. ASSUME Finish PROVE Kept'
  BY <1>29 DEF Finish, Finished, Answered
<1>30. ASSUME Killed PROVE Kept'
  BY <1>30 DEF Killed, Finished, Answered
<1>31. ASSUME NEW e \in Envs, NEW E \in SUBSET Envs, FinishFails(e, E) PROVE Kept'
  BY <1>31 DEF FinishFails, Finished
<1>32. CASE UNCHANGED vars
  BY <1>32 DEF vars
<1> HIDE DEF Kept, Live, TypeOK, Doomed, cluster, clients, collector, Move
<1>33. QED
  BY <1>1, <1>2, <1>3, <1>4, <1>5, <1>6, <1>7, <1>8, <1>9, <1>10, <1>11, <1>12, <1>13, <1>14,
     <1>15, <1>16, <1>17, <1>18, <1>19, <1>20, <1>21, <1>22, <1>23, <1>24, <1>25, <1>26, <1>27,
     <1>28, <1>29, <1>30, <1>31, <1>32 DEF Next, Prepare, CollectorStep

-------------------------------------------------------------------------------

\* The inductive invariant: until a late heartbeat overwrites it, a marker
\* names whoever works under it, and nothing that such a submission, an
\* installer or a Job found at the beginning needs is chosen.
THEOREM Invariance == Spec => []IInv
<1>1. IInv /\ [Next]_vars => IInv'
  BY TypeKept, MarkedKept, FatesKept, IdleKept, UnownedKept, WorkKept, KeptGoesOn DEF IInv
<1>2. QED
  BY <1>1, Initial, PTL DEF Spec

\* The prefixes, markers, receipts and submissions keep their types, and no
\* renamed tree is without its receipt (StorageOperations._delete_cache_entry).
THEOREM TypeCorrect == Spec => []TypeOK
<1>1. IInv => TypeOK
  BY DEF IInv
<1>2. QED
  BY <1>1, Invariance, PTL

\* No collector deletes what is being built, what the installer of a lost
\* controller still writes or what is verified under a marker, whoever ends
\* when, as long as no late heartbeat has put another name into that marker
\* (StorageOperations._orphan_lease, CacheBuildLease.acquire).
THEOREM KeepsWork == Spec => []BuilderKeepsItsWork
<1>1. IInv => BuilderKeepsItsWork
  BY DEF IInv
<1>2. QED
  BY <1>1, Invariance, PTL

\* No collection deletes the environment of a Job that it found and that has
\* not ended (StorageOperations._active_environment_references).
THEOREM KeepsSeen == Spec => SeenJobsKeepTheirs
<1>1. IInv /\ [Next]_vars => [\A c \in seen : EnvOf[c] \in prefix => EnvOf[c] \in prefix']_vars
  <2> SUFFICES ASSUME IInv, [Next]_vars,
                      NEW c \in seen, EnvOf[c] \in prefix, EnvOf[c] \notin prefix'
               PROVE  FALSE
    OBVIOUS
  <2> USE DEF cluster, clients, collector
  <2>1. CASE \E d \in Submissions : Acquire(d)
    BY <2>1 DEF Acquire
  <2>2. CASE \E d \in Submissions : GiveUp(d)
    BY <2>2 DEF GiveUp
  <2>3. CASE \E d \in Submissions : Reuse(d)
    BY <2>3 DEF Reuse
  <2>4. CASE \E d \in Submissions : Build(d)
    BY <2>4 DEF Build
  <2>5. CASE \E d \in Submissions : BuildFails(d)
    BY <2>5 DEF BuildFails
  <2>6. CASE \E d \in Submissions : Publish(d)
    BY <2>6 DEF Publish, Finished, Enter
  <2>7. CASE \E d \in Submissions : Activate(d)
    BY <2>7 DEF Activate, Finished, Enter
  <2>8. CASE \E d \in Submissions : Unlink(d)
    BY <2>8 DEF Unlink
  <2>9. CASE \E d \in Submissions : Rmdir(d)
    BY <2>9 DEF Rmdir
  <2>10. CASE \E d \in Submissions : ReleaseLost(d)
    BY <2>10 DEF ReleaseLost
  <2>11. CASE \E d \in Submissions : BeatReads(d)
    BY <2>11 DEF BeatReads
  <2>12. CASE \E d \in Submissions : BeatWrites(d)
    BY <2>12 DEF BeatWrites
  <2>13. CASE \E d \in Submissions : Prune(d)
    BY <2>13 DEF Prune
  <2>14. CASE \E d \in Submissions : Defer(d)
    BY <2>14 DEF Defer
  <2>15. CASE \E d \in Submissions : Stage(d)
    BY <2>15 DEF Stage
  <2>16. CASE \E d \in Submissions : Launch(d)
    BY <2>16 DEF Launch
  <2>17. CASE \E d \in Submissions : JobEnds(d)
    BY <2>17 DEF JobEnds
  <2>18. CASE \E d \in Submissions : Dies(d)
    BY <2>18 DEF Dies
  <2>19. CASE \E d \in Submissions : ChildEnds(d)
    BY <2>19 DEF ChildEnds
  <2>20. CASE Collect
    BY <2>20 DEF Collect, Finished, Enter
  <2>21. CASE \E r \in journal : Resume(r)
    BY <2>21 DEF Resume
  <2>22. CASE ReadPointer
    BY <2>22 DEF ReadPointer
  <2>23. CASE ReadJobs
    BY <2>23 DEF ReadJobs
  <2>24. CASE LookForBuilds
    BY <2>24 DEF LookForBuilds, Finished, Enter
  <2>25. CASE \E P \in SUBSET Items : Choose(P)
    BY <2>25 DEF Choose, Finished, Enter
  <2>26. CASE \E i \in Items : Journal(i)
    BY <2>26 DEF Journal
  <2>27. CASE Rename
    BY <2>27 DEF Rename, IInv, Kept, Doomed, Idle
  <2>28. CASE Remove
    BY <2>28 DEF Remove
  <2>29. CASE Finish
    BY <2>29 DEF Finish, Finished, Enter
  <2>30. CASE Killed
    BY <2>30 DEF Killed, Finished, Enter
  <2>31. CASE \E e \in Envs, E \in SUBSET Envs : FinishFails(e, E)
    BY <2>31 DEF FinishFails
  <2>32. CASE UNCHANGED vars
    BY <2>32 DEF vars
  <2>33. QED
    BY <2>1, <2>2, <2>3, <2>4, <2>5, <2>6, <2>7, <2>8, <2>9, <2>10, <2>11, <2>12, <2>13, <2>14,
       <2>15, <2>16, <2>17, <2>18, <2>19, <2>20, <2>21, <2>22, <2>23, <2>24, <2>25, <2>26,
       <2>27, <2>28, <2>29, <2>30, <2>31, <2>32 DEF Next, Prepare, CollectorStep
<1>2. QED
  BY <1>1, Invariance, PTL DEF Spec, SeenJobsKeepTheirs

-------------------------------------------------------------------------------
\* While a collector is at work, the pointer names this environment.
ActiveStays(e) == at # "idle" => active = e

\* From its verification to the start of its supervisor a submission needs
\* the prefix.
Expecting == {"verified", "leaving", "unlinked", "prune", "pruning", "ready", "staged"}
Expected(e) == \E c \in Submissions : EnvOf[c] = e /\ step[c] \in Expecting

\* What LaunchFindsEnvironment says, of one environment.
EnvironmentIsFound(e) == Expected(e) => e \in prefix

\* The environment the collector read in the pointer is kept and not chosen.
Spared(e) ==
  /\ at \in {"jobs", "plan"} => e \in keep
  /\ at = "delete" => e \notin Doomed

LEMMA SparedStep ==
  ASSUME NEW e \in Envs, IInv, Spared(e), EnvironmentIsFound(e), ActiveStays(e), [Next]_vars
  PROVE  (Spared(e) /\ EnvironmentIsFound(e))'
<1> USE CacheAssumption
    DEF cluster, clients, collector, Move, IInv, TypeOK, Doomed, Idle, Spared,
        EnvironmentIsFound, Expected, Expecting, ActiveStays
<1>1. ASSUME NEW c \in Submissions, Acquire(c) PROVE (Spared(e) /\ EnvironmentIsFound(e))'
  BY <1>1 DEF Acquire
<1>2. ASSUME NEW c \in Submissions, GiveUp(c) PROVE (Spared(e) /\ EnvironmentIsFound(e))'
  BY <1>2 DEF GiveUp
<1>3. ASSUME NEW c \in Submissions, Reuse(c) PROVE (Spared(e) /\ EnvironmentIsFound(e))'
  BY <1>3 DEF Reuse
<1>4. ASSUME NEW c \in Submissions, Build(c) PROVE (Spared(e) /\ EnvironmentIsFound(e))'
  BY <1>4 DEF Build
<1>5. ASSUME NEW c \in Submissions, BuildFails(c) PROVE (Spared(e) /\ EnvironmentIsFound(e))'
  BY <1>5 DEF BuildFails
<1>6. ASSUME NEW c \in Submissions, Publish(c) PROVE (Spared(e) /\ EnvironmentIsFound(e))'
  BY <1>6 DEF Publish, Steps
<1>7. ASSUME NEW c \in Submissions, Activate(c) PROVE (Spared(e) /\ EnvironmentIsFound(e))'
  BY <1>7 DEF Activate
<1>8. ASSUME NEW c \in Submissions, Unlink(c) PROVE (Spared(e) /\ EnvironmentIsFound(e))'
  BY <1>8 DEF Unlink, Leaving, Unlinked, Left
<1>9. ASSUME NEW c \in Submissions, Rmdir(c) PROVE (Spared(e) /\ EnvironmentIsFound(e))'
  BY <1>9 DEF Rmdir, Left
<1>10. ASSUME NEW c \in Submissions, ReleaseLost(c) PROVE (Spared(e) /\ EnvironmentIsFound(e))'
  BY <1>10 DEF ReleaseLost, Leaving, Left
<1>11. ASSUME NEW c \in Submissions, BeatReads(c) PROVE (Spared(e) /\ EnvironmentIsFound(e))'
  BY <1>11 DEF BeatReads
<1>12. ASSUME NEW c \in Submissions, BeatWrites(c) PROVE (Spared(e) /\ EnvironmentIsFound(e))'
  BY <1>12 DEF BeatWrites
<1>13. ASSUME NEW c \in Submissions, Prune(c) PROVE (Spared(e) /\ EnvironmentIsFound(e))'
  BY <1>13 DEF Prune
<1>14. ASSUME NEW c \in Submissions, Defer(c) PROVE (Spared(e) /\ EnvironmentIsFound(e))'
  BY <1>14 DEF Defer
<1>15. ASSUME NEW c \in Submissions, Stage(c) PROVE (Spared(e) /\ EnvironmentIsFound(e))'
  BY <1>15 DEF Stage
<1>16. ASSUME NEW c \in Submissions, Launch(c) PROVE (Spared(e) /\ EnvironmentIsFound(e))'
  BY <1>16 DEF Launch
<1>17. ASSUME NEW c \in Submissions, JobEnds(c) PROVE (Spared(e) /\ EnvironmentIsFound(e))'
  BY <1>17 DEF JobEnds
<1>18. ASSUME NEW c \in Submissions, Dies(c) PROVE (Spared(e) /\ EnvironmentIsFound(e))'
  BY <1>18 DEF Dies
<1>19. ASSUME NEW c \in Submissions, ChildEnds(c) PROVE (Spared(e) /\ EnvironmentIsFound(e))'
  BY <1>19 DEF ChildEnds
<1>20. ASSUME Collect PROVE (Spared(e) /\ EnvironmentIsFound(e))'
  BY <1>20 DEF Collect
<1>21. ASSUME NEW r \in journal, Resume(r) PROVE (Spared(e) /\ EnvironmentIsFound(e))'
  BY <1>21 DEF Resume
<1>22. ASSUME ReadPointer PROVE (Spared(e) /\ EnvironmentIsFound(e))'
  BY <1>22 DEF ReadPointer
<1>23. ASSUME ReadJobs PROVE (Spared(e) /\ EnvironmentIsFound(e))'
  BY <1>23 DEF ReadJobs
<1>24. ASSUME LookForBuilds PROVE (Spared(e) /\ EnvironmentIsFound(e))'
  BY <1>24 DEF LookForBuilds, Finished, Answered, Enter
<1>25. ASSUME NEW P \in SUBSET Items, Choose(P) PROVE (Spared(e) /\ EnvironmentIsFound(e))'
  BY <1>25 DEF Choose, Items
<1>26. ASSUME NEW i \in Items, Journal(i) PROVE (Spared(e) /\ EnvironmentIsFound(e))'
  BY <1>26 DEF Journal
<1>27. ASSUME Rename PROVE (Spared(e) /\ EnvironmentIsFound(e))'
  BY <1>27 DEF Rename, Present
<1>28. ASSUME Remove PROVE (Spared(e) /\ EnvironmentIsFound(e))'
  BY <1>28 DEF Remove
<1>29. ASSUME Finish PROVE (Spared(e) /\ EnvironmentIsFound(e))'
  BY <1>29 DEF Finish, Finished, Answered
<1>30. ASSUME Killed PROVE (Spared(e) /\ EnvironmentIsFound(e))'
  BY <1>30 DEF Killed, Finished, Answered
<1>31. ASSUME NEW f \in Envs, NEW E \in SUBSET Envs, FinishFails(f, E) PROVE (Spared(e) /\ EnvironmentIsFound(e))'
  BY <1>31 DEF FinishFails, Finished
<1>32. CASE UNCHANGED vars
  BY <1>32 DEF vars
<1> HIDE DEF Idle, Expected, Expecting, Spared, EnvironmentIsFound, ActiveStays, IInv, TypeOK, Doomed, cluster, clients, collector, Move
<1>33. QED
  BY <1>1, <1>2, <1>3, <1>4, <1>5, <1>6, <1>7, <1>8, <1>9, <1>10, <1>11, <1>12, <1>13, <1>14, <1>15, <1>16, <1>17, <1>18, <1>19, <1>20, <1>21, <1>22, <1>23, <1>24, <1>25, <1>26, <1>27, <1>28, <1>29, <1>30, <1>31, <1>32 DEF Next, Prepare, CollectorStep

\* Under which condition a submission finds what it verified, which nothing
\* but the pointer protects after its marker is released: every collector
\* reads this environment in the pointer (ControlPlane.submit,
\* StorageOperations.collect_storage).
THEOREM ActiveIsFound ==
  ASSUME NEW e \in Envs
  PROVE  Spec /\ []ActiveStays(e) => []EnvironmentIsFound(e)
<1>1. Init => Spared(e) /\ EnvironmentIsFound(e)
  BY DEF Init, Spared, EnvironmentIsFound, Expected, Expecting
<1>2. IInv /\ ActiveStays(e) /\ Spared(e) /\ EnvironmentIsFound(e) /\ [Next]_vars
        => (Spared(e) /\ EnvironmentIsFound(e))'
  BY SparedStep
<1>3. QED
  BY <1>1, <1>2, Invariance, PTL DEF Spec
===============================================================================
