--------------------------- MODULE MCStudyCoordinator ---------------------------
(***************************************************************************)
(* Small instances of StudyCoordinator for TLC.  Clusters are the strings  *)
(* "a" and "b" so that their capacities can differ.                        *)
(***************************************************************************)
EXTENDS StudyCoordinator

PerCluster(a, b) == [c \in Clusters |-> IF c = "a" THEN a ELSE b]

OneAndTwo == PerCluster(1, 2)
TwoAndOne == PerCluster(2, 1)
Ones == PerCluster(1, 1)
Twos == PerCluster(2, 2)
Everywhere == [r \in Runs |-> Clusters]
=============================================================================
