-------------------------- MODULE MCMemberAllocation --------------------------
(***************************************************************************)
(* Small allocations: wave 1 carries two Runs, wave 2 a third one, wave 3  *)
(* repeats a Run of wave 1 and wave 4 is a retry.                          *)
(***************************************************************************)
EXTENDS MemberAllocation

Lease(w, r) == <<w, r>>
AllLeases == {Lease(1, "a"), Lease(1, "b"), Lease(2, "c"), Lease(3, "a"), Lease(4, "b")}
OfWaves(W) == {l \in AllLeases : l[1] \in W}

TwoWaves == 1..2
FourWaves == 1..4
LeasesOfTwo == OfWaves(TwoWaves)
LeasesOfFour == OfWaves(FourWaves)
FirstOf == [l \in OfWaves(Waves) |-> l[1]]
SecondOf == [l \in OfWaves(Waves) |-> l[2]]
OnlyA == {Lease(1, "a")}
===============================================================================
