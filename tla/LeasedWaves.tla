------------------------------ MODULE LeasedWaves ------------------------------
(***************************************************************************)
(* What an executor promises the coordinator of a Study about the waves it *)
(* is sent: a wave is taken or refused once, what was refused never runs,  *)
(* a logical Run starts once in whatever wave brings it, and a result is   *)
(* final.  MemberAllocation implements this specification.                 *)
(***************************************************************************)
EXTENDS Naturals

CONSTANTS Waves, Leases, WaveOf, RunOf

VARIABLES answer,   \* of each wave: "none", "taken" or "refused"
          life      \* of each lease: "idle", "running", "ended", "stored" or "lost"

vars == <<answer, life>>

Started(l) == life[l] # "idle"

Init ==
  /\ answer = [w \in Waves |-> "none"]
  /\ life = [l \in Leases |-> "idle"]

Decide(w) ==
  /\ answer[w] = "none"
  /\ \E a \in {"taken", "refused"} : answer' = [answer EXCEPT ![w] = a]
  /\ UNCHANGED life

Start(l) ==
  /\ answer[WaveOf[l]] = "taken"
  /\ \A k \in Leases : RunOf[k] = RunOf[l] => ~Started(k)
  /\ life' = [life EXCEPT ![l] = "running"]
  /\ UNCHANGED answer

End(l) ==
  /\ life[l] = "running"
  /\ life' = [life EXCEPT ![l] = "ended"]
  /\ UNCHANGED answer

Store(l) ==
  /\ life[l] = "ended"
  /\ life' = [life EXCEPT ![l] = "stored"]
  /\ UNCHANGED answer

\* The owner dies, and with it what had not been stored.
Lose ==
  /\ life' = [l \in Leases |-> IF life[l] \in {"running", "ended"} THEN "lost" ELSE life[l]]
  /\ UNCHANGED answer

Next ==
  \/ \E w \in Waves : Decide(w)
  \/ \E l \in Leases : Start(l) \/ End(l) \/ Store(l)
  \/ Lose

Spec == Init /\ [][Next]_vars
================================================================================
