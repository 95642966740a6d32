--------------------------- MODULE StorageAdmission ---------------------------
(***************************************************************************)
(* Promises of disk space on one volume of one host                        *)
(* (controlplane/StorageAdmission.py).  A client that wants space takes    *)
(* the lock of the volume, adds up the leases of living owners, deletes    *)
(* those of dead ones, reads the free space and leaves a lease of its own  *)
(* if the safety margin survives.  Who uses space without a lease does not *)
(* ask.  Three kinds of clients: jobs (a supervisor asks for its child),   *)
(* workers (they ask for themselves) and copies (they do not wait).        *)
(*                                                                         *)
(* A byte is a unit; client ids are never used twice.                      *)
(***************************************************************************)
EXTENDS Integers, FiniteSets

CONSTANTS
  Jobs, Workers, Copies,
  Largest,     \* bound: the largest request
  Requested,   \* of each client: requested_bytes
  Unreadable,  \* clients whose process the others may not inspect
  Safety,      \* safety_bytes of the volume
  Free,        \* free space at first
  Cached,      \* what garbage collection can free
  Unmanaged,   \* bound: bytes users without a lease take
  None

Clients == Jobs \union Workers \union Copies

ASSUME StorageAssumption ==
  /\ IsFiniteSet(Clients) /\ None \notin Clients
  /\ Largest \in Nat /\ Requested \in [Clients -> 0..Largest]
  /\ Safety \in Nat /\ Free \in Nat /\ Cached \in Nat /\ Unmanaged \in Nat

VARIABLES
  free, cached,     \* the volume
  lease,            \* owners of the lease files
  step,             \* where each client is
  owner,            \* is the process in the lease alive?
  retried,          \* copies that had a garbage collection
  written,          \* units each client has written
  lock,             \* who holds the lock of the volume
  todo, counted,    \* leases its holder has still to read, has added up
  measured,         \* the observation it decides on
  loose, spent      \* see LooseSpace; bytes taken by unmanaged users

volume == <<free, cached, spent>>
scan == <<lock, todo, counted, measured>>
vars == <<volume, lease, step, owner, retried, written, scan, loose>>

Waiting == {"ask", "scan", "publish", "refused"}
Steps == Waiting \union {"idle", "work", "release", "leaving", "orphan", "done", "failed", "dead"}

Init ==
  /\ free = Free /\ cached = Cached /\ spent = 0
  /\ lease = {} /\ step = [c \in Clients |-> "idle"] /\ owner = [c \in Clients |-> "alive"]
  /\ retried = {} /\ written = [c \in Clients |-> 0]
  /\ lock = None /\ todo = {} /\ counted = {} /\ measured = [free |-> 0, loose |-> 0]
  /\ loose = 0

\* The units promised to the clients of S, and those of them not yet written.
Promised(S) == {u \in S \X (1..Largest) : u[2] <= Requested[u[1]]}
Owed(S) == {u \in Promised(S) : u[2] > written[u[1]]}

\* What if a lease whose owner cannot be inspected were an orphan's?
StatusReadable(c) == IF c \in Unreadable THEN "dead" ELSE owner[c]
\* What if only a reused process id proved a death?
StatusTrusting(c) == "alive"
\* ProcessIdentity.storage_status; a reused pid says as much as a dead one.
Status(c) ==
  IF owner[c] = "alive" /\ c \in Unreadable THEN "unresolved" ELSE owner[c]

\* A refusal: jobs and workers ask again, a copy raises.
RefusedAs(c, reason) ==
  IF c \in Copies /\ (reason = "ownership" \/ c \in retried) THEN "failed" ELSE "refused"

Unlocked == lock' = None /\ UNCHANGED <<todo, counted>>

-----------------------------------------------------------------------------
(* A reservation, under the lock of the volume.                            *)

Arrive(c) ==
  /\ step[c] = "idle"
  /\ step' = [step EXCEPT ![c] = "ask"]
  /\ UNCHANGED <<volume, lease, owner, retried, written, scan, loose>>

Lock(c) ==
  /\ step[c] = "ask" /\ lock = None
  /\ lock' = c /\ todo' = lease /\ counted' = {}
  /\ step' = [step EXCEPT ![c] = "scan"]
  /\ UNCHANGED <<volume, lease, owner, retried, written, measured, loose>>

\* Who waits asks again after storage-lease-busy, a copy raises.
Busy(c) ==
  /\ c \in Copies /\ step[c] = "ask" /\ lock # None
  /\ step' = [step EXCEPT ![c] = RefusedAs(c, "ownership")]
  /\ UNCHANGED <<volume, lease, owner, retried, written, scan, loose>>

Look(c, d) ==
  /\ lock = c /\ step[c] = "scan" /\ d \in todo
  /\ CASE Status(d) = "dead" ->
            /\ lease' = lease \ {d} /\ todo' = todo \ {d}
            /\ UNCHANGED <<step, lock, counted>>
       [] Status(d) = "unresolved" ->
            /\ step' = [step EXCEPT ![c] = RefusedAs(c, "ownership")]
            /\ Unlocked /\ UNCHANGED lease
       [] OTHER ->
            /\ counted' = counted \union {d} /\ todo' = todo \ {d}
            /\ UNCHANGED <<lease, step, lock>>
  /\ UNCHANGED <<volume, owner, retried, written, measured, loose>>

Measure(c) ==
  /\ lock = c /\ step[c] = "scan" /\ todo = {}
  /\ measured' = [free |-> free, loose |-> loose]
  /\ step' = [step EXCEPT ![c] = "publish"]
  /\ UNCHANGED <<volume, lease, owner, retried, written, lock, todo, counted, loose>>

\* What if the free space alone decided?
AdmissibleByNeed(c) == measured.free - Requested[c] >= Safety
Admissible(c) == measured.free - Cardinality(Promised(counted)) - Requested[c] >= Safety

Publish(c) ==
  /\ lock = c /\ step[c] = "publish"
  /\ IF Admissible(c)
       THEN /\ lease' = lease \union {c} /\ step' = [step EXCEPT ![c] = "work"]
            /\ loose' = loose - measured.loose
       ELSE /\ step' = [step EXCEPT ![c] = RefusedAs(c, "space")]
            /\ UNCHANGED <<lease, loose>>
  /\ Unlocked /\ UNCHANGED <<volume, owner, retried, written, measured>>

\* Garbage collection frees something, or nothing, and the client asks again.
Collect(c, n) ==
  /\ step[c] = "refused" /\ n \in 0..cached
  /\ free' = free + n /\ cached' = cached - n
  /\ retried' = IF c \in Copies THEN retried \union {c} ELSE retried
  /\ step' = [step EXCEPT ![c] = "ask"]
  /\ UNCHANGED <<spent, lease, owner, written, scan, loose>>

Cancel(c) ==
  /\ c \in Jobs /\ step[c] = "ask"
  /\ step' = [step EXCEPT ![c] = "done"]
  /\ UNCHANGED <<volume, lease, owner, retried, written, scan, loose>>

-----------------------------------------------------------------------------
(* The space is used, and the promise ends.                                *)

\* What a client without a lease writes was promised by nobody.
Write(c) ==
  /\ step[c] \in {"work", "orphan"} /\ written[c] < Requested[c] /\ free > 0
  /\ free' = free - 1 /\ written' = [written EXCEPT ![c] = @ + 1]
  /\ loose' = IF c \in lease THEN loose ELSE loose + 1
  /\ UNCHANGED <<cached, spent, lease, step, owner, retried, scan>>

End(c) ==
  /\ step[c] = "work"
  /\ step' = [step EXCEPT ![c] = "release"]
  /\ UNCHANGED <<volume, lease, owner, retried, written, scan, loose>>

Release(c) ==
  /\ step[c] = "release" /\ lock = None
  /\ lease' = lease \ {c} /\ step' = [step EXCEPT ![c] = "done"]
  /\ UNCHANGED <<volume, owner, retried, written, scan, loose>>

\* The lock was not free for ten seconds; the lease lives as long as its owner.
ReleaseTimesOut(c) ==
  /\ step[c] = "release" /\ lock # None
  /\ step' = [step EXCEPT ![c] = "leaving"]
  /\ UNCHANGED <<volume, lease, owner, retried, written, scan, loose>>

\* An owner is killed, at any time; the child of a job goes on.
Dies(c) ==
  /\ step[c] \notin {"idle", "done", "failed", "orphan", "dead"}
  /\ owner' = [owner EXCEPT ![c] = "dead"]
  /\ step' = [step EXCEPT ![c] = IF c \in Jobs /\ step[c] = "work" THEN "orphan" ELSE "dead"]
  /\ lock' = IF lock = c THEN None ELSE lock
  /\ UNCHANGED <<volume, lease, retried, written, todo, counted, measured, loose>>

OrphanEnds(c) ==
  /\ step[c] = "orphan"
  /\ step' = [step EXCEPT ![c] = "dead"]
  /\ UNCHANGED <<volume, lease, owner, retried, written, scan, loose>>

Spend ==
  /\ spent < Unmanaged /\ free > 0
  /\ free' = free - 1 /\ spent' = spent + 1 /\ loose' = loose + 1
  /\ UNCHANGED <<cached, lease, step, owner, retried, written, scan>>

-----------------------------------------------------------------------------
Reserve(c) ==
  \/ Lock(c) \/ Busy(c) \/ (\E d \in Clients : Look(c, d)) \/ Measure(c) \/ Publish(c)
  \/ \E n \in 0..Cached : Collect(c, n)

Next ==
  \/ \E c \in Clients : \/ Arrive(c) \/ Reserve(c) \/ Cancel(c) \/ Write(c) \/ End(c)
                        \/ Release(c) \/ ReleaseTimesOut(c) \/ Dies(c) \/ OrphanEnds(c)
  \/ Spend

Spec == Init /\ [][Next]_vars

(***************************************************************************)
(* A client in a reservation goes on, and its polls of the lock do not all *)
(* come at a bad time; work and processes end; nobody has to arrive.       *)
(***************************************************************************)
Fairness ==
  \A c \in Clients :
    /\ WF_vars(Reserve(c)) /\ SF_vars(Lock(c))
    /\ WF_vars(End(c)) /\ WF_vars(Release(c) \/ ReleaseTimesOut(c))
    /\ WF_vars(step[c] = "leaving" /\ Dies(c))

FairSpec == Spec /\ Fairness

-----------------------------------------------------------------------------
(* Properties.                                                             *)

\* Every variable keeps its type, and who holds the lock is reserving.
TypeOK ==
  /\ free \in Nat /\ cached \in Nat /\ spent \in Nat /\ loose \in Nat
  /\ lease \subseteq Clients /\ retried \subseteq Copies
  /\ step \in [Clients -> Steps] /\ owner \in [Clients -> {"alive", "dead"}]
  /\ written \in [Clients -> Nat] /\ \A c \in Clients : written[c] <= Requested[c]
  /\ lock \in Clients \union {None} /\ todo \subseteq Clients /\ counted \subseteq Clients
  /\ lock # None => step[lock] \in {"scan", "publish"}
  /\ measured \in [free : Nat, loose : Nat]

(* While a promise lasts, the volume holds what was promised and the       *)
(* safety margin, but for what was written without a promise since the     *)
(* last admission looked: no interleaving of reservations, writes and      *)
(* deaths overcommits it.                                                  *)
MarginKept == lease # {} => free + loose - Cardinality(Owed(lease)) >= Safety

(* A living owner's promise is deleted by nobody else, whatever the others *)
(* may see of its process.                                                 *)
WorkIsCovered == \A c \in Clients : step[c] \in {"work", "release"} => c \in lease

(* The promises of the dead do not block the volume: who waits for space   *)
(* that is there for good does not wait for ever.                          *)
FittingIsAdmitted ==
  \A c \in Jobs \union Workers :
    <>[](free >= Safety + Requested[c]) => []<>(step[c] \notin Waiting)
===============================================================================
