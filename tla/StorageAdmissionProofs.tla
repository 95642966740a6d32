------------------------ MODULE StorageAdmissionProofs ------------------------
(***************************************************************************)
(* Proofs about StorageAdmission for all clients and requests, every       *)
(* volume and safety margin, and all interleavings, deaths and writes.     *)
(***************************************************************************)
EXTENDS StorageAdmission, FiniteSetTheorems, TLAPS

\* Only the dead and their orphans have no living owner.
Alive == \A c \in Clients : step[c] \notin {"orphan", "dead"} => owner[c] = "alive"

\* No lease escapes who holds the lock.
Holder == lock # None =>
  /\ lease \subseteq counted \union todo
  /\ step[lock] = "publish" => todo = {}

\* Since the measurement, the volume lost what was promised then and what
\* was written without a promise, and nothing else.
Estimate == lock # None /\ step[lock] = "publish" =>
  /\ measured.loose <= loose
  /\ measured.free <= free + (loose - measured.loose)
                      + (Cardinality(Promised(counted)) - Cardinality(Owed(counted)))

IInv == TypeOK /\ Alive /\ Holder /\ Estimate /\ MarginKept /\ WorkIsCovered

-------------------------------------------------------------------------------
(* Counting promised units.                                                *)

\* Owed as a function of what was written.
Rest(S, w) == {u \in Promised(S) : u[2] > w[u[1]]}

LEMMA PromisedFinite ==
  ASSUME NEW S \in SUBSET Clients
  PROVE  IsFiniteSet(Promised(S)) /\ Cardinality(Promised(S)) \in Nat
<1>1. IsFiniteSet(S) /\ IsFiniteSet(1..Largest)
  BY StorageAssumption, FS_Subset, FS_Interval
<1>2. IsFiniteSet(S \X (1..Largest))
  BY <1>1, FS_Product
<1>3. Promised(S) \subseteq S \X (1..Largest)
  BY DEF Promised
<1>4. IsFiniteSet(Promised(S))
  BY <1>2, <1>3, FS_Subset
<1>5. QED
  BY <1>4, FS_CardinalityType

LEMMA RequestBound ==
  ASSUME NEW c \in Clients
  PROVE  Requested[c] \in Nat /\ Requested[c] <= Largest /\ Largest \in Nat
<1>1. Largest \in Nat /\ Requested \in [Clients -> 0..Largest]
  BY StorageAssumption
<1>2. QED
  BY <1>1

LEMMA RestFinite ==
  ASSUME NEW S \in SUBSET Clients, NEW w
  PROVE  /\ IsFiniteSet(Rest(S, w)) /\ Cardinality(Rest(S, w)) \in Nat
         /\ Cardinality(Rest(S, w)) <= Cardinality(Promised(S))
<1>1. Rest(S, w) \subseteq Promised(S)
  BY DEF Rest
<1>2. IsFiniteSet(Rest(S, w)) /\ Cardinality(Rest(S, w)) <= Cardinality(Promised(S))
  BY <1>1, PromisedFinite, FS_Subset
<1>3. QED
  BY <1>2, FS_CardinalityType

LEMMA RestShrinks ==
  ASSUME NEW T \in SUBSET Clients, NEW S \in SUBSET T, NEW w
  PROVE  Cardinality(Rest(S, w)) <= Cardinality(Rest(T, w))
<1>1. Rest(S, w) \subseteq Rest(T, w)
  BY DEF Rest, Promised
<1>2. QED
  BY <1>1, RestFinite, FS_Subset

\* A new promise adds at most its request.
LEMMA RestGains ==
  ASSUME NEW S \in SUBSET Clients, NEW c \in Clients, NEW w
  PROVE  Cardinality(Rest(S \union {c}, w)) <= Cardinality(Rest(S, w)) + Requested[c]
<1> DEFINE own == {c} \X (1..Requested[c])
<1>1. Requested[c] \in Nat /\ Requested[c] <= Largest /\ Largest \in Nat
  BY RequestBound
<1>2. IsFiniteSet({c}) /\ Cardinality({c}) = 1
  BY FS_Singleton
<1>3. IsFiniteSet(1..Requested[c]) /\ Cardinality(1..Requested[c]) = Requested[c]
  <2> DEFINE n == Requested[c]
  <2>1. n \in Nat /\ 1 \in Int /\ n \in Int
    BY <1>1
  <2> HIDE DEF n
  <2>2. IsFiniteSet(1..n) /\ Cardinality(1..n) = IF 1 > n THEN 0 ELSE n - 1 + 1
    BY <2>1, FS_Interval
  <2>3. Cardinality(1..n) = n
    <3>1. CASE 1 > n
      BY <2>1, <2>2, <3>1
    <3>2. CASE ~(1 > n)
      BY <2>1, <2>2, <3>2
    <3>3. QED
      BY <3>1, <3>2
  <2>4. QED
    BY <2>2, <2>3 DEF n
<1>4. IsFiniteSet(own) /\ Cardinality(own) = 1 * Requested[c]
  BY <1>2, <1>3, FS_Product
<1>5. Rest(S \union {c}, w) \subseteq Rest(S, w) \union own
  <2>1. ASSUME NEW u \in Rest(S \union {c}, w), u \notin Rest(S, w) PROVE u \in own
    <3>1. /\ u \in (S \union {c}) \X (1..Largest)
          /\ u[2] <= Requested[u[1]] /\ u[2] > w[u[1]]
      BY <2>1 DEF Rest, Promised
    <3>2. PICK d \in S \union {c}, i \in 1..Largest : u = <<d, i>>
      BY <3>1
    <3>3. d = c
      BY <2>1, <3>1, <3>2 DEF Rest, Promised
    <3>4. i \in 1..Requested[c]
      BY <1>1, <3>1, <3>2, <3>3
    <3>5. QED
      BY <3>2, <3>3, <3>4
  <2>2. QED
    BY <2>1
<1>6. IsFiniteSet(Rest(S, w)) /\ Cardinality(Rest(S, w)) \in Nat
  BY RestFinite
<1>7. /\ IsFiniteSet(Rest(S, w) \union own)
      /\ Cardinality(Rest(S, w) \union own)
           = Cardinality(Rest(S, w)) + Cardinality(own) - Cardinality(Rest(S, w) \intersect own)
  BY <1>4, <1>6, FS_Union
<1>8. Cardinality(Rest(S, w) \intersect own) \in Nat
  <2>1. IsFiniteSet(Rest(S, w) \intersect own)
    BY <1>6, FS_Subset
  <2>2. QED
    BY <2>1, FS_CardinalityType
<1>9. Cardinality(Rest(S \union {c}, w)) <= Cardinality(Rest(S, w) \union own)
  BY <1>5, <1>7, FS_Subset
<1>10. Cardinality(Rest(S \union {c}, w)) \in Nat /\ Cardinality(Rest(S, w) \union own) \in Nat
  BY <1>7, RestFinite, FS_CardinalityType
<1> HIDE DEF own
<1>11. Cardinality(own) = Requested[c]
  BY <1>1, <1>4
<1>12. QED
  BY <1>1, <1>6, <1>7, <1>8, <1>9, <1>10, <1>11

\* A unit written by a promised client is owed no longer.
LEMMA RestWrites ==
  ASSUME NEW S \in SUBSET Clients, NEW c \in Clients, NEW w \in [Clients -> Nat],
         w[c] < Requested[c], NEW v, v = [w EXCEPT ![c] = @ + 1]
  PROVE  /\ c \in S => Cardinality(Rest(S, v)) = Cardinality(Rest(S, w)) - 1
         /\ c \notin S => Rest(S, v) = Rest(S, w)
<1> DEFINE x == <<c, w[c] + 1>>
<1>1. /\ Requested[c] \in Nat /\ Requested[c] <= Largest /\ Largest \in Nat
      /\ w[c] \in Nat /\ w[c] < Requested[c] /\ v[c] = w[c] + 1
      /\ \A d \in Clients : d # c => v[d] = w[d]
  <2>1. Requested[c] \in Nat /\ Requested[c] <= Largest /\ Largest \in Nat
    BY RequestBound
  <2>2. v[c] = w[c] + 1 /\ \A d \in Clients : d # c => v[d] = w[d]
    OBVIOUS
  <2>3. QED
    BY <2>1, <2>2
<1>2. CASE c \in S
  <2>1. x \in Rest(S, w)
    <3>1. w[c] + 1 \in 1..Largest
      BY <1>1
    <3>2. x \in S \X (1..Largest) /\ x[1] = c /\ x[2] = w[c] + 1
      BY <1>2, <3>1
    <3>3. QED
      BY <1>1, <3>2 DEF Rest, Promised
  <2>2. Rest(S, v) = Rest(S, w) \ {x}
    <3>1. ASSUME NEW u \in Promised(S)
          PROVE  u[2] > v[u[1]] <=> u[2] > w[u[1]] /\ u # x
      <4>1. PICK d \in S, i \in 1..Largest : u = <<d, i>>
        BY DEF Promised
      <4>2. u[1] = d /\ u[2] = i /\ i \in Nat
        BY <1>1, <4>1
      <4>3. CASE d = c
        <5>1. i > w[c] + 1 <=> i > w[c] /\ i # w[c] + 1
          BY <1>1, <4>2
        <5>2. u # x <=> i # w[c] + 1
          BY <4>1, <4>3
        <5>3. QED
          BY <1>1, <4>2, <4>3, <5>1, <5>2
      <4>4. CASE d # c
        BY <1>1, <4>1, <4>2, <4>4
      <4>5. QED
        BY <4>3, <4>4
    <3>2. QED
      BY <3>1 DEF Rest
  <2>3. IsFiniteSet(Rest(S, w))
    BY RestFinite
  <2> HIDE DEF x
  <2>4. Cardinality(Rest(S, w) \ {x}) = Cardinality(Rest(S, w)) - 1
    BY <2>1, <2>3, FS_RemoveElement
  <2>5. QED
    BY <1>2, <2>2, <2>4
<1>3. CASE c \notin S
  <2>1. ASSUME NEW u \in Promised(S) PROVE v[u[1]] = w[u[1]]
    <3>1. PICK d \in S, i \in 1..Largest : u = <<d, i>>
      BY DEF Promised
    <3>2. QED
      BY <1>1, <1>3, <3>1
  <2>2. QED
    BY <1>3, <2>1 DEF Rest
<1>4. QED
  BY <1>2, <1>3

LEMMA OwedIsRest == \A S : Owed(S) = Rest(S, written)
  BY DEF Owed, Rest

-------------------------------------------------------------------------------
(* The invariant holds at first and every step keeps it.                   *)

LEMMA Initial == Init => IInv
<1> SUFFICES ASSUME Init PROVE IInv
  OBVIOUS
<1>1. TypeOK
  BY StorageAssumption DEF Init, TypeOK, Steps, Waiting
<1>2. Alive /\ WorkIsCovered
  BY DEF Init, Alive, WorkIsCovered
<1>3. Holder /\ Estimate /\ MarginKept
  BY DEF Init, Holder, Estimate, MarginKept
<1>4. QED
  BY <1>1, <1>2, <1>3 DEF IInv

LEMMA TypeKept ==
  TypeOK /\ Estimate /\ [Next]_vars => TypeOK'
<1> SUFFICES ASSUME TypeOK, Estimate, [Next]_vars PROVE TypeOK'
  OBVIOUS
<1> USE StorageAssumption DEF volume, scan, TypeOK, Steps, Waiting
<1>1. ASSUME NEW c \in Clients, Arrive(c) PROVE TypeOK'
  BY <1>1 DEF Arrive, Unlocked, RefusedAs
<1>2. ASSUME NEW c \in Clients, Lock(c) PROVE TypeOK'
  BY <1>2 DEF Lock, Unlocked, RefusedAs
<1>3. ASSUME NEW c \in Clients, Busy(c) PROVE TypeOK'
  BY <1>3 DEF Busy, Unlocked, RefusedAs
<1>4. ASSUME NEW c \in Clients, NEW d \in Clients, Look(c, d) PROVE TypeOK'
  BY <1>4 DEF Look, Unlocked, RefusedAs
<1>5. ASSUME NEW c \in Clients, Measure(c) PROVE TypeOK'
  BY <1>5 DEF Measure, Unlocked, RefusedAs
<1>6. ASSUME NEW c \in Clients, Publish(c) PROVE TypeOK'
  <2>1. measured.loose <= loose
    BY <1>6 DEF Publish, Estimate
  <2>2. loose \in Nat /\ measured.loose \in Nat
    OBVIOUS
  <2>3. loose - measured.loose \in Nat
    BY <2>1, <2>2
  <2>4. CASE Admissible(c)
    BY <1>6, <2>3, <2>4 DEF Publish, Unlocked
  <2>5. CASE ~Admissible(c)
    BY <1>6, <2>5 DEF Publish, Unlocked, RefusedAs
  <2>6. QED
    BY <2>4, <2>5
<1>7. ASSUME NEW c \in Clients, NEW n \in 0..Cached, Collect(c, n) PROVE TypeOK'
  BY <1>7 DEF Collect, Unlocked, RefusedAs
<1>8. ASSUME NEW c \in Clients, Cancel(c) PROVE TypeOK'
  BY <1>8 DEF Cancel, Unlocked, RefusedAs
<1>9. ASSUME NEW c \in Clients, Write(c) PROVE TypeOK'
  BY <1>9 DEF Write, Unlocked, RefusedAs
<1>10. ASSUME NEW c \in Clients, End(c) PROVE TypeOK'
  BY <1>10 DEF End, Unlocked, RefusedAs
<1>11. ASSUME NEW c \in Clients, Release(c) PROVE TypeOK'
  BY <1>11 DEF Release, Unlocked, RefusedAs
<1>12. ASSUME NEW c \in Clients, ReleaseTimesOut(c) PROVE TypeOK'
  BY <1>12 DEF ReleaseTimesOut, Unlocked, RefusedAs
<1>13. ASSUME NEW c \in Clients, Dies(c) PROVE TypeOK'
  BY <1>13 DEF Dies, Unlocked, RefusedAs
<1>14. ASSUME NEW c \in Clients, OrphanEnds(c) PROVE TypeOK'
  BY <1>14 DEF OrphanEnds, Unlocked, RefusedAs
<1>15. ASSUME Spend PROVE TypeOK'
  BY <1>15 DEF Spend, Unlocked, RefusedAs
<1>16. CASE UNCHANGED vars
  BY <1>16 DEF vars
<1> HIDE DEF TypeOK, Steps, Waiting
<1>17. QED
  BY <1>1, <1>2, <1>3, <1>4, <1>5, <1>6, <1>7, <1>8, <1>9, <1>10, <1>11, <1>12, <1>13, <1>14, <1>15, <1>16 DEF Next, Reserve

LEMMA AliveKept ==
  Alive /\ TypeOK /\ [Next]_vars => Alive'
<1> SUFFICES ASSUME Alive, TypeOK, [Next]_vars PROVE Alive'
  OBVIOUS
<1> USE StorageAssumption DEF volume, scan, TypeOK, Alive
<1>1. ASSUME NEW c \in Clients, Arrive(c) PROVE Alive'
  BY <1>1 DEF Arrive, Unlocked, RefusedAs
<1>2. ASSUME NEW c \in Clients, Lock(c) PROVE Alive'
  BY <1>2 DEF Lock, Unlocked, RefusedAs
<1>3. ASSUME NEW c \in Clients, Busy(c) PROVE Alive'
  BY <1>3 DEF Busy, Unlocked, RefusedAs
<1>4. ASSUME NEW c \in Clients, NEW d \in Clients, Look(c, d) PROVE Alive'
  BY <1>4 DEF Look, Unlocked, RefusedAs
<1>5. ASSUME NEW c \in Clients, Measure(c) PROVE Alive'
  BY <1>5 DEF Measure, Unlocked, RefusedAs
<1>6. ASSUME NEW c \in Clients, Publish(c) PROVE Alive'
  BY <1>6 DEF Publish, Unlocked, RefusedAs
<1>7. ASSUME NEW c \in Clients, NEW n \in 0..Cached, Collect(c, n) PROVE Alive'
  BY <1>7 DEF Collect, Unlocked, RefusedAs
<1>8. ASSUME NEW c \in Clients, Cancel(c) PROVE Alive'
  BY <1>8 DEF Cancel, Unlocked, RefusedAs
<1>9. ASSUME NEW c \in Clients, Write(c) PROVE Alive'
  BY <1>9 DEF Write, Unlocked, RefusedAs
<1>10. ASSUME NEW c \in Clients, End(c) PROVE Alive'
  BY <1>10 DEF End, Unlocked, RefusedAs
<1>11. ASSUME NEW c \in Clients, Release(c) PROVE Alive'
  BY <1>11 DEF Release, Unlocked, RefusedAs
<1>12. ASSUME NEW c \in Clients, ReleaseTimesOut(c) PROVE Alive'
  BY <1>12 DEF ReleaseTimesOut, Unlocked, RefusedAs
<1>13. ASSUME NEW c \in Clients, Dies(c) PROVE Alive'
  BY <1>13 DEF Dies, Unlocked, RefusedAs
<1>14. ASSUME NEW c \in Clients, OrphanEnds(c) PROVE Alive'
  BY <1>14 DEF OrphanEnds, Unlocked, RefusedAs
<1>15. ASSUME Spend PROVE Alive'
  BY <1>15 DEF Spend, Unlocked, RefusedAs
<1>16. CASE UNCHANGED vars
  BY <1>16 DEF vars
<1> HIDE DEF TypeOK, Alive
<1>17. QED
  BY <1>1, <1>2, <1>3, <1>4, <1>5, <1>6, <1>7, <1>8, <1>9, <1>10, <1>11, <1>12, <1>13, <1>14, <1>15, <1>16 DEF Next, Reserve

LEMMA HolderKept ==
  Holder /\ TypeOK /\ [Next]_vars => Holder'
<1> SUFFICES ASSUME Holder, TypeOK, [Next]_vars PROVE Holder'
  OBVIOUS
<1> USE StorageAssumption DEF volume, scan, TypeOK, Holder
<1>1. ASSUME NEW c \in Clients, Arrive(c) PROVE Holder'
  BY <1>1 DEF Arrive, Unlocked, RefusedAs
<1>2. ASSUME NEW c \in Clients, Lock(c) PROVE Holder'
  BY <1>2 DEF Lock, Unlocked, RefusedAs
<1>3. ASSUME NEW c \in Clients, Busy(c) PROVE Holder'
  BY <1>3 DEF Busy, Unlocked, RefusedAs
<1>4. ASSUME NEW c \in Clients, NEW d \in Clients, Look(c, d) PROVE Holder'
  BY <1>4 DEF Look, Unlocked, RefusedAs
<1>5. ASSUME NEW c \in Clients, Measure(c) PROVE Holder'
  BY <1>5 DEF Measure, Unlocked, RefusedAs
<1>6. ASSUME NEW c \in Clients, Publish(c) PROVE Holder'
  BY <1>6 DEF Publish, Unlocked, RefusedAs
<1>7. ASSUME NEW c \in Clients, NEW n \in 0..Cached, Collect(c, n) PROVE Holder'
  BY <1>7 DEF Collect, Unlocked, RefusedAs
<1>8. ASSUME NEW c \in Clients, Cancel(c) PROVE Holder'
  BY <1>8 DEF Cancel, Unlocked, RefusedAs
<1>9. ASSUME NEW c \in Clients, Write(c) PROVE Holder'
  BY <1>9 DEF Write, Unlocked, RefusedAs
<1>10. ASSUME NEW c \in Clients, End(c) PROVE Holder'
  BY <1>10 DEF End, Unlocked, RefusedAs
<1>11. ASSUME NEW c \in Clients, Release(c) PROVE Holder'
  BY <1>11 DEF Release, Unlocked, RefusedAs
<1>12. ASSUME NEW c \in Clients, ReleaseTimesOut(c) PROVE Holder'
  BY <1>12 DEF ReleaseTimesOut, Unlocked, RefusedAs
<1>13. ASSUME NEW c \in Clients, Dies(c) PROVE Holder'
  BY <1>13 DEF Dies, Unlocked, RefusedAs
<1>14. ASSUME NEW c \in Clients, OrphanEnds(c) PROVE Holder'
  BY <1>14 DEF OrphanEnds, Unlocked, RefusedAs
<1>15. ASSUME Spend PROVE Holder'
  BY <1>15 DEF Spend, Unlocked, RefusedAs
<1>16. CASE UNCHANGED vars
  BY <1>16 DEF vars
<1> HIDE DEF TypeOK, Holder
<1>17. QED
  BY <1>1, <1>2, <1>3, <1>4, <1>5, <1>6, <1>7, <1>8, <1>9, <1>10, <1>11, <1>12, <1>13, <1>14, <1>15, <1>16 DEF Next, Reserve

LEMMA CoverKept ==
  WorkIsCovered /\ TypeOK /\ Alive /\ [Next]_vars => WorkIsCovered'
<1> SUFFICES ASSUME WorkIsCovered, TypeOK, Alive, [Next]_vars PROVE WorkIsCovered'
  OBVIOUS
<1> USE StorageAssumption DEF volume, scan, TypeOK, Alive, WorkIsCovered
<1>1. ASSUME NEW c \in Clients, Arrive(c) PROVE WorkIsCovered'
  BY <1>1 DEF Arrive, Unlocked, RefusedAs
<1>2. ASSUME NEW c \in Clients, Lock(c) PROVE WorkIsCovered'
  BY <1>2 DEF Lock, Unlocked, RefusedAs
<1>3. ASSUME NEW c \in Clients, Busy(c) PROVE WorkIsCovered'
  BY <1>3 DEF Busy, Unlocked, RefusedAs
<1>4. ASSUME NEW c \in Clients, NEW d \in Clients, Look(c, d) PROVE WorkIsCovered'
  <2>1. CASE Status(d) = "dead"
    <3>1. lease' = lease \ {d} /\ UNCHANGED step
      BY <1>4, <2>1 DEF Look
    <3>2. step[d] \in {"orphan", "dead"}
      BY <2>1 DEF Status
    <3>3. QED
      BY <3>1, <3>2
  <2>2. CASE Status(d) = "unresolved"
    BY <1>4, <2>2 DEF Look, RefusedAs
  <2>3. CASE Status(d) \notin {"dead", "unresolved"}
    BY <1>4, <2>3 DEF Look
  <2>4. QED
    BY <2>1, <2>2, <2>3
<1>5. ASSUME NEW c \in Clients, Measure(c) PROVE WorkIsCovered'
  BY <1>5 DEF Measure, Unlocked, RefusedAs
<1>6. ASSUME NEW c \in Clients, Publish(c) PROVE WorkIsCovered'
  BY <1>6 DEF Publish, Unlocked, RefusedAs
<1>7. ASSUME NEW c \in Clients, NEW n \in 0..Cached, Collect(c, n) PROVE WorkIsCovered'
  BY <1>7 DEF Collect, Unlocked, RefusedAs
<1>8. ASSUME NEW c \in Clients, Cancel(c) PROVE WorkIsCovered'
  BY <1>8 DEF Cancel, Unlocked, RefusedAs
<1>9. ASSUME NEW c \in Clients, Write(c) PROVE WorkIsCovered'
  BY <1>9 DEF Write, Unlocked, RefusedAs
<1>10. ASSUME NEW c \in Clients, End(c) PROVE WorkIsCovered'
  BY <1>10 DEF End, Unlocked, RefusedAs
<1>11. ASSUME NEW c \in Clients, Release(c) PROVE WorkIsCovered'
  BY <1>11 DEF Release, Unlocked, RefusedAs
<1>12. ASSUME NEW c \in Clients, ReleaseTimesOut(c) PROVE WorkIsCovered'
  BY <1>12 DEF ReleaseTimesOut, Unlocked, RefusedAs
<1>13. ASSUME NEW c \in Clients, Dies(c) PROVE WorkIsCovered'
  BY <1>13 DEF Dies, Unlocked, RefusedAs
<1>14. ASSUME NEW c \in Clients, OrphanEnds(c) PROVE WorkIsCovered'
  BY <1>14 DEF OrphanEnds, Unlocked, RefusedAs
<1>15. ASSUME Spend PROVE WorkIsCovered'
  BY <1>15 DEF Spend, Unlocked, RefusedAs
<1>16. CASE UNCHANGED vars
  BY <1>16 DEF vars
<1> HIDE DEF TypeOK, Alive, WorkIsCovered
<1>17. QED
  BY <1>1, <1>2, <1>3, <1>4, <1>5, <1>6, <1>7, <1>8, <1>9, <1>10, <1>11, <1>12, <1>13, <1>14, <1>15, <1>16 DEF Next, Reserve

LEMMA EstimateKept ==
  Estimate /\ TypeOK /\ Holder /\ [Next]_vars => Estimate'
<1> SUFFICES ASSUME Estimate, TypeOK, Holder, [Next]_vars, lock' # None, step'[lock'] = "publish"
             PROVE  /\ measured'.loose <= loose'
                    /\ measured'.free <= free' + (loose' - measured'.loose)
                         + (Cardinality(Promised(counted')) - Cardinality(Rest(counted', written')))
  BY OwedIsRest DEF Estimate, Owed, Rest, Promised
<1> DEFINE Bound == /\ measured.loose <= loose
                    /\ measured.free <= free + (loose - measured.loose)
                         + (Cardinality(Promised(counted)) - Cardinality(Rest(counted, written)))
<1>1. /\ counted \in SUBSET Clients /\ lock \in Clients \union {None}
      /\ written \in [Clients -> Nat] /\ step \in [Clients -> Steps]
      /\ lock # None => step[lock] \in {"scan", "publish"}
  BY DEF TypeOK
<1>2. /\ free \in Nat /\ loose \in Nat /\ measured.free \in Nat /\ measured.loose \in Nat
      /\ cached \in Nat
  BY DEF TypeOK
<1>3. /\ Cardinality(Promised(counted)) \in Nat /\ Cardinality(Rest(counted, written)) \in Nat
      /\ Cardinality(Rest(counted, written)) <= Cardinality(Promised(counted))
  BY <1>1, PromisedFinite, RestFinite
<1>4. lock # None /\ step[lock] = "publish" => Bound
  BY OwedIsRest DEF Estimate
<1>5. ASSUME NEW c \in Clients, Measure(c) PROVE Bound'
  <2>1. /\ UNCHANGED <<free, loose, counted, written>>
        /\ measured'.free = free /\ measured'.loose = loose
    BY <1>5 DEF Measure, volume
  <2>2. QED
    BY <1>2, <1>3, <2>1
<1>6. ASSUME NEW c \in Clients, Write(c) PROVE Bound'
  <2>1. /\ free' = free - 1 /\ UNCHANGED <<lock, todo, counted, measured, step>>
        /\ IF c \in lease THEN loose' = loose ELSE loose' = loose + 1
    BY <1>6 DEF Write, scan
  <2>2. Bound /\ lease \subseteq counted
    BY <1>4, <2>1 DEF Holder
  <2>3. written[c] < Requested[c] /\ written' = [written EXCEPT ![c] = @ + 1]
    BY <1>6 DEF Write
  <2>4. /\ Cardinality(Rest(counted, written')) \in Nat
        /\ c \in counted => Cardinality(Rest(counted, written')) = Cardinality(Rest(counted, written)) - 1
        /\ c \notin counted => Cardinality(Rest(counted, written')) = Cardinality(Rest(counted, written))
    <3>1. Cardinality(Rest(counted, written')) \in Nat
      BY <1>1, RestFinite
    <3>2. c \in counted => Cardinality(Rest(counted, written')) = Cardinality(Rest(counted, written)) - 1
      BY <1>1, <2>3, RestWrites
    <3>3. c \notin counted => Rest(counted, written') = Rest(counted, written)
      BY <1>1, <2>3, RestWrites
    <3>4. QED
      BY <3>1, <3>2, <3>3
  <2>5. CASE c \in lease
    <3>1. c \in counted /\ loose' = loose
      BY <2>1, <2>2, <2>5
    <3>2. QED
      BY <1>2, <1>3, <2>1, <2>2, <2>4, <3>1
  <2>6. CASE c \notin lease
    <3>1. loose' = loose + 1
      BY <2>1, <2>6
    <3>2. Cardinality(Rest(counted, written')) <= Cardinality(Rest(counted, written))
      BY <1>3, <2>4
    <3>3. QED
      BY <1>2, <1>3, <2>1, <2>2, <2>4, <3>1, <3>2
  <2>7. QED
    BY <2>5, <2>6
<1>7. ASSUME UNCHANGED <<scan, written>>, lock # None /\ step[lock] = "publish",
             \/ UNCHANGED <<free, loose>>
             \/ \E n \in Nat : free' = free + n /\ loose' = loose
             \/ free' = free - 1 /\ loose' = loose + 1
      PROVE  Bound'
  BY <1>2, <1>3, <1>4, <1>7 DEF scan
<1>8. ASSUME NEW c \in Clients, NEW n \in 0..Cached, Collect(c, n) PROVE Bound'
  <2>1. n \in Nat
    BY StorageAssumption
  <2>2. lock # None /\ step[lock] = "publish"
    BY <1>1, <1>8 DEF Collect, scan
  <2>3. QED
    BY <1>7, <1>8, <2>1, <2>2 DEF Collect
<1>9. CASE Spend
  BY <1>7, <1>9 DEF Spend, scan
<1>10. ASSUME NEW c \in Clients, Arrive(c) PROVE Bound'
  <2>1. lock # None /\ step[lock] = "publish"
    BY <1>1, <1>10 DEF Arrive, scan
  <2>2. QED
    BY <1>7, <1>10, <2>1 DEF Arrive, scan, volume
<1>11. ASSUME NEW c \in Clients, Busy(c) PROVE Bound'
  <2>1. lock # None /\ step[lock] = "publish"
    BY <1>1, <1>11 DEF Busy, scan
  <2>2. QED
    BY <1>7, <1>11, <2>1 DEF Busy, scan, volume
<1>12. ASSUME NEW c \in Clients, Cancel(c) PROVE Bound'
  <2>1. lock # None /\ step[lock] = "publish"
    BY <1>1, <1>12 DEF Cancel, scan
  <2>2. QED
    BY <1>7, <1>12, <2>1 DEF Cancel, scan, volume
<1>13. ASSUME NEW c \in Clients, End(c) PROVE Bound'
  <2>1. lock # None /\ step[lock] = "publish"
    BY <1>1, <1>13 DEF End, scan
  <2>2. QED
    BY <1>7, <1>13, <2>1 DEF End, scan, volume
<1>14. ASSUME NEW c \in Clients, ReleaseTimesOut(c) PROVE Bound'
  <2>1. lock # None /\ step[lock] = "publish"
    BY <1>1, <1>14 DEF ReleaseTimesOut, scan
  <2>2. QED
    BY <1>7, <1>14, <2>1 DEF ReleaseTimesOut, scan, volume
<1>15. ASSUME NEW c \in Clients, OrphanEnds(c) PROVE Bound'
  <2>1. lock # None /\ step[lock] = "publish"
    BY <1>1, <1>15 DEF OrphanEnds, scan
  <2>2. QED
    BY <1>7, <1>15, <2>1 DEF OrphanEnds, scan, volume
<1>16. ASSUME NEW c \in Clients, Dies(c) PROVE Bound'
  <2>1. lock # None /\ step[lock] = "publish"
    BY <1>1, <1>16 DEF Dies, scan
  <2>2. QED
    BY <1>7, <1>16, <2>1 DEF Dies, scan, volume
<1>17. ASSUME NEW c \in Clients, Lock(c) \/ Publish(c) \/ Release(c) PROVE FALSE
  BY <1>1, <1>17 DEF Lock, Publish, Release, Unlocked, scan
<1>18. ASSUME NEW c \in Clients, NEW d \in Clients, Look(c, d) PROVE FALSE
  BY <1>1, <1>18 DEF Look, Unlocked
<1>19. CASE UNCHANGED vars
  BY <1>7, <1>19 DEF vars, volume, scan
<1>20. QED
  BY <1>5, <1>6, <1>8, <1>9, <1>10, <1>11, <1>12, <1>13, <1>14, <1>15, <1>16, <1>17, <1>18, <1>19
     DEF Next, Reserve

LEMMA MarginGoesOn ==
  MarginKept /\ Estimate /\ Holder /\ TypeOK /\ [Next]_vars => MarginKept'
<1> SUFFICES ASSUME MarginKept, Estimate, Holder, TypeOK, [Next]_vars, lease' # {}
             PROVE  free' + loose' - Cardinality(Rest(lease', written')) >= Safety
  BY OwedIsRest DEF MarginKept, Owed, Rest, Promised
<1> DEFINE Margin == free + loose - Cardinality(Rest(lease, written)) >= Safety
<1>1. /\ lease \in SUBSET Clients /\ counted \in SUBSET Clients /\ written \in [Clients -> Nat]
      /\ Safety \in Nat
  BY StorageAssumption DEF TypeOK
<1>2. /\ free \in Nat /\ loose \in Nat /\ measured.free \in Nat /\ measured.loose \in Nat
      /\ cached \in Nat
  BY DEF TypeOK
<1>3. Cardinality(Rest(lease, written)) \in Nat
  BY <1>1, RestFinite
<1>4. lease # {} => Margin
  BY OwedIsRest DEF MarginKept
\* Fewer promises, or more space.
<1>5. ASSUME lease' \subseteq lease, written' = written,
             \/ UNCHANGED <<free, loose>>
             \/ \E n \in Nat : free' = free + n /\ loose' = loose
             \/ free' = free - 1 /\ loose' = loose + 1
      PROVE  Margin'
  <2>1. Margin
    BY <1>4, <1>5
  <2>2. /\ Cardinality(Rest(lease', written')) \in Nat
        /\ Cardinality(Rest(lease', written')) <= Cardinality(Rest(lease, written))
    BY <1>1, <1>5, RestFinite, RestShrinks
  <2>3. QED
    BY <1>1, <1>2, <1>3, <1>5, <2>1, <2>2
<1>6. ASSUME NEW c \in Clients, Publish(c) PROVE Margin'
  <2>1. CASE ~Admissible(c)
    BY <1>5, <1>6, <2>1 DEF Publish, volume
  <2>2. CASE Admissible(c)
    <3>1. /\ lease' = lease \union {c} /\ loose' = loose - measured.loose
          /\ UNCHANGED <<free, written>>
      BY <1>6, <2>2 DEF Publish, volume
    <3>2. lease \subseteq counted /\ lock # None /\ step[lock] = "publish"
      BY StorageAssumption, <1>6 DEF Publish, Holder
    <3>3. /\ measured.loose <= loose
          /\ measured.free <= free + (loose - measured.loose)
               + (Cardinality(Promised(counted)) - Cardinality(Rest(counted, written)))
      BY <3>2, OwedIsRest DEF Estimate
    <3>4. measured.free - Cardinality(Promised(counted)) - Requested[c] >= Safety
      BY <2>2 DEF Admissible
    <3>5. /\ Cardinality(Promised(counted)) \in Nat /\ Cardinality(Rest(counted, written)) \in Nat
          /\ Cardinality(Rest(lease, written)) <= Cardinality(Rest(counted, written))
      BY <1>1, <3>2, PromisedFinite, RestFinite, RestShrinks
    <3>6. Cardinality(Rest(lease \union {c}, written)) <= Cardinality(Rest(lease, written)) + Requested[c]
      BY <1>1, RestGains
    <3>7. Requested[c] \in Nat /\ Cardinality(Rest(lease \union {c}, written)) \in Nat
      BY StorageAssumption, <1>1, RestFinite
    <3>8. Cardinality(Rest(lease', written')) = Cardinality(Rest(lease \union {c}, written))
      BY <3>1
    <3>9. QED
      BY <1>1, <1>2, <1>3, <3>1, <3>3, <3>4, <3>5, <3>6, <3>7, <3>8
  <2>3. QED
    BY <2>1, <2>2
<1>7. ASSUME NEW c \in Clients, Write(c) PROVE Margin'
  <2>1. /\ free' = free - 1 /\ lease' = lease
        /\ IF c \in lease THEN loose' = loose ELSE loose' = loose + 1
    BY <1>7 DEF Write
  <2>2. written[c] < Requested[c] /\ written' = [written EXCEPT ![c] = @ + 1]
    BY <1>7 DEF Write
  <2>3. /\ Cardinality(Rest(lease, written')) \in Nat
        /\ c \in lease => Cardinality(Rest(lease, written')) = Cardinality(Rest(lease, written)) - 1
        /\ c \notin lease => Cardinality(Rest(lease, written')) = Cardinality(Rest(lease, written))
    <3>1. Cardinality(Rest(lease, written')) \in Nat
      BY <1>1, RestFinite
    <3>2. written \in [Clients -> Nat] /\ lease \in SUBSET Clients
      BY <1>1
    <3>3. /\ c \in lease => Cardinality(Rest(lease, written')) = Cardinality(Rest(lease, written)) - 1
          /\ c \notin lease => Rest(lease, written') = Rest(lease, written)
      BY <2>2, <3>2, RestWrites
    <3>4. QED
      BY <3>1, <3>3
  <2>4. Margin
    BY <1>4, <2>1
  <2>5. CASE c \in lease
    BY <1>1, <1>2, <1>3, <2>1, <2>3, <2>4, <2>5
  <2>6. CASE c \notin lease
    BY <1>1, <1>2, <1>3, <2>1, <2>3, <2>4, <2>6
  <2>7. QED
    BY <2>5, <2>6
<1>8. ASSUME NEW c \in Clients, NEW n \in 0..Cached, Collect(c, n) PROVE Margin'
  <2>1. n \in Nat
    BY StorageAssumption
  <2>2. QED
    BY <1>5, <1>8, <2>1 DEF Collect
<1>9. CASE Spend
  BY <1>5, <1>9 DEF Spend
<1>10. ASSUME NEW c \in Clients, Arrive(c) PROVE Margin'
  BY <1>5, <1>10 DEF Arrive, volume
<1>11. ASSUME NEW c \in Clients, Lock(c) PROVE Margin'
  BY <1>5, <1>11 DEF Lock, volume
<1>12. ASSUME NEW c \in Clients, Busy(c) PROVE Margin'
  BY <1>5, <1>12 DEF Busy, volume
<1>13. ASSUME NEW c \in Clients, Measure(c) PROVE Margin'
  BY <1>5, <1>13 DEF Measure, volume
<1>14. ASSUME NEW c \in Clients, Cancel(c) PROVE Margin'
  BY <1>5, <1>14 DEF Cancel, volume
<1>15. ASSUME NEW c \in Clients, End(c) PROVE Margin'
  BY <1>5, <1>15 DEF End, volume
<1>16. ASSUME NEW c \in Clients, Release(c) PROVE Margin'
  BY <1>5, <1>16 DEF Release, volume
<1>17. ASSUME NEW c \in Clients, ReleaseTimesOut(c) PROVE Margin'
  BY <1>5, <1>17 DEF ReleaseTimesOut, volume
<1>18. ASSUME NEW c \in Clients, OrphanEnds(c) PROVE Margin'
  BY <1>5, <1>18 DEF OrphanEnds, volume
<1>19. ASSUME NEW c \in Clients, Dies(c) PROVE Margin'
  BY <1>5, <1>19 DEF Dies, volume
<1>20. ASSUME NEW c \in Clients, NEW d \in Clients, Look(c, d) PROVE Margin'
  <2>1. lease' \subseteq lease
    BY <1>20 DEF Look
  <2>2. QED
    BY <1>5, <1>20, <2>1 DEF Look, volume
<1>21. CASE UNCHANGED vars
  BY <1>5, <1>21 DEF vars, volume
<1>22. QED
  BY <1>6, <1>7, <1>8, <1>9, <1>10, <1>11, <1>12, <1>13, <1>14, <1>15, <1>16, <1>17, <1>18,
     <1>19, <1>20, <1>21 DEF Next, Reserve

-------------------------------------------------------------------------------

\* The inductive invariant: whoever decides under the lock has counted
\* every promise that lasts, and lost no space unaccounted for since.
THEOREM Invariance == Spec => []IInv
<1>1. IInv /\ [Next]_vars => IInv'
  BY TypeKept, AliveKept, HolderKept, EstimateKept, MarginGoesOn, CoverKept DEF IInv
<1>2. QED
  BY <1>1, Initial, PTL DEF Spec

\* Space, leases and clients keep their types, and only who reserves holds
\* the lock of the volume (StorageAdmission.transaction).
THEOREM TypeCorrect == Spec => []TypeOK
<1>1. IInv => TypeOK
  BY DEF IInv
<1>2. QED
  BY <1>1, Invariance, PTL

\* No interleaving of reservations, writes and deaths overcommits the
\* volume (StorageAdmission._reserve_locked).
THEOREM KeepsMargin == Spec => []MarginKept
<1>1. IInv => MarginKept
  BY DEF IInv
<1>2. QED
  BY <1>1, Invariance, PTL

\* The promise of a living owner is deleted by nobody else
\* (StorageAdmission._reserve_locked, ProcessIdentity.storage_status).
THEOREM CoversWork == Spec => []WorkIsCovered
<1>1. IInv => WorkIsCovered
  BY DEF IInv
<1>2. QED
  BY <1>1, Invariance, PTL
===============================================================================
