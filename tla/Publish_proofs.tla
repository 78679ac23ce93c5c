--------------------------- MODULE Publish_proofs ---------------------------
(***************************************************************************)
(* Proofs about Publish, for any sets of pushes, months and files and any  *)
(* size of a month file.  What holds only when the index can be listed at  *)
(* startup, or only when a failed write wrote nothing, says so.            *)
(***************************************************************************)
EXTENDS Publish, TLAPS

USE DEF Goto, Fail, Landed, Refused

Pcs == {"new", "listed"} \cup Working \cup Over

LEMMA PcSets ==
  /\ Working = {"files", "vectors", "meta", "index", "memory", "remove"}
  /\ Over = {"done", "failed", "dead"}
  /\ Working \subseteq Pcs /\ Over \subseteq Pcs
  /\ "new" \in Pcs /\ "listed" \in Pcs
  BY DEF Working, Over, Pcs

\* The step of a job that is not a request's first, with the one for restarts.
LEMMA NextCases ==
  ASSUME [Next]_vars
  PROVE  \/ \E f \in Files : Stage(f)
         \/ \E id \in Ids : Request(id)
         \/ \E id \in Ids : Serve(id)
         \/ Restart
         \/ UNCHANGED vars
  BY DEF Next

-----------------------------------------------------------------------------
\* Types

LEMMA TypeInit == Init => TypeOK
  BY PcSets DEF Init, TypeOK

LEMMA TypeServe ==
  ASSUME TypeOK, NEW id \in Ids, Serve(id)
  PROVE  TypeOK'
<1> USE DEF TypeOK, workspace, job, bucket, index
<1>1. ASSUME NEW digest \in BOOLEAN, Accept(id, digest)  PROVE TypeOK'
  BY <1>1, PcSets DEF Accept
<1>2. CASE Busy(id)
  BY <1>2, PcSets DEF Busy
<1>3. ASSUME NEW o \in Files \cup {Mark}, PutObject(id, o)  PROVE TypeOK'
  <2>1. (IF Parts(id) \subseteq objects'[id] THEN AfterObjects(id) ELSE "files") \in Working
    BY PcSets DEF AfterObjects
  <2>2. pc' \in [Ids -> Pcs] /\ lock' \in Ids \cup {NoPush}
    BY <1>3, <2>1, PcSets DEF PutObject, Pcs
  <2>3. objects' \in [Ids -> SUBSET (Files \cup {Mark})]
    BY <1>3 DEF PutObject
  <2> QED  BY <1>3, <2>2, <2>3 DEF PutObject, Pcs
<1>4. CASE PutObjectFails(id)
  BY <1>4, PcSets DEF PutObjectFails
<1>5. CASE PutVectors(id)
  BY <1>5, PcSets DEF PutVectors
<1>6. CASE PutMeta(id)
  BY <1>6, PcSets DEF PutMeta
<1>7. CASE PutIndex(id)
  BY <1>7, PcSets DEF PutIndex
<1>8. CASE RefuseIndex(id)
  BY <1>8, PcSets DEF RefuseIndex
<1>9. CASE PutFails(id)
  BY <1>9, PcSets DEF PutFails
<1>10. CASE Remember(id)
  BY <1>10, PcSets DEF Remember
<1>11. ASSUME NEW f \in Files, Remove(id, f)  PROVE TypeOK'
  BY <1>11 DEF Remove
<1>12. CASE Finish(id)
  BY <1>12, PcSets DEF Finish
<1> QED
  BY <1>1, <1>2, <1>3, <1>4, <1>5, <1>6, <1>7, <1>8, <1>9, <1>10, <1>11, <1>12 DEF Serve

LEMMA TypeNext ==
  ASSUME TypeOK, [Next]_vars
  PROVE  TypeOK'
<1> USE DEF TypeOK, workspace, job, bucket, index
<1>1. ASSUME NEW f \in Files, Stage(f)  PROVE TypeOK'
  BY <1>1 DEF Stage
<1>2. ASSUME NEW id \in Ids, Request(id)  PROVE TypeOK'
  BY <1>2, PcSets DEF Request
<1>3. CASE Restart
  <2>1. pc' \in [Ids -> Pcs]
    BY <1>3, PcSets DEF Restart, Pcs
  <2>2. months' \in [Months -> SUBSET Ids] /\ broken' \subseteq Months
    BY <1>3 DEF Restart, Load, LoadFails, Existing
  <2> QED  BY <1>3, <2>1, <2>2 DEF Restart, Pcs
<1>4. CASE UNCHANGED vars
  BY <1>4 DEF vars
<1> QED
  BY <1>1, <1>2, <1>3, <1>4, NextCases, TypeServe

\* Every variable keeps its type: a bundle holds nothing but staged contents
\* and marks, and the index nothing but pushes.
THEOREM TypeCorrect == Spec => []TypeOK
<1>1. TypeOK /\ [Next]_vars => TypeOK'
  BY TypeNext
<1> QED
  BY <1>1, TypeInit, PTL DEF Spec

-----------------------------------------------------------------------------
\* Pushes are single-flight

\* A step of the job that holds the lock ends with the lock kept and the job
\* working, or with the lock free and the job over.
LEMMA HolderMoves ==
  ASSUME TypeOK, SingleFlight, NEW id \in Ids, NEW p \in Pcs,
         pc[id] \in Working, pc' = [pc EXCEPT ![id] = p],
         \/ p \in Working /\ lock' = lock
         \/ p \notin Working /\ lock' = NoPush
  PROVE  SingleFlight'
  BY NoPushAssumption DEF TypeOK, SingleFlight

\* A step of a request that is not a job.
LEMMA WaiterMoves ==
  ASSUME TypeOK, SingleFlight, NEW id \in Ids, NEW p \in Pcs \ Working,
         pc[id] \notin Working, pc' = [pc EXCEPT ![id] = p], lock' = lock
  PROVE  SingleFlight'
  BY DEF TypeOK, SingleFlight

LEMMA SingleServe ==
  ASSUME TypeOK, SingleFlight, NEW id \in Ids, Serve(id)
  PROVE  SingleFlight'
<1> USE DEF workspace
<1>1. ASSUME NEW digest \in BOOLEAN, Accept(id, digest)  PROVE SingleFlight'
  BY <1>1, PcSets, NoPushAssumption DEF Accept, TypeOK, SingleFlight
<1>2. CASE Busy(id)
  BY <1>2, PcSets, WaiterMoves DEF Busy
<1>3. ASSUME NEW o \in Files \cup {Mark}, PutObject(id, o)  PROVE SingleFlight'
  <2> DEFINE p == IF Parts(id) \subseteq objects'[id] THEN AfterObjects(id) ELSE "files"
  <2>1. p \in Working
    BY PcSets DEF AfterObjects
  <2> HIDE DEF p
  <2>2. Landed(id, p)
    BY <1>3 DEF PutObject, p
  <2> QED  BY <1>3, <2>1, <2>2, PcSets, HolderMoves DEF PutObject
<1>4. CASE PutObjectFails(id)
  BY <1>4, PcSets, HolderMoves DEF PutObjectFails
<1>5. CASE PutVectors(id)
  BY <1>5, PcSets, HolderMoves DEF PutVectors
<1>6. CASE PutMeta(id)
  BY <1>6, PcSets, HolderMoves DEF PutMeta
<1>7. CASE PutIndex(id)
  BY <1>7, PcSets, HolderMoves DEF PutIndex
<1>8. CASE RefuseIndex(id)
  BY <1>8, PcSets, HolderMoves DEF RefuseIndex
<1>9. CASE PutFails(id)
  BY <1>9, PcSets, HolderMoves DEF PutFails
<1>10. CASE Remember(id)
  BY <1>10, PcSets, HolderMoves DEF Remember
<1>11. ASSUME NEW f \in Files, Remove(id, f)  PROVE SingleFlight'
  BY <1>11 DEF Remove, SingleFlight
<1>12. CASE Finish(id)
  BY <1>12, PcSets, HolderMoves DEF Finish
<1> QED
  BY <1>1, <1>2, <1>3, <1>4, <1>5, <1>6, <1>7, <1>8, <1>9, <1>10, <1>11, <1>12 DEF Serve

LEMMA SingleNext ==
  ASSUME TypeOK, SingleFlight, [Next]_vars
  PROVE  SingleFlight'
<1> USE DEF workspace
<1>1. ASSUME NEW f \in Files, Stage(f)  PROVE SingleFlight'
  BY <1>1 DEF Stage, SingleFlight
<1>2. ASSUME NEW id \in Ids, Request(id)  PROVE SingleFlight'
  BY <1>2, PcSets, WaiterMoves DEF Request
<1>3. CASE Restart
  <2>1. \A id \in Ids : pc'[id] \notin Working
    BY <1>3, PcSets DEF Restart, TypeOK
  <2> QED  BY <1>3, <2>1, NoPushAssumption DEF Restart, SingleFlight
<1>4. CASE UNCHANGED vars
  BY <1>4 DEF vars, SingleFlight
<1> QED
  BY <1>1, <1>2, <1>3, <1>4, NextCases, SingleServe

\* The job that works is the one that holds the lock: no two pushes ever run
\* at once, so the index append of push.go never races another.
THEOREM OneAtATime == Spec => []SingleFlight
<1>1. Init => SingleFlight
  BY PcSets, NoPushAssumption DEF Init, SingleFlight
<1>2. TypeOK /\ SingleFlight /\ [Next]_vars => SingleFlight'
  BY SingleNext
<1> QED
  BY <1>1, <1>2, TypeCorrect, PTL DEF Spec

-----------------------------------------------------------------------------
\* What can be read is complete

\* How far a job's writes have come, by where it stands.
Written   == {"vectors", "meta", "index", "memory", "remove"}
Embedded  == {"meta", "index", "memory", "remove"}
Described == {"index", "memory", "remove"}
Indexed   == {"memory", "remove"}

InPlace(id) ==
  /\ pc[id] \in Written => Parts(id) \subseteq objects[id]
  /\ pc[id] \in Embedded /\ marked[id] /\ Embedding => id \in vectors
  /\ pc[id] \in Described => id \in metas
  /\ id \in metas => pc[id] \in Described \cup Over
  /\ pc[id] \in Indexed => id \in monthFile[month[id]]

Order == \A id \in Ids : InPlace(id)

\* The invariant the completeness of the bucket rests on.
InOrder == TypeOK /\ SingleFlight /\ Order /\ PublishedComplete /\ ShownRecorded

LEMMA PlaceSets ==
  /\ Written = {"vectors", "meta", "index", "memory", "remove"}
  /\ Embedded = {"meta", "index", "memory", "remove"}
  /\ Described = {"index", "memory", "remove"}
  /\ Indexed = {"memory", "remove"}
  BY DEF Written, Embedded, Described, Indexed

\* A step of a job leaves every other request where its invariant puts it:
\* no other request has a job that works.
LEMMA OthersInPlace ==
  ASSUME InOrder, NEW id \in Ids, NEW p, pc[id] \in Working, pc' = [pc EXCEPT ![id] = p],
         metas' \subseteq metas \cup {id}, InPlace(id)'
  PROVE  Order'
<1> SUFFICES ASSUME NEW other \in Ids, other # id
             PROVE  InPlace(other)'
  BY DEF Order
<1>1. pc[other] \notin Working /\ pc'[other] = pc[other]
  BY DEF InOrder, SingleFlight, TypeOK
<1>2. other \in metas' => pc[other] \in Over
  BY <1>1, PlaceSets, PcSets DEF InOrder, Order, InPlace
<1> QED  BY <1>1, <1>2, PlaceSets, PcSets DEF InPlace

\* A step before anything of the bundle is readable, or one that leaves the
\* bucket alone, keeps what is readable complete.
LEMMA CompleteKept ==
  ASSUME InOrder, NEW id \in Ids,
         UNCHANGED <<metas, monthFile>>,
         vectors \subseteq vectors',
         \A i \in Ids : objects[i] \subseteq objects'[i],
         \A i \in Ids \ {id} : names'[i] = names[i] /\ marked'[i] = marked[i],
         id \in metas => names'[id] = names[id] /\ marked'[id] = marked[id]
  PROVE  PublishedComplete'
<1>1. \A i \in metas : i \in Ids /\ Parts(i)' = Parts(i) /\ marked'[i] = marked[i]
  BY DEF Parts, InOrder, TypeOK
<1> QED  BY <1>1 DEF PublishedComplete, InOrder

Readable == Order /\ PublishedComplete /\ ShownRecorded

\* The steps that leave the bucket as it is and end in a place that asks
\* nothing of it.
LEMMA ReadableIdle ==
  ASSUME InOrder, NEW id \in Ids, NEW p \in {"listed", "files", "failed", "done"},
         pc' = [pc EXCEPT ![id] = p],
         id \in metas => p \in Over /\ UNCHANGED <<names, marked>>,
         pc[id] \in Working \/ id \notin metas,
         \A i \in Ids \ {id} : names'[i] = names[i] /\ marked'[i] = marked[i],
         UNCHANGED <<month, objects, vectors, metas, monthFile, months>>
  PROVE  Readable'
<1>1. PublishedComplete'
  BY CompleteKept
<1>2. ShownRecorded'
  BY DEF InOrder, ShownRecorded
<1>3. Order'
  <2> SUFFICES ASSUME NEW i \in Ids  PROVE InPlace(i)'
    BY DEF Order
  <2>1. CASE i = id
    BY <2>1, PlaceSets, PcSets DEF InPlace, InOrder, TypeOK
  <2>2. CASE i # id
    <3>1. Parts(i)' = Parts(i) /\ pc'[i] = pc[i] /\ marked'[i] = marked[i]
      BY <2>2 DEF Parts, InOrder, TypeOK
    <3> QED  BY <3>1 DEF InPlace, InOrder, Order
  <2> QED  BY <2>1, <2>2
<1> QED  BY <1>1, <1>2, <1>3 DEF Readable

LEMMA ReadablePutObject ==
  ASSUME InOrder, NEW id \in Ids, NEW o \in Files \cup {Mark}, PutObject(id, o)
  PROVE  Readable'
<1> DEFINE p == IF Parts(id) \subseteq objects'[id] THEN AfterObjects(id) ELSE "files"
<1>1. PICK q \in {p, "failed"} : pc' = [pc EXCEPT ![id] = q]
  BY DEF PutObject
<1>2. /\ \A i \in Ids : objects[i] \subseteq objects'[i] /\ Parts(i)' = Parts(i)
      /\ UNCHANGED <<month, names, marked, vectors, metas, monthFile, months>>
      /\ pc[id] \in Working /\ id \notin metas
  BY PcSets, PlaceSets DEF PutObject, InOrder, TypeOK, Parts, job, index, Order, InPlace
<1>3. PublishedComplete'
  BY <1>2, CompleteKept
<1>4. ShownRecorded'
  BY <1>2 DEF InOrder, ShownRecorded
<1>5. InPlace(id)'
  <2>1. pc'[id] = q
    BY <1>1 DEF InOrder, TypeOK
  <2>2. CASE q = "failed"
    BY <1>2, <2>1, <2>2, PlaceSets DEF InPlace
  <2>3. CASE q = p
    <3>1. q \in {"files", "vectors", "meta"}
      BY <2>3 DEF AfterObjects
    <3>2. q # "files" => Parts(id)' \subseteq objects'[id]
      BY <1>2, <2>3
    <3>3. q = "meta" => ~ (marked'[id] /\ Embedding)
      BY <1>2, <2>3 DEF AfterObjects
    <3> QED  BY <1>2, <2>1, <3>1, <3>2, <3>3, PlaceSets DEF InPlace
  <2> QED  BY <2>2, <2>3
<1> HIDE DEF p
<1> QED  BY <1>1, <1>2, <1>3, <1>4, <1>5, OthersInPlace DEF Readable

LEMMA ReadablePutVectors ==
  ASSUME InOrder, NEW id \in Ids, PutVectors(id)
  PROVE  Readable'
<1>1. PICK q \in {"meta", "failed"} : pc' = [pc EXCEPT ![id] = q]
  BY DEF PutVectors
<1>2. /\ \A i \in Ids : Parts(i)' = Parts(i)
      /\ vectors' = vectors \cup {id}
      /\ UNCHANGED <<month, names, marked, objects, metas, monthFile, months>>
      /\ pc[id] \in Working /\ id \notin metas /\ Parts(id) \subseteq objects[id]
  BY PcSets, PlaceSets DEF PutVectors, InOrder, Parts, job, index, Order, InPlace
<1>3. PublishedComplete'
  BY <1>2, CompleteKept
<1>4. ShownRecorded'
  BY <1>2 DEF InOrder, ShownRecorded
<1>5. InPlace(id)'
  BY <1>1, <1>2, PlaceSets DEF InPlace, InOrder, TypeOK
<1> QED  BY <1>1, <1>2, <1>3, <1>4, <1>5, OthersInPlace DEF Readable

LEMMA ReadablePutMeta ==
  ASSUME InOrder, NEW id \in Ids, PutMeta(id)
  PROVE  Readable'
<1>1. PICK q \in {"index", "failed"} : pc' = [pc EXCEPT ![id] = q]
  BY DEF PutMeta
<1>2. /\ \A i \in Ids : Parts(i)' = Parts(i)
      /\ metas' = metas \cup {id}
      /\ UNCHANGED <<month, names, marked, objects, vectors, monthFile, months>>
      /\ pc[id] \in Working /\ Parts(id) \subseteq objects[id]
      /\ marked[id] /\ Embedding => id \in vectors
  BY PcSets, PlaceSets DEF PutMeta, InOrder, Parts, job, index, Order, InPlace
<1>3. PublishedComplete'
  BY <1>2 DEF InOrder, TypeOK, PublishedComplete
<1>4. ShownRecorded'
  BY <1>2 DEF InOrder, ShownRecorded
<1>5. InPlace(id)'
  BY <1>1, <1>2, PlaceSets, PcSets DEF InPlace, InOrder, TypeOK
<1> QED  BY <1>1, <1>2, <1>3, <1>4, <1>5, OthersInPlace DEF Readable

LEMMA ReadablePutIndex ==
  ASSUME InOrder, NEW id \in Ids, PutIndex(id)
  PROVE  Readable'
<1>1. PICK q \in {"memory", "failed"} : pc' = [pc EXCEPT ![id] = q]
  BY DEF PutIndex
<1>2. /\ \A i \in Ids : Parts(i)' = Parts(i)
      /\ monthFile' = [monthFile EXCEPT ![month[id]] = months[month[id]] \cup {id}]
      /\ UNCHANGED <<month, names, marked, objects, vectors, metas, months>>
      /\ pc[id] = "index" /\ month[id] \in Months /\ id \in metas
  BY PlaceSets DEF PutIndex, InOrder, TypeOK, Parts, job, index, Order, InPlace
<1>3. \A m \in Months : monthFile'[m] \subseteq metas /\ months[m] \subseteq monthFile'[m]
  BY <1>2 DEF InOrder, TypeOK, PublishedComplete, ShownRecorded
<1>4. PublishedComplete' /\ ShownRecorded'
  BY <1>2, <1>3 DEF InOrder, TypeOK, PublishedComplete, ShownRecorded
<1>5. InPlace(id)'
  <2>1. pc'[id] = q /\ id \in monthFile'[month'[id]]
    BY <1>1, <1>2 DEF InOrder, TypeOK
  <2>2. InPlace(id)
    BY DEF InOrder, Order
  <2> QED  BY <1>2, <2>1, <2>2, PlaceSets, PcSets DEF InPlace
<1> QED  BY <1>1, <1>2, <1>4, <1>5, PcSets, OthersInPlace DEF Readable

\* The last two steps of a job: its bundle is recorded already.
LEMMA ReadableRemember ==
  ASSUME InOrder, NEW id \in Ids, Remember(id)
  PROVE  Readable'
<1>1. /\ \A i \in Ids : Parts(i)' = Parts(i)
      /\ pc' = [pc EXCEPT ![id] = "remove"]
      /\ months' = [months EXCEPT ![month[id]] = @ \cup {id}]
      /\ UNCHANGED <<month, names, marked, objects, vectors, metas, monthFile>>
      /\ pc[id] = "memory" /\ id \in monthFile[month[id]]
  BY PlaceSets DEF Remember, InOrder, Parts, bucket, Order, InPlace
<1>2. PublishedComplete'
  BY <1>1, CompleteKept
<1>3. ShownRecorded'
  BY <1>1 DEF InOrder, TypeOK, ShownRecorded
<1>4. InPlace(id)'
  <2>1. InPlace(id) /\ pc'[id] = "remove"
    BY <1>1 DEF InOrder, Order, TypeOK
  <2> QED  BY <1>1, <2>1, PlaceSets, PcSets DEF InPlace
<1> QED  BY <1>1, <1>2, <1>3, <1>4, PcSets, OthersInPlace DEF Readable

LEMMA ReadableServe ==
  ASSUME InOrder, NEW id \in Ids, Serve(id)
  PROVE  Readable'
<1> USE DEF job, bucket, index
<1>1. ASSUME NEW digest \in BOOLEAN, Accept(id, digest)  PROVE Readable'
  <2>1. id \notin metas
    BY <1>1, PlaceSets, PcSets DEF Accept, InOrder, Order, InPlace
  <2> QED  BY <1>1, <2>1, ReadableIdle DEF Accept, InOrder, TypeOK
<1>2. CASE Busy(id)
  <2>1. id \notin metas
    BY <1>2, PlaceSets, PcSets DEF Busy, InOrder, Order, InPlace
  <2> QED  BY <1>2, <2>1, ReadableIdle DEF Busy
<1>3. CASE PutObjectFails(id) \/ RefuseIndex(id) \/ PutFails(id)
  <2>1. /\ pc' = [pc EXCEPT ![id] = "failed"] /\ pc[id] \in Working
        /\ UNCHANGED <<month, names, marked, objects, vectors, metas, monthFile, months>>
    BY <1>3, PcSets DEF PutObjectFails, RefuseIndex, PutFails
  <2> QED  BY <2>1, PcSets, ReadableIdle
<1>4. ASSUME NEW f \in Files, Remove(id, f)  PROVE Readable'
  BY <1>4 DEF Remove, InOrder, Readable, Order, InPlace, Parts, PublishedComplete,
     ShownRecorded
<1>5. CASE Finish(id)
  BY <1>5, PcSets, ReadableIdle DEF Finish
<1> QED
  BY <1>1, <1>2, <1>3, <1>4, <1>5, ReadablePutObject, ReadablePutVectors,
     ReadablePutMeta, ReadablePutIndex, ReadableRemember DEF Serve

LEMMA ReadableNext ==
  ASSUME InOrder, [Next]_vars
  PROVE  Readable'
<1> USE DEF job, bucket, index
<1>1. ASSUME NEW f \in Files, Stage(f)  PROVE Readable'
  BY <1>1 DEF Stage, InOrder, Readable, Order, InPlace, Parts, PublishedComplete,
     ShownRecorded
<1>2. ASSUME NEW id \in Ids, Request(id)  PROVE Readable'
  <2>1. id \notin metas
    BY <1>2, PlaceSets, PcSets DEF Request, InOrder, Order, InPlace
  <2> QED  BY <1>2, <2>1, ReadableIdle DEF Request, InOrder, TypeOK
<1>3. CASE Restart
  <2>1. /\ UNCHANGED <<month, names, marked, objects, vectors, metas, monthFile>>
        /\ \A i \in Ids : pc'[i] = IF pc[i] \in Over \cup {"new"} THEN pc[i] ELSE "dead"
    BY <1>3 DEF Restart
  <2>2. PublishedComplete'
    BY <2>1 DEF InOrder, PublishedComplete, Parts
  <2>3. ShownRecorded'
    BY <1>3, <2>1 DEF Restart, Load, LoadFails, InOrder, TypeOK, ShownRecorded
  <2>4. Order'
    BY <2>1, PlaceSets, PcSets DEF InOrder, TypeOK, Order, InPlace
  <2> QED  BY <2>2, <2>3, <2>4 DEF Readable
<1>4. CASE UNCHANGED vars
  BY <1>4 DEF vars, InOrder, Readable, Order, InPlace, Parts, PublishedComplete,
     ShownRecorded
<1> QED
  BY <1>1, <1>2, <1>3, <1>4, NextCases, ReadableServe

THEOREM OrderHolds == Spec => []InOrder
<1>1. Init => Readable
  <2>1. Init => \A id \in Ids : pc[id] = "new" /\ id \notin metas
    BY DEF Init
  <2>2. Init => Order
    BY <2>1, PlaceSets, PcSets DEF Order, InPlace
  <2>3. Init => PublishedComplete /\ ShownRecorded
    BY DEF Init, PublishedComplete, ShownRecorded
  <2> QED  BY <2>2, <2>3 DEF Readable
<1>2. TypeOK /\ SingleFlight /\ Readable /\ [Next]_vars => Readable'
  BY ReadableNext DEF Readable, InOrder
<1>3. TypeOK /\ SingleFlight /\ Readable => InOrder
  BY DEF Readable, InOrder
<1> QED
  BY <1>1, <1>2, <1>3, TypeCorrect, OneAtATime, PTL DEF Spec

\* What a reader can find in the bucket is complete, and the calendar shows no
\* bundle the bucket does not record: whatever writes fail or lose their
\* answer, and wherever the server stops.
THEOREM CompleteAlways == Spec => [](PublishedComplete /\ ShownRecorded)
<1>1. InOrder => PublishedComplete /\ ShownRecorded
  BY DEF InOrder
<1> QED
  BY <1>1, OrderHolds, PTL

-----------------------------------------------------------------------------
\* Nothing that was promised is lost, when the index can be listed at startup

\* A bundle that stays recorded: its month file lists it, and the next rewrite
\* of that file will list it too or be refused.
Safe(id) ==
  /\ id \in monthFile[month[id]]
  /\ id \in months[month[id]] \/ month[id] \in broken

\* A content is still staged, or a bundle that stays recorded holds it.
HeldSafely(f) == f \in staged \/ \E id \in Ids : Safe(id) /\ f \in objects[id]

Promised ==
  /\ \A id \in acked : Safe(id)
  /\ \A id \in Ids : pc[id] = "remove" => Safe(id) /\ left[id] \subseteq names[id]
  /\ \A f \in submitted : HeldSafely(f)

\* Every step leaves the other bundles of the index recorded; this is where a
\* failed listing would do harm.
LEMMA SafeStays ==
  ASSUME ~ ListErrors, InOrder, [Next]_vars, NEW id \in Ids, Safe(id)
  PROVE  Safe(id)' /\ objects[id] \subseteq objects'[id]
<1> USE DEF job, bucket, index
<1>0. month[id] \in Months /\ month \in [Ids -> Months]
      /\ monthFile \in [Months -> SUBSET Ids] /\ months \in [Months -> SUBSET Ids]
      /\ objects \in [Ids -> SUBSET (Files \cup {Mark})]
  BY DEF InOrder, TypeOK
<1>1. ASSUME NEW f \in Files, Stage(f)
      PROVE  Safe(id)' /\ objects[id] \subseteq objects'[id]
  BY <1>1 DEF Stage, Safe
<1>2. ASSUME NEW i \in Ids, Request(i)
      PROVE  Safe(id)' /\ objects[id] \subseteq objects'[id]
  BY <1>2 DEF Request, Safe
<1>3. CASE Restart
  <2>1. UNCHANGED <<month, objects, monthFile>>
    BY <1>3 DEF Restart
  <2>2. id \in months'[month[id]] \/ month[id] \in broken'
    BY <1>0, <1>3 DEF Restart, Load, LoadFails, Safe
  <2> QED  BY <2>1, <2>2 DEF Safe
<1>4. ASSUME NEW i \in Ids, PutIndex(i)
      PROVE  Safe(id)' /\ objects[id] \subseteq objects'[id]
  <2>1. /\ UNCHANGED <<month, objects, months, broken>>
        /\ month[i] \notin broken /\ month[i] \in Months
        /\ monthFile' = [monthFile EXCEPT ![month[i]] = months[month[i]] \cup {i}]
    BY <1>0, <1>4 DEF PutIndex
  <2>2. id \in monthFile'[month[id]]
    <3>1. CASE month[id] = month[i]
      BY <1>0, <2>1, <3>1 DEF Safe
    <3>2. CASE month[id] # month[i]
      BY <1>0, <2>1, <3>2 DEF Safe
    <3> QED  BY <3>1, <3>2
  <2> QED  BY <2>1, <2>2 DEF Safe
<1>5. ASSUME NEW i \in Ids, Remember(i)
      PROVE  Safe(id)' /\ objects[id] \subseteq objects'[id]
  BY <1>0, <1>5 DEF Remember, Safe
<1>6. ASSUME NEW i \in Ids, NEW o \in Files \cup {Mark}, PutObject(i, o)
      PROVE  Safe(id)' /\ objects[id] \subseteq objects'[id]
  BY <1>0, <1>6 DEF PutObject, Safe
<1>7. ASSUME NEW i \in Ids, Serve(i)
      PROVE  Safe(id)' /\ objects[id] \subseteq objects'[id]
  BY <1>4, <1>5, <1>6, <1>7 DEF Serve, Accept, Busy, PutObjectFails, PutVectors,
     PutMeta, RefuseIndex, PutFails, Remove, Finish, Safe
<1>8. CASE UNCHANGED vars
  BY <1>8 DEF vars, Safe
<1> QED
  BY <1>1, <1>2, <1>3, <1>7, <1>8, NextCases

\* A content that is held safely stays so in every step that does not remove
\* its staged copy.
LEMMA HeldStays ==
  ASSUME ~ ListErrors, InOrder, [Next]_vars, NEW f, HeldSafely(f),
         f \in staged => f \in staged'
  PROVE  HeldSafely(f)'
  BY SafeStays DEF HeldSafely

\* A step that stages nothing, removes nothing, ends no job well and sends
\* none to the removal.
LEMMA PromisedIdle ==
  ASSUME ~ ListErrors, InOrder, Promised, [Next]_vars,
         UNCHANGED <<staged, submitted, acked, left>>,
         \A i \in Ids : pc'[i] = "remove" => pc[i] = "remove" /\ names'[i] = names[i]
  PROVE  Promised'
<1>1. \A i \in Ids : Safe(i) => Safe(i)'
  BY SafeStays
<1>2. acked \subseteq Ids
  BY DEF InOrder, TypeOK
<1>3. \A f \in submitted' : HeldSafely(f)'
  BY HeldStays DEF Promised
<1> QED  BY <1>1, <1>2, <1>3 DEF Promised

LEMMA PromisedServe ==
  ASSUME ~ ListErrors, InOrder, Promised, NEW id \in Ids, Serve(id), [Next]_vars
  PROVE  Promised'
<1> USE DEF workspace, job, bucket, index
<1>0. /\ \A i \in Ids : Safe(i) => Safe(i)'
      /\ \A i \in Ids : objects[i] \subseteq objects'[i]
      /\ acked \subseteq Ids
      /\ pc \in [Ids -> Pcs] /\ left \in [Ids -> SUBSET Files]
  <2>1. acked \subseteq Ids /\ pc \in [Ids -> Pcs] /\ left \in [Ids -> SUBSET Files]
    BY DEF InOrder, TypeOK, Pcs
  <2>2. \A i \in Ids : objects[i] \subseteq objects'[i]
    <3>1. CASE \E o \in Files \cup {Mark} : PutObject(id, o)
      BY <3>1 DEF PutObject, InOrder, TypeOK
    <3>2. CASE ~ \E o \in Files \cup {Mark} : PutObject(id, o)
      BY <3>2 DEF Serve, Accept, Busy, PutObjectFails, PutVectors, PutMeta, PutIndex,
         RefuseIndex, PutFails, Remember, Remove, Finish
    <3> QED  BY <3>1, <3>2
  <2> QED  BY <2>1, <2>2, SafeStays
<1>1. CASE Remember(id)
  <2>1. \A f \in submitted' : HeldSafely(f)'
    BY <1>1, HeldStays DEF Remember, Promised
  <2>2. Safe(id)' /\ left'[id] = names'[id]
    <3>1. id \in monthFile[month[id]] /\ month[id] \in Months
      BY <1>1, PlaceSets DEF Remember, InOrder, TypeOK, Order, InPlace
    <3> QED  BY <1>1, <3>1 DEF Remember, Safe, InOrder, TypeOK
  <2>3. \A i \in Ids \ {id} : pc'[i] = pc[i] /\ left'[i] = left[i] /\ names'[i] = names[i]
    BY <1>0, <1>1 DEF Remember
  <2> QED  BY <1>0, <1>1, <2>1, <2>2, <2>3 DEF Promised, Remember
<1>2. ASSUME NEW f \in Files, Remove(id, f)  PROVE Promised'
  <2>1. Safe(id) /\ left[id] \subseteq names[id] /\ names[id] \subseteq objects[id]
    BY <1>2, PlaceSets DEF Remove, Promised, InOrder, Order, InPlace, Parts
  <2>2. Safe(id)' /\ f \in objects'[id]
    BY <1>0, <1>2, <2>1 DEF Remove
  <2>3. ASSUME NEW g \in submitted'  PROVE HeldSafely(g)'
    <3>1. CASE g = f
      BY <2>2, <3>1 DEF HeldSafely
    <3>2. CASE g # f
      <4>1. g \in submitted /\ (g \in staged => g \in staged')
        BY <1>2, <3>2 DEF Remove
      <4> QED  BY <4>1, HeldStays DEF Promised
    <3> QED  BY <3>1, <3>2
  <2>4. \A i \in Ids : left'[i] \subseteq left[i]
    BY <1>0, <1>2 DEF Remove
  <2> QED  BY <1>0, <1>2, <2>3, <2>4 DEF Remove, Promised
<1>3. CASE Finish(id)
  <2>1. Safe(id)'
    BY <1>0, <1>3 DEF Finish, Promised
  <2>2. \A f \in submitted' : HeldSafely(f)'
    BY <1>3, HeldStays DEF Finish, Promised
  <2>3. \A i \in Ids : pc'[i] = "remove" => pc[i] = "remove"
    BY <1>0, <1>3 DEF Finish
  <2> QED  BY <1>0, <1>3, <2>1, <2>2, <2>3 DEF Finish, Promised
<1>4. ASSUME NEW o \in Files \cup {Mark}, PutObject(id, o)  PROVE Promised'
  <2>1. (IF Parts(id) \subseteq objects'[id] THEN AfterObjects(id) ELSE "files") # "remove"
    BY DEF AfterObjects
  <2> QED  BY <1>0, <1>4, <2>1, PromisedIdle DEF PutObject
<1>5. CASE \E digest \in BOOLEAN : Accept(id, digest)
  BY <1>0, <1>5, PromisedIdle DEF Accept
<1>6. CASE \/ Busy(id) \/ PutObjectFails(id) \/ PutVectors(id) \/ PutMeta(id)
           \/ PutIndex(id) \/ RefuseIndex(id) \/ PutFails(id)
  BY <1>0, <1>6, PromisedIdle DEF Busy, PutObjectFails, PutVectors, PutMeta, PutIndex,
     RefuseIndex, PutFails
<1> QED
  BY <1>1, <1>2, <1>3, <1>4, <1>5, <1>6 DEF Serve

LEMMA PromisedNext ==
  ASSUME ~ ListErrors, InOrder, Promised, [Next]_vars
  PROVE  Promised'
<1> USE DEF workspace, job, bucket, index
<1>0. pc \in [Ids -> Pcs]
  BY DEF InOrder, TypeOK, Pcs
<1>1. ASSUME NEW f \in Files, Stage(f)  PROVE Promised'
  <2>1. ASSUME NEW g \in submitted'  PROVE HeldSafely(g)'
    <3>1. CASE g = f
      BY <1>1, <3>1 DEF Stage, HeldSafely
    <3>2. CASE g # f
      BY <1>1, <3>2, HeldStays DEF Stage, Promised
    <3> QED  BY <3>1, <3>2
  <2>2. \A i \in Ids : Safe(i) => Safe(i)'
    BY SafeStays
  <2> QED  BY <1>1, <2>1, <2>2 DEF Stage, Promised, InOrder, TypeOK
<1>2. ASSUME NEW id \in Ids, Request(id)  PROVE Promised'
  BY <1>0, <1>2, PromisedIdle DEF Request, InOrder, TypeOK
<1>3. CASE Restart
  BY <1>0, <1>3, PcSets, PromisedIdle DEF Restart
<1>4. CASE UNCHANGED vars
  BY <1>4, PromisedIdle DEF vars
<1> QED
  BY <1>1, <1>2, <1>3, <1>4, NextCases, PromisedServe

THEOREM PromisedAlways ==
  ASSUME ~ ListErrors
  PROVE  Spec => []Promised
<1>1. Init => Promised
  BY DEF Init, Promised
<1>2. InOrder /\ Promised /\ [Next]_vars => Promised'
  BY PromisedNext
<1> QED
  BY <1>1, <1>2, OrderHolds, PTL DEF Spec

LEMMA PromisedMeans ==
  ASSUME Promised
  PROVE  NothingForgotten /\ DoneShown /\ FileKept
  BY DEF Promised, Safe, HeldSafely, NothingForgotten, DoneShown, FileKept

\* When the index can be listed at startup, a push that was reported as done
\* stays recorded, through any later pushes, failures and restarts.
THEOREM DoneIsForGood ==
  ASSUME ~ ListErrors
  PROVE  Spec => []NothingForgotten
<1>1. Promised => NothingForgotten
  BY PromisedMeans
<1> QED  BY <1>1, PromisedAlways, PTL

\* Under the same assumption the calendar shows it, or its month is broken.
THEOREM DoneIsShown ==
  ASSUME ~ ListErrors
  PROVE  Spec => []DoneShown
<1>1. Promised => DoneShown
  BY PromisedMeans
<1> QED  BY <1>1, PromisedAlways, PTL

\* And no content is lost by removing its staged copy.
THEOREM FilesKept ==
  ASSUME ~ ListErrors
  PROVE  Spec => []FileKept
<1>1. Promised => FileKept
  BY PromisedMeans
<1> QED  BY <1>1, PromisedAlways, PTL

-----------------------------------------------------------------------------
\* The job, the bucket and the index implement Archive

\* A bundle is made of contents that were staged, is not empty once its job
\* runs, and until its job removes them its files are staged still.
Filled(id) ==
  /\ names[id] \cup objects[id] \subseteq submitted \cup {Mark}
  /\ pc[id] \in {"new", "listed"} => objects[id] = {}
  /\ pc[id] \in {"listed"} \cup Working => names[id] # {}
  /\ pc[id] \in Working \ {"remove"} => objects[id] \subseteq staged \cup {Mark}
  /\ id \in monthFile[month[id]] => pc[id] \in Indexed \cup Over

AllFilled == \A id \in Ids : Filled(id)

\* A step of a job concerns no other bundle.
LEMMA OthersFilled ==
  ASSUME InOrder, AllFilled, NEW id \in Ids, pc[id] \in Working, Serve(id), Filled(id)'
  PROVE  AllFilled'
<1> USE DEF workspace, job, bucket, index
<1> SUFFICES ASSUME NEW i \in Ids, i # id  PROVE Filled(i)'
  BY DEF AllFilled
<1>1. Filled(i) /\ pc[i] \notin Working
  BY DEF AllFilled, InOrder, SingleFlight
<1>2. /\ pc'[i] = pc[i] /\ names'[i] = names[i] /\ objects'[i] = objects[i]
      /\ UNCHANGED <<submitted, month>>
  BY PcSets DEF Serve, Accept, Busy, PutObject, PutObjectFails, PutVectors, PutMeta,
     PutIndex, RefuseIndex, PutFails, Remember, Remove, Finish, InOrder, TypeOK
<1>3. i \in monthFile'[month[i]] => i \in monthFile[month[i]]
  <2>1. CASE PutIndex(id)
    <3>1. monthFile' = [monthFile EXCEPT ![month[id]] = months[month[id]] \cup {id}]
      BY <2>1 DEF PutIndex
    <3>2. months[month[id]] \subseteq monthFile[month[id]]
      BY DEF InOrder, TypeOK, ShownRecorded
    <3> QED  BY <3>1, <3>2 DEF InOrder, TypeOK
  <2>2. CASE ~ PutIndex(id)
    BY <2>2 DEF Serve, Accept, Busy, PutObject, PutObjectFails, PutVectors, PutMeta,
       RefuseIndex, PutFails, Remember, Remove, Finish
  <2> QED  BY <2>1, <2>2
<1> QED  BY <1>1, <1>2, <1>3 DEF Filled

LEMMA FilledServe ==
  ASSUME InOrder, AllFilled, NEW id \in Ids, Serve(id)
  PROVE  AllFilled'
<1> USE DEF workspace, job, bucket, index
<1>0. Filled(id) /\ pc \in [Ids -> Pcs] /\ objects \in [Ids -> SUBSET (Files \cup {Mark})]
  BY DEF AllFilled, InOrder, TypeOK, Pcs
<1>1. ASSUME NEW digest \in BOOLEAN, Accept(id, digest)  PROVE AllFilled'
  <2>1. /\ \A i \in Ids \ {id} : pc'[i] = pc[i]
        /\ pc'[id] = "files" /\ pc[id] = "listed"
        /\ UNCHANGED <<staged, submitted, names, objects, month, monthFile>>
    BY <1>0, <1>1 DEF Accept
  <2>2. Filled(id)'
    BY <1>0, <2>1, PcSets, PlaceSets DEF Filled
  <2>3. \A i \in Ids \ {id} : Filled(i)'
    BY <2>1 DEF AllFilled, Filled
  <2> QED  BY <2>2, <2>3 DEF AllFilled
<1>2. CASE Busy(id)
  <2>1. /\ \A i \in Ids \ {id} : pc'[i] = pc[i]
        /\ pc'[id] = "failed"
        /\ UNCHANGED <<staged, submitted, names, objects, month, monthFile>>
    BY <1>0, <1>2 DEF Busy
  <2>2. Filled(id)'
    BY <1>0, <2>1, PcSets, PlaceSets DEF Filled
  <2>3. \A i \in Ids \ {id} : Filled(i)'
    BY <2>1 DEF AllFilled, Filled
  <2> QED  BY <2>2, <2>3 DEF AllFilled
<1>3. ASSUME NEW o \in Files \cup {Mark}, PutObject(id, o)  PROVE Filled(id)'
  <2>1. /\ pc[id] = "files" /\ pc'[id] \in {"files", "vectors", "meta", "failed"}
        /\ objects'[id] = objects[id] \cup {o} /\ o \in staged \cup {Mark}
        /\ UNCHANGED <<staged, submitted, names, month, monthFile>>
    BY <1>0, <1>3 DEF PutObject, AfterObjects
  <2>2. staged \subseteq submitted
    BY DEF InOrder, TypeOK
  <2> QED  BY <1>0, <2>1, <2>2, PcSets, PlaceSets DEF Filled
<1>4. ASSUME PutIndex(id)  PROVE Filled(id)'
  <2>1. /\ pc[id] = "index" /\ pc'[id] \in {"memory", "failed"}
        /\ UNCHANGED <<staged, submitted, names, objects, month>>
    BY <1>0, <1>4 DEF PutIndex
  <2> QED  BY <1>0, <2>1, PcSets, PlaceSets DEF Filled
<1>5. ASSUME \/ PutObjectFails(id) \/ PutVectors(id) \/ PutMeta(id)
             \/ RefuseIndex(id) \/ PutFails(id)
      PROVE  Filled(id)'
  <2>1. /\ pc[id] \in {"files", "vectors", "meta", "index"}
        /\ pc'[id] \in {"meta", "index", "failed"}
        /\ UNCHANGED <<staged, submitted, names, objects, month, monthFile>>
    BY <1>0, <1>5, PcSets DEF PutObjectFails, PutVectors, PutMeta, RefuseIndex, PutFails
  <2> QED  BY <1>0, <2>1, PcSets, PlaceSets DEF Filled
<1>6. ASSUME Remember(id) \/ (\E f \in Files : Remove(id, f)) \/ Finish(id)
      PROVE  Filled(id)'
  <2>1. /\ pc[id] \in {"memory", "remove"} /\ pc'[id] \in {"remove", "done"}
        /\ UNCHANGED <<submitted, names, objects, month, monthFile>>
    BY <1>0, <1>6 DEF Remember, Remove, Finish
  <2> QED  BY <1>0, <2>1, PcSets, PlaceSets DEF Filled
<1>7. CASE pc[id] \in Working
  <2>1. ~ (\E digest \in BOOLEAN : Accept(id, digest)) /\ ~ Busy(id)
    BY <1>7, PcSets DEF Accept, Busy
  <2>2. Filled(id)'
    BY <2>1, <1>3, <1>4, <1>5, <1>6 DEF Serve
  <2> QED  BY <1>7, <2>2, OthersFilled
<1>8. CASE pc[id] \notin Working
  BY <1>1, <1>2, <1>8, PcSets DEF Serve, PutObject, PutObjectFails, PutVectors,
     PutMeta, PutIndex, RefuseIndex, PutFails, Remember, Remove, Finish
<1> QED
  BY <1>7, <1>8

LEMMA FilledNext ==
  ASSUME InOrder, AllFilled, [Next]_vars
  PROVE  AllFilled'
<1> USE DEF workspace, job, bucket, index
<1>1. ASSUME NEW f \in Files, Stage(f)  PROVE AllFilled'
  BY <1>1 DEF Stage, AllFilled, Filled
<1>2. ASSUME NEW id \in Ids, Request(id)  PROVE AllFilled'
  <2>1. /\ pc'[id] = "listed" /\ pc[id] = "new" /\ names'[id] = staged /\ staged # {}
        /\ \A i \in Ids \ {id} : pc'[i] = pc[i] /\ names'[i] = names[i]
        /\ UNCHANGED <<staged, submitted, objects, month, monthFile>>
        /\ staged \subseteq submitted
    BY <1>2 DEF Request, InOrder, TypeOK
  <2>2. Filled(id)'
    BY <2>1, PcSets, PlaceSets DEF AllFilled, Filled
  <2>3. \A i \in Ids \ {id} : Filled(i)'
    BY <2>1 DEF AllFilled, Filled
  <2> QED  BY <2>2, <2>3 DEF AllFilled
<1>3. CASE Restart
  <2>1. /\ \A i \in Ids : pc'[i] = IF pc[i] \in Over \cup {"new"} THEN pc[i] ELSE "dead"
        /\ UNCHANGED <<staged, submitted, names, objects, month, monthFile>>
    BY <1>3 DEF Restart
  <2> QED  BY <2>1, PcSets, PlaceSets DEF AllFilled, Filled
<1>4. CASE UNCHANGED vars
  BY <1>4 DEF vars, AllFilled, Filled
<1> QED
  BY <1>1, <1>2, <1>3, <1>4, NextCases, FilledServe

THEOREM FilledAlways == Spec => []AllFilled
<1>1. Init => AllFilled
  BY PcSets DEF Init, AllFilled, Filled
<1>2. InOrder /\ AllFilled /\ [Next]_vars => AllFilled'
  BY FilledNext
<1> QED
  BY <1>1, <1>2, OrderHolds, PTL DEF Spec

\* The recorded files of each bundle, as Archive sees them.
Recorded == [id \in Ids |-> IF id \in monthFile[month[id]]
                            THEN objects[id] \ {Mark} ELSE {}]

LEMMA SeenAs ==
  /\ Promise!Held(Recorded) = UNION {Recorded[id] : id \in Ids}
  /\ Promise!vars = <<staged, Recorded, acked>>
  BY DEF Promise!Held, Promise!vars, Recorded

\* Who holds a content, element by element.
LEMMA HeldMember ==
  ASSUME NEW f
  PROVE  f \in Promise!Held(Recorded) <=>
           \E id \in Ids : id \in monthFile[month[id]] /\ f \in objects[id] /\ f # Mark
  BY DEF Promise!Held, Recorded

LEMMA ArchiveStutters ==
  ASSUME UNCHANGED <<staged, acked, month, monthFile>>,
         \A i \in Ids : i \in monthFile[month[i]] => objects'[i] = objects[i]
  PROVE  UNCHANGED Promise!vars
<1>1. Recorded' = Recorded
  BY DEF Recorded
<1> QED  BY <1>1 DEF Promise!vars, Recorded

LEMMA ArchiveSubmit ==
  ASSUME InOrder, AllFilled, NEW f \in Files, Stage(f)
  PROVE  Promise!Submit(f)
<1> USE DEF bucket, index, job
<1>1. f \notin staged
  BY DEF Stage, InOrder, TypeOK
<1>2. f \notin Promise!Held(Recorded)
  BY HeldMember DEF Stage, AllFilled, Filled
<1>3. UNCHANGED <<month, monthFile, objects, acked>> /\ staged' = staged \cup {f}
  BY DEF Stage
<1>4. Recorded' = Recorded
  BY <1>3 DEF Recorded
<1> QED  BY <1>1, <1>2, <1>3, <1>4 DEF Promise!Submit, Recorded

LEMMA ArchiveRecord ==
  ASSUME ~ ListErrors, InOrder, Promised, AllFilled, [Next]_vars,
         NEW id \in Ids, PutIndex(id)
  PROVE  Promise!Record(id)
<1> USE DEF bucket, index, job, workspace
<1>1. /\ pc[id] = "index" /\ month[id] \in Months /\ month[id] \notin broken
      /\ monthFile' = [monthFile EXCEPT ![month[id]] = months[month[id]] \cup {id}]
      /\ UNCHANGED <<staged, submitted, acked, month, objects, months, broken>>
  BY DEF PutIndex, InOrder, TypeOK
<1>2. /\ month \in [Ids -> Months] /\ monthFile \in [Months -> SUBSET Ids]
      /\ objects \in [Ids -> SUBSET (Files \cup {Mark})] /\ acked \subseteq Ids
      /\ staged \subseteq submitted /\ submitted \subseteq Files
  BY DEF InOrder, TypeOK
<1>3. Recorded[id] = {}
  BY <1>1, PcSets, PlaceSets DEF Recorded, AllFilled, Filled
<1>4. Recorded' \in [Ids -> SUBSET Files]
  BY <1>1, <1>2 DEF Recorded
<1>5. Recorded'[id] \in (SUBSET staged) \ {{}}
  <2>1. Recorded'[id] = objects[id] \ {Mark}
    BY <1>1, <1>2 DEF Recorded
  <2>2. objects[id] \subseteq staged \cup {Mark} /\ names[id] # {}
    BY <1>1, PcSets DEF AllFilled, Filled
  <2>3. names[id] \subseteq objects[id] /\ names[id] \subseteq Files
    BY <1>1, PlaceSets DEF InOrder, TypeOK, Order, InPlace, Parts
  <2> QED  BY <2>1, <2>2, <2>3, MarkAssumption
<1>6. ASSUME NEW other \in Ids \ {id}
      PROVE  Recorded'[other] = Recorded[other] \/ (other \notin acked /\ Recorded'[other] = {})
  <2>1. CASE other \in acked
    <3>1. Safe(other) /\ Safe(other)'
      BY <2>1, SafeStays DEF Promised
    <3> QED  BY <1>1, <3>1 DEF Safe, Recorded
  <2>2. CASE other \notin acked
    <3>1. other \in monthFile'[month[other]] => other \in monthFile[month[other]]
      BY <1>1, <1>2 DEF InOrder, TypeOK, ShownRecorded
    <3> QED  BY <1>1, <2>2, <3>1 DEF Recorded
  <2> QED  BY <2>1, <2>2
<1>7. Promise!Held(Recorded) \subseteq staged \cup Promise!Held(Recorded')
  <2> SUFFICES ASSUME NEW f \in Promise!Held(Recorded), f \notin staged
               PROVE  f \in Promise!Held(Recorded')
    OBVIOUS
  <2>1. PICK i \in Ids : i \in monthFile[month[i]] /\ f \in objects[i] /\ f # Mark
    BY HeldMember
  <2>2. HeldSafely(f)
    BY <2>1 DEF AllFilled, Filled, Promised
  <2>3. PICK j \in Ids : Safe(j) /\ f \in objects[j]
    BY <2>2 DEF HeldSafely
  <2>4. Safe(j)' /\ f \in objects'[j]
    BY <2>3, SafeStays
  <2>5. f \in Recorded'[j]
    BY <2>1, <2>4 DEF Safe, Recorded
  <2> QED  BY <2>5 DEF Promise!Held
<1> QED
  BY <1>1, <1>3, <1>4, <1>5, <1>6, <1>7 DEF Promise!Record, Recorded

LEMMA ArchiveDrop ==
  ASSUME InOrder, Promised, NEW id \in Ids, NEW f \in Files, Remove(id, f)
  PROVE  Promise!Drop(f) \/ UNCHANGED Promise!vars
<1> USE DEF bucket, index, job
<1>1. /\ staged' = staged \ {f} \/ staged' = staged
      /\ UNCHANGED <<acked, month, monthFile, objects>>
  BY DEF Remove
<1>2. Safe(id) /\ f \in objects[id] /\ f # Mark
  BY PlaceSets, MarkAssumption DEF Remove, Promised, InOrder, Order, InPlace, Parts
<1>3. f \in Promise!Held(Recorded)
  BY <1>2, HeldMember DEF Safe
<1>4. Recorded' = Recorded
  BY <1>1 DEF Recorded
<1>5. CASE staged' # staged
  <2>1. f \in staged /\ staged' = staged \ {f}
    BY <1>1, <1>5
  <2> QED  BY <1>1, <1>3, <1>4, <2>1 DEF Promise!Drop, Recorded
<1>6. CASE staged' = staged
  BY <1>1, <1>6, ArchiveStutters
<1> QED  BY <1>5, <1>6

LEMMA ArchiveConfirm ==
  ASSUME InOrder, Promised, AllFilled, NEW id \in Ids, Finish(id)
  PROVE  Promise!Confirm(id)
<1> USE DEF bucket, index, job
<1>1. id \in monthFile[month[id]] /\ names[id] # {} /\ names[id] \subseteq objects[id]
      /\ names[id] \subseteq Files
  BY PcSets, PlaceSets DEF Finish, InOrder, TypeOK, Order, InPlace, Parts, AllFilled, Filled
<1>2. Recorded[id] # {}
  BY <1>1, MarkAssumption DEF Recorded
<1>3. UNCHANGED <<staged, month, monthFile, objects>> /\ acked' = acked \cup {id}
  BY DEF Finish
<1>4. Recorded' = Recorded
  BY <1>3 DEF Recorded
<1> QED  BY <1>2, <1>3, <1>4 DEF Promise!Confirm, Recorded

LEMMA ArchiveStep ==
  ASSUME ~ ListErrors, InOrder, Promised, AllFilled, [Next]_vars
  PROVE  [Promise!Next]_(Promise!vars)
<1> USE DEF workspace, bucket, index, job
<1>1. ASSUME NEW f \in Files, Stage(f)  PROVE Promise!Next
  BY <1>1, ArchiveSubmit DEF Promise!Next
<1>2. CASE (\E id \in Ids : Request(id)) \/ Restart \/ UNCHANGED vars
  BY <1>2, ArchiveStutters DEF Request, Restart, vars
<1>3. ASSUME NEW id \in Ids, PutIndex(id)  PROVE Promise!Next
  BY <1>3, ArchiveRecord DEF Promise!Next
<1>4. ASSUME NEW id \in Ids, NEW f \in Files, Remove(id, f)
      PROVE  Promise!Next \/ UNCHANGED Promise!vars
  BY <1>4, ArchiveDrop DEF Promise!Next
<1>5. ASSUME NEW id \in Ids, Finish(id)  PROVE Promise!Next
  BY <1>5, ArchiveConfirm DEF Promise!Next
<1>6. ASSUME NEW id \in Ids, NEW o \in Files \cup {Mark}, PutObject(id, o)
      PROVE  UNCHANGED Promise!vars
  <2>1. UNCHANGED <<staged, acked, month, monthFile>>
    BY <1>6 DEF PutObject
  <2>2. id \notin monthFile[month[id]]
    BY <1>6, PcSets, PlaceSets DEF PutObject, AllFilled, Filled
  <2>3. \A i \in Ids \ {id} : objects'[i] = objects[i]
    BY <1>6 DEF PutObject, InOrder, TypeOK
  <2> QED  BY <2>1, <2>2, <2>3, ArchiveStutters
<1>7. ASSUME NEW id \in Ids, Serve(id)
      PROVE  Promise!Next \/ UNCHANGED Promise!vars
  <2>1. CASE \/ \E digest \in BOOLEAN : Accept(id, digest)
             \/ Busy(id) \/ PutObjectFails(id) \/ PutVectors(id) \/ PutMeta(id)
             \/ RefuseIndex(id) \/ PutFails(id) \/ Remember(id)
    BY <2>1, ArchiveStutters DEF Accept, Busy, PutObjectFails, PutVectors, PutMeta,
       RefuseIndex, PutFails, Remember
  <2> QED  BY <1>3, <1>4, <1>5, <1>6, <1>7, <2>1 DEF Serve
<1> QED
  BY <1>1, <1>2, <1>7, NextCases

\* The push job, the bucket and the index keep the promise of Archive: what a
\* user staged stays pending until a recorded bundle holds it, only recorded
\* pushes are confirmed, and a confirmed bundle stays as it is.
THEOREM Implements ==
  ASSUME ~ ListErrors
  PROVE  Spec => ArchiveKept
<1>1. Init => Promise!Init
  BY DEF Init, Promise!Init
<1>2. InOrder /\ Promised /\ AllFilled /\ [Next]_vars => [Promise!Next]_(Promise!vars)
  BY ArchiveStep
<1> QED
  BY <1>1, <1>2, OrderHolds, PromisedAlways, FilledAlways, PTL
  DEF Spec, ArchiveKept, Promise!Spec

-----------------------------------------------------------------------------
\* When a failed write wrote nothing, month files only grow

\* Memory and file agree on a month that loaded, but for the entry of the job
\* that stands between the two writes of append.
Sync ==
  \A m \in Months \ broken :
    \/ monthFile[m] = months[m]
    \/ \E id \in Ids : /\ pc[id] = "memory" /\ month[id] = m
                       /\ monthFile[m] = months[m] \cup {id}

\* A step that leaves the index alone and no job between the two writes.
LEMMA SyncIdle ==
  ASSUME Sync, UNCHANGED <<month, monthFile, months, broken>>,
         \A i \in Ids : pc[i] = "memory" => pc'[i] = "memory"
  PROVE  Sync'
  BY DEF Sync

LEMMA SyncServe ==
  ASSUME ~ LostAcks, InOrder, Sync, NEW id \in Ids, Serve(id)
  PROVE  Sync' /\ \A m \in Months : monthFile[m] \subseteq monthFile'[m]
<1> USE DEF workspace, job, bucket, index
<1>0. /\ pc \in [Ids -> Pcs] /\ month \in [Ids -> Months]
      /\ monthFile \in [Months -> SUBSET Ids] /\ months \in [Months -> SUBSET Ids]
  BY DEF InOrder, TypeOK, Pcs
<1>1. CASE PutIndex(id)
  <2>1. /\ pc[id] = "index" /\ month[id] \in Months \ broken /\ pc'[id] = "memory"
        /\ monthFile' = [monthFile EXCEPT ![month[id]] = months[month[id]] \cup {id}]
        /\ UNCHANGED <<month, months, broken>>
    BY <1>0, <1>1 DEF PutIndex
  <2>2. \A i \in Ids : pc[i] # "memory"
    BY <2>1, PcSets DEF InOrder, SingleFlight
  <2>3. \A m \in Months \ broken : monthFile[m] = months[m]
    BY <2>2 DEF Sync
  <2>4. Sync'
    BY <1>0, <2>1, <2>3 DEF Sync
  <2> QED  BY <1>0, <2>1, <2>3, <2>4
<1>2. CASE Remember(id)
  <2>1. /\ pc[id] = "memory" /\ month[id] \in Months
        /\ months' = [months EXCEPT ![month[id]] = @ \cup {id}]
        /\ UNCHANGED <<month, monthFile, broken>>
    BY <1>0, <1>2 DEF Remember
  <2>2. \A i \in Ids \ {id} : pc[i] # "memory"
    BY <2>1, PcSets DEF InOrder, SingleFlight
  <2>3. id \in monthFile[month[id]]
    BY <2>1, PlaceSets DEF InOrder, Order, InPlace
  <2>4. ASSUME NEW m \in Months \ broken  PROVE monthFile[m] = months'[m]
    <3>1. CASE m = month[id]
      BY <1>0, <2>1, <2>2, <2>3, <3>1 DEF Sync
    <3>2. CASE m # month[id]
      BY <1>0, <2>1, <2>2, <3>2 DEF Sync
    <3> QED  BY <3>1, <3>2
  <2> QED  BY <2>1, <2>4 DEF Sync
<1>3. CASE \/ \E digest \in BOOLEAN : Accept(id, digest)
           \/ \E o \in Files \cup {Mark} : PutObject(id, o)
           \/ \E f \in Files : Remove(id, f)
           \/ Busy(id) \/ PutObjectFails(id) \/ PutVectors(id) \/ PutMeta(id)
           \/ RefuseIndex(id) \/ PutFails(id) \/ Finish(id)
  <2>1. UNCHANGED <<month, monthFile, months, broken>>
    BY <1>3 DEF Accept, PutObject, Remove, Busy, PutObjectFails, PutVectors, PutMeta,
       RefuseIndex, PutFails, Finish
  <2>2. pc[id] # "memory" /\ \A i \in Ids \ {id} : pc'[i] = pc[i]
    BY <1>0, <1>3 DEF Accept, PutObject, Remove, Busy, PutObjectFails, PutVectors,
       PutMeta, RefuseIndex, PutFails, Finish
  <2> QED  BY <2>1, <2>2, SyncIdle
<1> QED
  BY <1>1, <1>2, <1>3 DEF Serve

LEMMA SyncNext ==
  ASSUME ~ LostAcks, ~ ListErrors, InOrder, Sync, [Next]_vars
  PROVE  Sync' /\ \A m \in Months : monthFile[m] \subseteq monthFile'[m]
<1> USE DEF workspace, job, bucket, index
<1>1. CASE (\E f \in Files : Stage(f)) \/ (\E id \in Ids : Request(id)) \/ UNCHANGED vars
  <2>1. UNCHANGED <<month, monthFile, months, broken>>
    BY <1>1 DEF Stage, Request, vars
  <2>2. \A i \in Ids : pc[i] = "memory" => pc'[i] = "memory"
    BY <1>1 DEF Stage, Request, vars, InOrder, TypeOK
  <2> QED  BY <2>1, <2>2, SyncIdle
<1>2. CASE Restart
  BY <1>2 DEF Restart, Load, LoadFails, Sync
<1> QED
  BY <1>1, <1>2, NextCases, SyncServe

THEOREM SyncAlways ==
  ASSUME ~ LostAcks, ~ ListErrors
  PROVE  Spec => []Sync
<1>1. Init => Sync
  BY DEF Init, Sync
<1>2. InOrder /\ Sync /\ [Next]_vars => Sync'
  BY SyncNext
<1> QED
  BY <1>1, <1>2, OrderHolds, PTL DEF Spec

\* When a failed write wrote nothing and the index can be listed, memory and
\* month file agree between two pushes.
THEOREM SyncBetweenPushes ==
  ASSUME ~ LostAcks, ~ ListErrors
  PROVE  Spec => []InSync
<1>1. InOrder /\ Sync => InSync
  BY PcSets, NoPushAssumption DEF InOrder, SingleFlight, Sync, InSync
<1> QED
  BY <1>1, OrderHolds, SyncAlways, PTL

\* Under the same assumptions a rewrite of a month file never drops an entry.
THEOREM MonthsGrow ==
  ASSUME ~ LostAcks, ~ ListErrors
  PROVE  Spec => IndexGrows
<1>1. InOrder /\ Sync /\ [Next]_vars
        => [\A m \in Months : monthFile[m] \subseteq monthFile'[m]]_vars
  BY SyncNext
<1> QED
  BY <1>1, OrderHolds, SyncAlways, PTL DEF Spec, IndexGrows
=============================================================================
