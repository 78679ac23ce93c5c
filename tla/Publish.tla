------------------------------- MODULE Publish -------------------------------
(***************************************************************************)
(* A push of filestor and the bucket it writes (push.go, bundle.go,        *)
(* vectors.go, s3.go): the objects of a bundle, its digest vectors, its    *)
(* .meta.json, the monthly index and the copy of the index in memory.      *)
(*                                                                         *)
(* An id is one POST /upload/push: the handler makes a fresh UUID for each *)
(* request, so the id names the request, its background job and the bundle *)
(* alike.  Every call to the bucket is a step of its own; it may fail, it  *)
(* may land although the caller is told that it failed, and the server may *)
(* stop between any two of them.                                           *)
(***************************************************************************)
EXTENDS FiniteSets, Integers

CONSTANTS
  Ids,         \* push requests
  NoPush,      \* the push lock is free
  Months,      \* months a bundle may be dated in
  Files,       \* staged contents; each is staged once
  Mark,        \* the digest marks, as one object of the bundle
  MaxEntries,  \* entries a month file holds within getMaxBytes
  Embedding,   \* the embeddings endpoint and the vector store are configured
  Crashes,     \* the server may stop at any step and start again
  PutErrors,   \* a write to the bucket or the vector store may be refused
  LostAcks,    \* a write may land although it is reported as failed
  DiskErrors,  \* a staged file may fail to be removed
  ReadErrors,  \* a month file may fail to be read at startup
  ListErrors   \* the listing of index/ may fail at startup

ASSUME EntriesAssumption == MaxEntries \in Nat
ASSUME PushFlagsAssumption ==
  {Embedding, Crashes, PutErrors, LostAcks, DiskErrors, ReadErrors, ListErrors}
    \subseteq BOOLEAN
ASSUME NoPushAssumption == NoPush \notin Ids
ASSUME MarkAssumption == Mark \notin Files

VARIABLES
  \* the workspace
  staged,     \* contents in the workspace directory
  lock,       \* the push that holds the workspace, or NoPush
  \* the requests and their jobs
  pc,         \* where each request stands
  month,      \* the month of its time; it never changes
  names,      \* the files it listed
  marked,     \* it found digest marks
  left,       \* staged copies it has still to remove
  \* the bucket and the vector store
  objects,    \* files and marks under the bundle's prefix
  vectors,    \* bundles whose vectors are in the vector store
  metas,      \* bundles with a .meta.json
  monthFile,  \* index/YYYY/YYYY-MM.json: the ids it lists
  \* bundleIndex
  months,     \* the month's entries in memory
  broken,     \* months that failed to load
  \* history
  submitted,  \* every content that was ever staged
  acked       \* the pushes whose "done" was sent

workspace == <<staged, lock, submitted>>
job       == <<month, names, marked, left>>
bucket    == <<objects, vectors, metas, monthFile>>
index     == <<months, broken>>
vars      == <<workspace, pc, job, bucket, index, acked>>

-----------------------------------------------------------------------------
\* Who is where

Working == {"files", "vectors", "meta", "index", "memory", "remove"}
Over    == {"done", "failed", "dead"}

Goto(id, p) == pc' = [pc EXCEPT ![id] = p]

\* Seeded fault: the early return leaves the lock taken.
FailKeepsLock(id) == Goto(id, "failed") /\ UNCHANGED lock

\* runPush's fail: the lock is released and everything stays staged.
Fail(id) == Goto(id, "failed") /\ lock' = NoPush

\* The objects a bundle consists of, by the job's own lists.
Parts(id) == names[id] \cup (IF marked[id] THEN {Mark} ELSE {})

\* The three outcomes of a write: it lands and the job goes on to p, it is
\* refused, or it lands and the answer is lost.
Landed(id, p) == (Goto(id, p) /\ UNCHANGED lock) \/ (LostAcks /\ Fail(id))
Refused(id)   == PutErrors /\ Fail(id)

-----------------------------------------------------------------------------
\* The workspace and the handler

\* POST /upload/files puts a content in the workspace under the stage lock.
Stage(f) ==
  /\ lock = NoPush
  /\ f \notin submitted
  /\ staged' = staged \cup {f}
  /\ submitted' = submitted \cup {f}
  /\ UNCHANGED <<lock, pc, job, bucket, index, acked>>

\* The handler lists the workspace before it asks for the lock.
Request(id) ==
  /\ pc[id] = "new"
  /\ staged # {}
  /\ Goto(id, "listed")
  /\ names' = [names EXCEPT ![id] = staged]
  /\ UNCHANGED <<workspace, month, marked, left, bucket, index, acked>>

\* acquire succeeds and the job starts; it reads the digest directory first.
Accept(id, digest) ==
  /\ pc[id] = "listed"
  /\ lock = NoPush
  /\ lock' = id
  /\ Goto(id, "files")
  /\ marked' = [marked EXCEPT ![id] = digest]
  /\ UNCHANGED <<staged, submitted, month, names, left, bucket, index, acked>>

\* acquire fails: 409.
Busy(id) ==
  /\ pc[id] = "listed"
  /\ lock # NoPush
  /\ Goto(id, "failed")
  /\ UNCHANGED <<workspace, job, bucket, index, acked>>

-----------------------------------------------------------------------------
\* The job

\* Seeded fault: the meta is put without waiting for the vectors.
AfterObjectsMeta(id) == "meta"

\* The step after the last object: the vectors, when there is something to
\* embed and the pipeline is configured.
AfterObjects(id) == IF marked[id] /\ Embedding THEN "vectors" ELSE "meta"

\* pushOne puts the files first, the digest marks after them.
PutObject(id, o) ==
  /\ pc[id] = "files"
  /\ o \in Parts(id) \ objects[id]
  /\ o = Mark => names[id] \subseteq objects[id]
  /\ o \in staged \cup {Mark}
  /\ objects' = [objects EXCEPT ![id] = @ \cup {o}]
  /\ Landed(id, IF Parts(id) \subseteq objects'[id] THEN AfterObjects(id) ELSE "files")
  /\ UNCHANGED <<staged, submitted, job, vectors, metas, monthFile, index, acked>>

\* The put is refused, or the file is gone since the handler listed it.
PutObjectFails(id) ==
  /\ pc[id] = "files"
  /\ Refused(id) \/ (~ names[id] \subseteq staged \cup objects[id] /\ Fail(id))
  /\ UNCHANGED <<staged, submitted, job, bucket, index, acked>>

\* embedDigest and putVectors, which writes all the vectors in one request.
PutVectors(id) ==
  /\ pc[id] = "vectors"
  /\ vectors' = vectors \cup {id}
  /\ Landed(id, "meta")
  /\ UNCHANGED <<staged, submitted, job, objects, metas, monthFile, index, acked>>

PutMeta(id) ==
  /\ pc[id] = "meta"
  /\ metas' = metas \cup {id}
  /\ Landed(id, "index")
  /\ UNCHANGED <<staged, submitted, job, objects, vectors, monthFile, index, acked>>

\* Seeded fault: a month that failed to load is rewritten all the same.
PutIndexUnguarded(id) ==
  /\ pc[id] = "index"
  /\ monthFile' = [monthFile EXCEPT ![month[id]] = months[month[id]] \cup {id}]
  /\ Landed(id, "memory")
  /\ UNCHANGED <<staged, submitted, job, objects, vectors, metas, index, acked>>

\* bundleIndex.append rewrites the month file from the copy in memory.
PutIndex(id) ==
  /\ pc[id] = "index"
  /\ month[id] \notin broken
  /\ monthFile' = [monthFile EXCEPT ![month[id]] = months[month[id]] \cup {id}]
  /\ Landed(id, "memory")
  /\ UNCHANGED <<staged, submitted, job, objects, vectors, metas, index, acked>>

\* Seeded faults: the refusal is logged and the job goes on, or it waits for
\* the month to be read.
RefuseIndexIgnored(id) ==
  /\ pc[id] = "index"
  /\ month[id] \in broken
  /\ left' = [left EXCEPT ![id] = names[id]]
  /\ Goto(id, "remove")
  /\ UNCHANGED <<workspace, month, names, marked, bucket, index, acked>>

RefuseIndexWaits(id) ==
  /\ pc[id] = "index"
  /\ month[id] \in broken
  /\ UNCHANGED vars

\* append refuses a month that failed to load.
RefuseIndex(id) ==
  /\ pc[id] = "index"
  /\ month[id] \in broken
  /\ Fail(id)
  /\ UNCHANGED <<staged, submitted, job, bucket, index, acked>>

\* A write after the objects is refused (or the embedding fails).
PutFails(id) ==
  /\ pc[id] \in {"vectors", "meta"} \/ (pc[id] = "index" /\ month[id] \notin broken)
  /\ Refused(id)
  /\ UNCHANGED <<staged, submitted, job, bucket, index, acked>>

\* Seeded fault: the copy in memory is left as it was.
RememberNothing(id) ==
  /\ pc[id] = "memory"
  /\ left' = [left EXCEPT ![id] = names[id]]
  /\ Goto(id, "remove")
  /\ UNCHANGED <<workspace, month, names, marked, bucket, index, acked>>

\* The copy in memory follows once the write has landed.
Remember(id) ==
  /\ pc[id] = "memory"
  /\ months' = [months EXCEPT ![month[id]] = @ \cup {id}]
  /\ left' = [left EXCEPT ![id] = names[id]]
  /\ Goto(id, "remove")
  /\ UNCHANGED <<workspace, month, names, marked, bucket, broken, acked>>

\* One staged copy is removed; a failure is only logged.
Remove(id, f) ==
  /\ pc[id] = "remove"
  /\ f \in left[id]
  /\ left' = [left EXCEPT ![id] = @ \ {f}]
  /\ staged' = staged \ {f} \/ (DiskErrors /\ UNCHANGED staged)
  /\ UNCHANGED <<lock, submitted, pc, month, names, marked, bucket, index, acked>>

\* emitDone, and the deferred release.
Finish(id) ==
  /\ pc[id] = "remove"
  /\ left[id] = {}
  /\ acked' = acked \cup {id}
  /\ Goto(id, "done")
  /\ lock' = NoPush
  /\ UNCHANGED <<staged, submitted, job, bucket, index>>

-----------------------------------------------------------------------------
\* A restart: jobs and the lock are gone, the index is loaded from the bucket

Existing == {m \in Months : monthFile[m] # {}}
TooLarge == {m \in Months : Cardinality(monthFile[m]) > MaxEntries}

\* Seeded fault: a month that cannot be read counts as an empty one.
LoadUnbroken ==
  \E bad \in SUBSET Existing :
    /\ TooLarge \subseteq bad
    /\ ReadErrors \/ bad = TooLarge
    /\ broken' = {}
    /\ months' = [m \in Months |-> IF m \in bad THEN {} ELSE monthFile[m]]

\* bundleIndex.load: a month file that cannot be read marks its month broken.
Load ==
  \E bad \in SUBSET Existing :
    /\ TooLarge \subseteq bad
    /\ ReadErrors \/ bad = TooLarge
    /\ broken' = bad
    /\ months' = [m \in Months |-> IF m \in bad THEN {} ELSE monthFile[m]]

\* ListKeys fails: NewServer logs it and goes on with the index it was made with.
LoadFails ==
  /\ ListErrors
  /\ broken' = {}
  /\ months' = [m \in Months |-> {}]

Restart ==
  /\ Crashes
  /\ pc' = [id \in Ids |-> IF pc[id] \in Over \cup {"new"} THEN pc[id] ELSE "dead"]
  /\ lock' = NoPush
  /\ Load \/ LoadFails
  /\ UNCHANGED <<staged, submitted, job, bucket, acked>>

-----------------------------------------------------------------------------
Init ==
  /\ staged = {} /\ submitted = {} /\ lock = NoPush
  /\ pc = [id \in Ids |-> "new"]
  /\ month \in [Ids -> Months]
  /\ names = [id \in Ids |-> {}]
  /\ marked = [id \in Ids |-> FALSE]
  /\ left = [id \in Ids |-> {}]
  /\ objects = [id \in Ids |-> {}]
  /\ vectors = {} /\ metas = {} /\ acked = {}
  /\ monthFile = [m \in Months |-> {}]
  /\ months = [m \in Months |-> {}]
  /\ broken = {}

Serve(id) ==
  \/ \E digest \in BOOLEAN : Accept(id, digest)
  \/ Busy(id)
  \/ \E o \in Files \cup {Mark} : PutObject(id, o)
  \/ PutObjectFails(id)
  \/ PutVectors(id)
  \/ PutMeta(id)
  \/ PutIndex(id)
  \/ RefuseIndex(id)
  \/ PutFails(id)
  \/ Remember(id)
  \/ \E f \in Files : Remove(id, f)
  \/ Finish(id)

Next ==
  \/ \E f \in Files : Stage(f)
  \/ \E id \in Ids : Request(id)
  \/ \E id \in Ids : Serve(id)
  \/ Restart

Spec == Init /\ [][Next]_vars

\* A goroutine that can run is scheduled, and every call to the bucket answers.
Fairness == \A id \in Ids : WF_vars(Serve(id))
FairSpec == Spec /\ Fairness

-----------------------------------------------------------------------------
\* Properties

TypeOK ==
  /\ staged \subseteq submitted /\ submitted \subseteq Files
  /\ lock \in Ids \cup {NoPush}
  /\ pc \in [Ids -> {"new", "listed"} \cup Working \cup Over]
  /\ month \in [Ids -> Months]
  /\ names \in [Ids -> SUBSET Files]
  /\ marked \in [Ids -> BOOLEAN]
  /\ left \in [Ids -> SUBSET Files]
  /\ objects \in [Ids -> SUBSET (Files \cup {Mark})]
  /\ vectors \subseteq Ids /\ metas \subseteq Ids /\ acked \subseteq Ids
  /\ monthFile \in [Months -> SUBSET Ids]
  /\ months \in [Months -> SUBSET Ids]
  /\ broken \subseteq Months

\* Pushes are single-flight: the one job that works holds the lock, so two
\* appends never rewrite a month file from the same copy.
SingleFlight == \A id \in Ids : pc[id] \in Working <=> lock = id

\* What the bucket lets a reader find is complete: a bundle with a .meta.json
\* has every object and every vector of its push, and the index lists no
\* bundle without a .meta.json.
PublishedComplete ==
  /\ \A id \in metas : /\ Parts(id) \subseteq objects[id]
                       /\ marked[id] /\ Embedding => id \in vectors
  /\ \A m \in Months : monthFile[m] \subseteq metas

\* Removing the staged copies loses nothing: every content that was ever
\* staged is still staged, or it is an object of a bundle the index lists.
FileKept ==
  \A f \in submitted \ staged :
    \E id \in Ids : id \in monthFile[month[id]] /\ f \in objects[id]

\* A push that was reported as done stays recorded in the bucket, through any
\* number of later pushes, failures and restarts.
NothingForgotten == \A id \in acked : id \in monthFile[month[id]]

\* The calendar shows every such push, unless its month failed to load.
DoneShown ==
  \A id \in acked : id \in months[month[id]] \/ month[id] \in broken

\* The calendar shows no bundle that the bucket does not record.
ShownRecorded == \A m \in Months : months[m] \subseteq monthFile[m]

\* A month file only ever grows: rewriting it from the copy in memory drops
\* no entry.
IndexGrows ==
  [][\A m \in Months : monthFile[m] \subseteq monthFile'[m]]_vars

\* Between two pushes the copy in memory of a month that loaded is the file.
InSync ==
  lock = NoPush => \A m \in Months \ broken : months[m] = monthFile[m]

\* The push job and the index together keep the promise of Archive.
Promise == INSTANCE Archive WITH
  pending   <- staged,
  bundle    <- [id \in Ids |-> IF id \in monthFile[month[id]]
                               THEN objects[id] \ {Mark} ELSE {}],
  confirmed <- acked
ArchiveKept == Promise!Spec

\* A push that ended without recording its bundle left no .meta.json behind.
NoOrphan ==
  \A id \in metas : pc[id] \in Over => id \in monthFile[month[id]]

\* Every request and every job ends, whatever fails.
PushEnds == \A id \in Ids : pc[id] = "listed" ~> pc[id] \in Over

=============================================================================
