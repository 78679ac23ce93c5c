------------------------------ MODULE Workspace ------------------------------
(***************************************************************************)
(* The staging workspace of filestor: the staged files, the draft          *)
(* push state (state.json and its in-memory copy), the digest marks and the *)
(* lock that serialises the operations on them (upload.go, analyze.go,     *)
(* push.go, events.go).                                                    *)
(*                                                                         *)
(* Each process is one goroutine serving a request, followed by the        *)
(* background job when the request starts one.  A step is one file system  *)
(* call or one locked section, so other goroutines may run between two     *)
(* calls of a handler, and the server may stop there.                      *)
(***************************************************************************)
EXTENDS Integers

CONSTANTS
  Procs,          \* request goroutines
  Names,          \* file names in the workspace directory
  Contents,       \* what a staged file may hold
  Absent,         \* marks a name with no file
  Titles,         \* draft titles (a draft's time follows the same path)
  NoTitle,        \* the empty title of a freshly pinned draft
  NoDraft,        \* no state.json / a store with exists = false
  Requests,       \* the kinds of request the clients send
  LLMConfigured,  \* llm.chat.openai.url is set: push is gated by Analyzed
  Crashes,        \* the server may stop at any step and start again
  DiskErrors,     \* reads, writes and removals in the workspace may fail
  MaxParts,       \* bound: files in one multipart upload
  MaxCalls        \* bound: tool calls of one analyze run (toolCalls budget)

Drafts == [title : Titles, analyzed : BOOLEAN]

ASSUME BoundsAssumption == MaxParts \in Nat /\ MaxCalls \in Nat
ASSUME FlagsAssumption  == {LLMConfigured, Crashes, DiskErrors} \subseteq BOOLEAN
ASSUME TitleAssumption  == NoTitle \in Titles
ASSUME AbsentAssumption == Absent \notin Contents \cup Names
ASSUME DraftAssumption  == NoDraft \notin Drafts
ASSUME RequestsAssumption ==
  Requests \subseteq {"add", "delete", "edit", "analyze", "push"}

VARIABLES
  staged,   \* workspace directory: name -> content, or Absent
  file,     \* state.json
  digest,   \* .filestor/digest: the contents its marks were taken from
  mem,      \* workspaceStateStore.state (NoDraft when exists is false)
  lock,     \* eventHub.lock
  pc,       \* where each goroutine stands
  loc,      \* the local variables of each goroutine
  covered   \* history: the batch covered by the run that last set Analyzed

disk == <<staged, file, digest>>
vars == <<staged, file, digest, mem, lock, pc, loc, covered>>

-----------------------------------------------------------------------------
\* Files and drafts

Present == {n \in Names : staged[n] # Absent}
Batch   == {staged[n] : n \in Present}

ZeroDraft == [title |-> NoTitle, analyzed |-> FALSE]

\* workspaceStateStore.get: the zero state when no state exists.
Get == IF mem = NoDraft THEN ZeroDraft ELSE mem

\* workspaceStateStore.save: state.json is replaced by a rename and memory
\* follows; a failed write leaves both alone.
SaveOk(d) == file' = d /\ mem' = d
SaveFails == DiskErrors /\ UNCHANGED <<file, mem>>

-----------------------------------------------------------------------------
\* Goroutines

EmptyDir == [n \in Names |-> Absent]

Fresh ==
  [ left     |-> 0,          \* parts or tool calls still allowed
    saved    |-> FALSE,      \* add: some part has landed
    name     |-> Absent,     \* add: the part being written
    content  |-> Absent,
    draft    |-> ZeroDraft,  \* the copy a read-modify-write works on
    names    |-> {},         \* analyze: its entries; push: names to handle
    uploaded |-> EmptyDir,   \* push: the objects under the bundle's prefix
    marks    |-> {},         \* push: the digest directory as it was read
    titled   |-> FALSE,      \* analyze: set_title succeeded in this run
    closed   |-> FALSE ]     \* analyze: wrapping up, renames refused

StagePcs   == {"part", "land", "pin", "addMark", "addDrop",
               "delMark", "delDrop", "delTidy", "delClear", "stageEnd"}
AnalyzePcs == {"anaList", "anaPrep", "anaLoop", "anaTitle", "anaTime",
               "anaGet", "anaFlag", "anaEnd"}
PushPcs    == {"pushGate", "pushDigest", "pushUpload", "pushRecord",
               "pushRemove", "pushTidy", "pushClear", "pushEnd"}
OpenPcs    == {"idle", "editGet", "editList", "editSave", "pushAcquire"}
AllPcs     == OpenPcs \cup StagePcs \cup AnalyzePcs \cup PushPcs

\* The kind under which a goroutine that stands at p has taken the lock.
Kind(p) == CASE p \in StagePcs   -> "stage"
             [] p \in AnalyzePcs -> "analyze"
             [] p \in PushPcs    -> "push"
             [] OTHER            -> ""

Goto(r, p) == pc' = [pc EXCEPT ![r] = p]

Acquire(kind) == lock = "" /\ lock' = kind

\* The store's mutex is held across the two halves of markUnanalyzed and of
\* clear; only a request that takes no workspace lock can meet it held.
MutexFree == \A q \in Procs : pc[q] \notin {"addDrop", "delDrop", "delClear", "pushClear"}

\* The goroutine ends: its lock is released and its locals are gone.
End(r) ==
  /\ lock' = ""
  /\ Goto(r, "idle")
  /\ loc' = [loc EXCEPT ![r] = Fresh]

-----------------------------------------------------------------------------
\* POST /upload/files

\* The lock is taken before the body is parsed; k = 0 stands for a body that
\* cannot be parsed or carries no file.
AddStart(r, k) ==
  /\ "add" \in Requests
  /\ pc[r] = "idle"
  /\ Acquire("stage")
  /\ Goto(r, "part")
  /\ loc' = [loc EXCEPT ![r].left = k]
  /\ UNCHANGED <<disk, mem, covered>>

\* A part that cannot be saved ends the upload; what landed before it counts
\* as a change of the staged set.
AddFail(r) ==
  /\ Goto(r, IF loc[r].saved THEN "addMark" ELSE "stageEnd")
  /\ UNCHANGED <<mem, lock, loc, covered>>

\* Seeded fault: a rejected part ends the upload without invalidating the
\* batch, although earlier parts have landed.
AddBadPartForgets(r) ==
  /\ pc[r] = "part"
  /\ loc[r].left > 0
  /\ Goto(r, "stageEnd")
  /\ UNCHANGED <<disk, mem, lock, loc, covered>>

\* An invalid file name, an unreadable part, or a temp file that cannot be
\* written: nothing of this part has touched the staged files.
AddBadPart(r) ==
  /\ pc[r] = "part"
  /\ loc[r].left > 0
  /\ AddFail(r)
  /\ UNCHANGED disk

\* saveWorkspaceFile up to os.Remove(dest): the temp file is complete and the
\* file it replaces, if any, is gone.
AddPart(r, n, c) ==
  /\ pc[r] = "part"
  /\ loc[r].left > 0
  /\ staged' = [staged EXCEPT ![n] = Absent]
  /\ loc' = [loc EXCEPT ![r].left = @ - 1, ![r].name = n, ![r].content = c]
  /\ Goto(r, "land")
  /\ UNCHANGED <<file, digest, mem, lock, covered>>

\* saveWorkspaceFile: os.Rename(tmp, dest).
AddLand(r) ==
  /\ pc[r] = "land"
  /\ staged' = [staged EXCEPT ![loc[r].name] = loc[r].content]
  /\ loc' = [loc EXCEPT ![r].saved = TRUE]
  /\ Goto(r, "pin")
  /\ UNCHANGED <<file, digest, mem, lock, covered>>

AddLandFails(r) ==
  /\ DiskErrors
  /\ pc[r] = "land"
  /\ AddFail(r)
  /\ UNCHANGED disk

\* workspaceStateStore.pin, after every part that landed.
AddPin(r) ==
  /\ pc[r] = "pin"
  /\ \/ mem # NoDraft /\ UNCHANGED <<file, mem>>
     \/ mem = NoDraft /\ SaveOk(ZeroDraft)
     \/ mem = NoDraft /\ SaveFails
  /\ Goto(r, "part")
  /\ UNCHANGED <<staged, digest, lock, loc, covered>>

\* All parts done: the staged set changed, unless there was no part at all.
AddPartsDone(r) ==
  /\ pc[r] = "part"
  /\ loc[r].left = 0
  /\ AddFail(r)
  /\ UNCHANGED disk

\* Seeded fault: memory is cleared before the write that may fail.
MarkMemoryFirst(r, at, drop, next) ==
  /\ pc[r] = at
  /\ \/ /\ ~Get.analyzed
        /\ Goto(r, next)
        /\ UNCHANGED <<file, mem>>
     \/ /\ Get.analyzed
        /\ mem' = [Get EXCEPT !.analyzed = FALSE]
        /\ \/ file' = mem' /\ Goto(r, drop)
           \/ DiskErrors /\ UNCHANGED file /\ Goto(r, next)
  /\ UNCHANGED <<staged, digest, lock, loc, covered>>

\* workspaceStateStore.markUnanalyzed, first half: clear the flag.  No state
\* or no flag: nothing to do; a failed write is only logged.
Mark(r, at, drop, next) ==
  /\ pc[r] = at
  /\ \/ /\ ~Get.analyzed
        /\ Goto(r, next)
        /\ UNCHANGED <<file, mem>>
     \/ /\ Get.analyzed
        /\ SaveOk([Get EXCEPT !.analyzed = FALSE])
        /\ Goto(r, drop)
     \/ /\ Get.analyzed
        /\ SaveFails
        /\ Goto(r, next)
  /\ UNCHANGED <<staged, digest, lock, loc, covered>>

\* markUnanalyzed, second half: drop the digest of the old batch.
Drop(r, at, next) ==
  /\ pc[r] = at
  /\ \/ digest' = {}
     \/ DiskErrors /\ UNCHANGED digest
  /\ Goto(r, next)
  /\ UNCHANGED <<staged, file, mem, lock, loc, covered>>

AddMark(r) == Mark(r, "addMark", "addDrop", "stageEnd")
AddDrop(r) == Drop(r, "addDrop", "stageEnd")

StageEnd(r) ==
  /\ pc[r] = "stageEnd"
  /\ End(r)
  /\ UNCHANGED <<disk, mem, covered>>

-----------------------------------------------------------------------------
\* DELETE /upload/files

\* The lock is taken and the file removed.  A name with no file is answered
\* with 404, and the lock released.
DeleteStart(r, n) ==
  /\ "delete" \in Requests
  /\ pc[r] = "idle"
  /\ Acquire("stage")
  /\ \/ /\ n \in Present
        /\ staged' = [staged EXCEPT ![n] = Absent]
        /\ Goto(r, "delMark")
     \/ /\ n \notin Present \/ DiskErrors
        /\ Goto(r, "stageEnd")
        /\ UNCHANGED staged
  /\ UNCHANGED <<file, digest, mem, loc, covered>>

DeleteMark(r) == Mark(r, "delMark", "delDrop", "delTidy")
DeleteDrop(r) == Drop(r, "delDrop", "delTidy")

\* clearWorkspaceStateIfEmpty, first half: list the workspace and, when it is
\* empty, remove state.json (clear ignores a failed removal).  A listing that
\* fails clears nothing.
Tidy(r, at, clear, next) ==
  /\ pc[r] = at
  /\ \/ /\ Present # {}
        /\ Goto(r, next)
        /\ UNCHANGED file
     \/ /\ Present = {}
        /\ \/ file' = NoDraft
           \/ DiskErrors /\ UNCHANGED file
        /\ Goto(r, clear)
     \/ /\ DiskErrors
        /\ Goto(r, next)
        /\ UNCHANGED file
  /\ UNCHANGED <<staged, digest, mem, lock, loc, covered>>

\* workspaceStateStore.clear, second half: the digest marks and memory.
Clear(r, at, next) ==
  /\ pc[r] = at
  /\ \/ digest' = {}
     \/ DiskErrors /\ UNCHANGED digest
  /\ mem' = NoDraft
  /\ Goto(r, next)
  /\ UNCHANGED <<staged, file, lock, loc, covered>>

\* Seeded fault: a delete leaves the draft of an emptied workspace alone.
DeleteTidySkipped(r) ==
  /\ pc[r] = "delTidy"
  /\ Goto(r, "stageEnd")
  /\ UNCHANGED <<disk, mem, lock, loc, covered>>

DeleteTidy(r)  == Tidy(r, "delTidy", "delClear", "stageEnd")
DeleteClear(r) == Clear(r, "delClear", "stageEnd")

-----------------------------------------------------------------------------
\* PUT /upload/state

\* busyForState: refused while an analyze or push job holds the lock.  The
\* lock is looked at, not taken; the body is read after the look.
EditStart(r) ==
  /\ "edit" \in Requests
  /\ pc[r] = "idle"
  /\ lock \notin {"analyze", "push"}
  /\ Goto(r, "editGet")
  /\ UNCHANGED <<disk, mem, lock, loc, covered>>

\* The whole state is copied and the title (or time) replaced in the copy.
EditGet(r, t) ==
  /\ pc[r] = "editGet"
  /\ MutexFree
  /\ loc' = [loc EXCEPT ![r].draft = [Get EXCEPT !.title = t]]
  /\ Goto(r, "editList")
  /\ UNCHANGED <<disk, mem, lock, covered>>

\* Nothing staged: a successful no-op.
EditList(r) ==
  /\ pc[r] = "editList"
  /\ IF Present = {}
       THEN Goto(r, "idle") /\ loc' = [loc EXCEPT ![r] = Fresh]
       ELSE Goto(r, "editSave") /\ UNCHANGED loc
  /\ UNCHANGED <<disk, mem, lock, covered>>

EditSave(r) ==
  /\ pc[r] = "editSave"
  /\ MutexFree
  /\ SaveOk(loc[r].draft) \/ SaveFails
  /\ Goto(r, "idle")
  /\ loc' = [loc EXCEPT ![r] = Fresh]
  /\ UNCHANGED <<staged, digest, lock, covered>>

-----------------------------------------------------------------------------
\* POST /upload/analyze and the run it starts

AnalyzeStart(r) ==
  /\ "analyze" \in Requests /\ LLMConfigured
  /\ pc[r] = "idle"
  /\ Acquire("analyze")
  /\ Goto(r, "anaList")
  /\ UNCHANGED <<disk, mem, loc, covered>>

\* The staged files are listed under the lock; an empty workspace is refused.
AnalyzeList(r) ==
  /\ pc[r] = "anaList"
  /\ loc' = [loc EXCEPT ![r].names = Present, ![r].left = MaxCalls]
  /\ Goto(r, IF Present = {} THEN "anaEnd" ELSE "anaPrep")
  /\ UNCHANGED <<disk, mem, lock, covered>>

\* Seeded fault: a new run adds its marks to those of the run before.
AnalyzePrepKeeps(r) ==
  /\ pc[r] = "anaPrep"
  /\ Goto(r, "anaLoop")
  /\ UNCHANGED <<disk, mem, lock, loc, covered>>

\* prepAnalyze: the digest is rebuilt from scratch (a failed reset is only
\* logged); the flag of an earlier run stays as it is.
AnalyzePrep(r) ==
  /\ pc[r] = "anaPrep"
  /\ \/ digest' = {}
     \/ DiskErrors /\ UNCHANGED digest
  /\ Goto(r, "anaLoop")
  /\ UNCHANGED <<staged, file, mem, lock, loc, covered>>

ToolCall(r) == pc[r] = "anaLoop" /\ loc[r].left > 0

\* mark_text, mark_image: one more mark taken from an entry of the run.
AnalyzeMark(r, n) ==
  /\ ToolCall(r)
  /\ n \in loc[r].names
  /\ digest' = digest \cup ({staged[n]} \ {Absent})
  /\ loc' = [loc EXCEPT ![r].left = @ - 1]
  /\ UNCHANGED <<staged, file, mem, lock, pc, covered>>

\* renameWorkspaceFile: never onto an existing file.
Renamed(n, m) ==
  /\ n \in Present /\ m \notin Present
  /\ staged' = [staged EXCEPT ![m] = staged[n], ![n] = Absent]

\* rename_file: refused once reads are closed.
AnalyzeRename(r, n, m) ==
  /\ ToolCall(r)
  /\ ~loc[r].closed
  /\ Renamed(n, m)
  /\ loc' = [loc EXCEPT
       ![r].left  = @ - 1,
       ![r].names = IF n \in @ THEN (@ \ {n}) \cup {m} ELSE @]
  /\ UNCHANGED <<file, digest, mem, lock, pc, covered>>

\* set_title and set_datetime: the state is read here and saved in a second
\* step (the time is not distinguished, so set_datetime saves what it read).
AnalyzeSetTitle(r, t) ==
  /\ ToolCall(r)
  /\ loc' = [loc EXCEPT ![r].left = @ - 1, ![r].draft = [Get EXCEPT !.title = t]]
  /\ Goto(r, "anaTitle")
  /\ UNCHANGED <<disk, mem, lock, covered>>

AnalyzeSetTime(r) ==
  /\ ToolCall(r)
  /\ loc' = [loc EXCEPT ![r].left = @ - 1, ![r].draft = Get]
  /\ Goto(r, "anaTime")
  /\ UNCHANGED <<disk, mem, lock, covered>>

AnalyzeSave(r) ==
  /\ pc[r] \in {"anaTitle", "anaTime"}
  /\ \/ /\ SaveOk(loc[r].draft)
        /\ loc' = [loc EXCEPT ![r].titled = @ \/ pc[r] = "anaTitle"]
     \/ SaveFails /\ UNCHANGED loc
  /\ Goto(r, "anaLoop")
  /\ UNCHANGED <<staged, digest, lock, covered>>

\* Seeded fault: a wrap-up round without a title is repeated.
AnalyzeOutAgain(r) ==
  /\ pc[r] = "anaLoop"
  /\ \/ /\ loc[r].titled
        /\ Goto(r, "anaGet")
        /\ UNCHANGED loc
     \/ /\ ~loc[r].titled
        /\ loc' = [loc EXCEPT ![r].closed = TRUE, ![r].left = MaxCalls]
        /\ UNCHANGED pc
  /\ UNCHANGED <<disk, mem, lock, covered>>

\* finish, or the budget is spent: a run without a title gets one wrap-up
\* round with reads closed, and fails when that sets none either.
AnalyzeOut(r) ==
  /\ pc[r] = "anaLoop"
  /\ \/ /\ loc[r].titled
        /\ Goto(r, "anaGet")
        /\ UNCHANGED loc
     \/ /\ ~loc[r].titled /\ ~loc[r].closed
        /\ loc' = [loc EXCEPT ![r].closed = TRUE, ![r].left = MaxCalls]
        /\ UNCHANGED pc
     \/ /\ ~loc[r].titled /\ loc[r].closed
        /\ Goto(r, "anaEnd")
        /\ UNCHANGED loc
  /\ UNCHANGED <<disk, mem, lock, covered>>

\* The chat endpoint fails, the run times out, or the goroutine panics.
AnalyzeFail(r) ==
  /\ pc[r] \in {"anaPrep", "anaLoop"}
  /\ Goto(r, "anaEnd")
  /\ UNCHANGED <<disk, mem, lock, loc, covered>>

\* The run succeeded: read the state, set Analyzed in the copy, save it.
AnalyzeGet(r) ==
  /\ pc[r] = "anaGet"
  /\ loc' = [loc EXCEPT ![r].draft = [Get EXCEPT !.analyzed = TRUE]]
  /\ Goto(r, "anaFlag")
  /\ UNCHANGED <<disk, mem, lock, covered>>

AnalyzeFlag(r) ==
  /\ pc[r] = "anaFlag"
  /\ \/ /\ SaveOk(loc[r].draft)
        /\ covered' = {staged[n] : n \in loc[r].names} \ {Absent}
     \/ SaveFails /\ UNCHANGED covered
  /\ Goto(r, "anaEnd")
  /\ UNCHANGED <<staged, digest, lock, loc>>

AnalyzeEnd(r) ==
  /\ pc[r] = "anaEnd"
  /\ End(r)
  /\ UNCHANGED <<disk, mem, covered>>

-----------------------------------------------------------------------------
\* POST /upload/push and the job it starts

\* The staged files are listed before the lock is asked for.
PushList(r) ==
  /\ "push" \in Requests
  /\ pc[r] = "idle"
  /\ Present # {}
  /\ loc' = [loc EXCEPT ![r].names = Present]
  /\ Goto(r, "pushAcquire")
  /\ UNCHANGED <<disk, mem, lock, covered>>

PushAcquire(r) ==
  /\ pc[r] = "pushAcquire"
  /\ Acquire("push")
  /\ Goto(r, "pushGate")
  /\ UNCHANGED <<disk, mem, loc, covered>>

\* 409: the lock is held.
PushBusy(r) ==
  /\ pc[r] = "pushAcquire"
  /\ lock # ""
  /\ Goto(r, "idle")
  /\ loc' = [loc EXCEPT ![r] = Fresh]
  /\ UNCHANGED <<disk, mem, lock, covered>>

\* Seeded fault: the refused push returns without releasing the lock.
PushGateLeaks(r) ==
  /\ pc[r] = "pushGate"
  /\ IF LLMConfigured /\ ~Get.analyzed
       THEN Goto(r, "idle") /\ loc' = [loc EXCEPT ![r] = Fresh]
       ELSE Goto(r, "pushDigest") /\ UNCHANGED loc
  /\ UNCHANGED <<disk, mem, lock, covered>>

\* With the LLM configured the batch must be flagged analyzed.
PushGate(r) ==
  /\ pc[r] = "pushGate"
  /\ Goto(r, IF LLMConfigured /\ ~Get.analyzed THEN "pushEnd" ELSE "pushDigest")
  /\ UNCHANGED <<disk, mem, lock, loc, covered>>

\* runPush reads the digest directory.
PushDigest(r) ==
  /\ pc[r] = "pushDigest"
  /\ \/ loc' = [loc EXCEPT ![r].marks = digest]
     \/ DiskErrors /\ loc' = [loc EXCEPT ![r].marks = {}]
  /\ Goto(r, "pushUpload")
  /\ UNCHANGED <<disk, mem, lock, covered>>

\* pushOne: a listed file that is still there is opened and put in the bucket.
PushUpload(r, n) ==
  /\ pc[r] = "pushUpload"
  /\ n \in loc[r].names /\ n \in Present
  /\ loc[r].uploaded[n] = Absent
  /\ loc' = [loc EXCEPT ![r].uploaded[n] = staged[n]]
  /\ UNCHANGED <<disk, mem, lock, pc, covered>>

\* Seeded fault: a failed upload is skipped instead of ending the job.
PushUploadedSome(r) ==
  /\ pc[r] = "pushUpload"
  /\ \E n \in loc[r].names : loc[r].uploaded[n] # Absent
  /\ Goto(r, "pushRecord")
  /\ UNCHANGED <<disk, mem, lock, loc, covered>>

PushUploaded(r) ==
  /\ pc[r] = "pushUpload"
  /\ \A n \in loc[r].names : loc[r].uploaded[n] # Absent
  /\ Goto(r, "pushRecord")
  /\ UNCHANGED <<disk, mem, lock, loc, covered>>

\* The digest, the vectors, .meta.json and the index entry have landed.
PushRecord(r) ==
  /\ pc[r] = "pushRecord"
  /\ Goto(r, "pushRemove")
  /\ UNCHANGED <<disk, mem, lock, loc, covered>>

\* Any failure before the index write ends the job with everything staged: a
\* listed file that is gone, the object store, the embedding or the vectors.
PushFail(r) ==
  /\ pc[r] \in {"pushUpload", "pushRecord"}
  /\ Goto(r, "pushEnd")
  /\ UNCHANGED <<disk, mem, lock, loc, covered>>

\* The recorded files leave the workspace one by one; a failed removal is
\* only logged.
PushRemove(r, n) ==
  /\ pc[r] = "pushRemove"
  /\ n \in loc[r].names
  /\ \/ staged' = [staged EXCEPT ![n] = Absent]
     \/ DiskErrors /\ UNCHANGED staged
  /\ loc' = [loc EXCEPT ![r].names = @ \ {n}]
  /\ UNCHANGED <<file, digest, mem, lock, pc, covered>>

PushRemoved(r) ==
  /\ pc[r] = "pushRemove"
  /\ loc[r].names = {}
  /\ Goto(r, "pushTidy")
  /\ UNCHANGED <<disk, mem, lock, loc, covered>>

PushTidy(r)  == Tidy(r, "pushTidy", "pushClear", "pushEnd")
PushClear(r) == Clear(r, "pushClear", "pushEnd")

PushEnd(r) ==
  /\ pc[r] = "pushEnd"
  /\ End(r)
  /\ UNCHANGED <<disk, mem, covered>>

-----------------------------------------------------------------------------
\* The server stops and starts again: memory and goroutines are gone, the
\* state file is loaded, and a digest without a state file is dropped.  A state
\* file that cannot be read counts as absent, and stays where it is.
Restart ==
  /\ Crashes
  /\ \/ mem' = file
     \/ DiskErrors /\ mem' = NoDraft
  /\ \/ digest' = IF mem' = NoDraft THEN {} ELSE digest
     \/ DiskErrors /\ UNCHANGED digest
  /\ lock' = ""
  /\ pc' = [r \in Procs |-> "idle"]
  /\ loc' = [r \in Procs |-> Fresh]
  /\ UNCHANGED <<staged, file, covered>>

-----------------------------------------------------------------------------

Init ==
  /\ staged = EmptyDir
  /\ file = NoDraft
  /\ digest = {}
  /\ mem = NoDraft
  /\ lock = ""
  /\ pc = [r \in Procs |-> "idle"]
  /\ loc = [r \in Procs |-> Fresh]
  /\ covered = {}

\* A request arrives.
Arrive(r) ==
  \/ \E k \in 0 .. MaxParts : AddStart(r, k)
  \/ \E n \in Names : DeleteStart(r, n)
  \/ EditStart(r)
  \/ AnalyzeStart(r)
  \/ PushList(r)

AddStep(r) ==
  \/ AddBadPart(r) \/ AddLand(r) \/ AddLandFails(r) \/ AddPin(r)
  \/ AddPartsDone(r) \/ AddMark(r) \/ AddDrop(r) \/ StageEnd(r)
  \/ \E n \in Names, c \in Contents : AddPart(r, n, c)

DeleteStep(r) == DeleteMark(r) \/ DeleteDrop(r) \/ DeleteTidy(r) \/ DeleteClear(r)

EditStep(r) == (\E t \in Titles : EditGet(r, t)) \/ EditList(r) \/ EditSave(r)

AnalyzeStep(r) ==
  \/ AnalyzeList(r) \/ AnalyzePrep(r) \/ AnalyzeSetTime(r) \/ AnalyzeSave(r)
  \/ AnalyzeOut(r) \/ AnalyzeFail(r) \/ AnalyzeGet(r) \/ AnalyzeFlag(r)
  \/ AnalyzeEnd(r)
  \/ \E t \in Titles : AnalyzeSetTitle(r, t)
  \/ \E n \in Names : AnalyzeMark(r, n)
  \/ \E n, m \in Names : AnalyzeRename(r, n, m)

PushStep(r) ==
  \/ PushAcquire(r) \/ PushBusy(r) \/ PushGate(r) \/ PushDigest(r)
  \/ PushUploaded(r) \/ PushRecord(r) \/ PushFail(r) \/ PushRemoved(r)
  \/ PushTidy(r) \/ PushClear(r) \/ PushEnd(r)
  \/ \E n \in Names : PushUpload(r, n) \/ PushRemove(r, n)

\* A goroutine that serves a request takes its next step.
Step(r) ==
  AddStep(r) \/ DeleteStep(r) \/ EditStep(r) \/ AnalyzeStep(r) \/ PushStep(r)

Next == (\E r \in Procs : Arrive(r) \/ Step(r)) \/ Restart

Spec == Init /\ [][Next]_vars

\* Every goroutine is scheduled; the store's mutex is a sync.Mutex, which
\* does not starve a waiter, hence SF for the two steps that may wait for it.
Fairness ==
  \A r \in Procs :
    /\ WF_vars(Step(r))
    /\ SF_vars(EditStep(r))

FairSpec == Spec /\ Fairness

-----------------------------------------------------------------------------
\* Properties

Uploaded(r) == {loc[r].uploaded[n] : n \in Names} \ {Absent}

Locals ==
  [ left : Nat, saved : BOOLEAN, name : Names \cup {Absent},
    content : Contents \cup {Absent}, draft : Drafts, names : SUBSET Names,
    uploaded : [Names -> Contents \cup {Absent}], marks : SUBSET Contents,
    titled : BOOLEAN, closed : BOOLEAN ]

\* Every variable has its type; a part that is about to be renamed into place
\* has a name and a content.
TypeOK ==
  /\ staged \in [Names -> Contents \cup {Absent}]
  /\ file \in Drafts \cup {NoDraft}
  /\ mem \in Drafts \cup {NoDraft}
  /\ digest \in SUBSET Contents
  /\ covered \in SUBSET Contents
  /\ lock \in {"", "stage", "analyze", "push"}
  /\ pc \in [Procs -> AllPcs]
  /\ loc \in [Procs -> Locals]
  /\ \A r \in Procs : pc[r] = "land" =>
       loc[r].name \in Names /\ loc[r].content \in Contents

\* The workspace lock (acquire, release): at most one goroutine is between
\* its acquire and its release, the lock has that goroutine's kind, and no
\* early return of a handler or a job leaves it held by nobody.
LockOwner ==
  /\ \A r \in Procs : Kind(pc[r]) # "" => lock = Kind(pc[r])
  /\ \A r, q \in Procs : Kind(pc[r]) # "" /\ Kind(pc[q]) # "" => r = q
  /\ lock # "" => \E r \in Procs : Kind(pc[r]) # ""

\* Whatever crashes, disk errors and edits happen, a staged content leaves
\* the workspace in only two ways: an add or a delete of the user (a replaced
\* file included), or the removal that ends a push which uploaded that very
\* content and recorded its bundle.  Renames of an analyze run, failed
\* pushes and restarts keep every content (runPush: "a failed push leaves the
\* whole batch staged for a retry").
LostProperly ==
  \A c \in Batch \ Batch' :
    \/ lock' = "stage"
    \/ \E r \in Procs : pc[r] = "pushRemove" /\ c \in Uploaded(r)

NothingLost == [][LostProperly]_vars

\* Save writes the file first and memory second, and restart reads the file:
\* outside a clear, a draft the server shows is the draft a restart restores,
\* if it can read it, although an earlier restart may not have been able to.
RestartKeepsDraft ==
  (mem # NoDraft /\ \A r \in Procs : pc[r] \notin {"delClear", "pushClear"})
    => file = mem

\* The Analyzed flag speaks of the files that are staged now: outside an add
\* or a delete, while the flag is set every staged content was in the batch
\* of the run that set it (workspaceState: "adding or deleting staged files
\* clears it").
FlagCovered ==
  (Get.analyzed /\ lock # "stage") => Batch \subseteq covered

\* The push gate does its job: with the LLM configured, a bundle is recorded
\* with files and digest marks of one analyzed batch only.
PushedAnalyzed ==
  \A r \in Procs :
    (LLMConfigured /\ pc[r] = "pushRemove") =>
      Uploaded(r) \cup loc[r].marks \subseteq covered

\* Seen from outside, the workspace is the gate of the upload page: while the
\* LLM is configured, a bundle is recorded only of staged contents that the
\* last successful analysis has seen, every add and delete closes the gate
\* until the next analysis, and only what was recorded is removed.  The gate
\* is closed as long as an add or a delete holds the lock.
Promise == INSTANCE Gate WITH
  batch <- Batch,
  known <- covered,
  open  <- Get.analyzed /\ lock # "stage",
  out   <- UNION {Uploaded(r) : r \in {q \in Procs : pc[q] = "pushRemove"}}

GateKept == Promise!Spec

\* With no operation in progress there is a draft exactly when files are
\* staged (pin on the first file, clearWorkspaceStateIfEmpty on the last).
DraftIffStaged ==
  lock = "" => (mem # NoDraft <=> Present # {})

\* The digest marks never speak of a file that is no longer staged (README:
\* "rebuilt by every run and dropped when the staged set changes").
DigestOfStaged ==
  lock = "" => digest \subseteq Batch

\* A push takes the whole staging area: what it records is what is staged
\* (runPush "uploads every staged file to the bucket under prefix").
PushesWholeBatch ==
  \A r \in Procs : pc[r] = "pushRecord" => Uploaded(r) = Batch

\* PUT /upload/state answers 409 during analyze and push (README), so no draft
\* write of an edit falls into such a job.
NoEditDuringJob ==
  [][\A r \in Procs :
       (pc[r] = "editSave" /\ pc'[r] = "idle" /\ mem' # mem)
         => lock \notin {"analyze", "push"}]_vars

\* Every request, and the job it started, comes to its end, so no client is
\* left with a busy workspace.
RequestEnds == \A r \in Procs : pc[r] # "idle" ~> pc[r] = "idle"
=============================================================================
