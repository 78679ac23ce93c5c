-------------------------- MODULE Workspace_proofs --------------------------
(***************************************************************************)
(* Theorems about Workspace for any goroutines, names, contents and        *)
(* titles: its types, the workspace lock, what is never lost, the draft a  *)
(* restart finds, and the push gate, up to its refinement of Gate.         *)
(***************************************************************************)
EXTENDS Workspace, TLAPS

USE DEF disk, Goto, Acquire

LEMMA ZeroType == ZeroDraft \in Drafts
  BY TitleAssumption DEF ZeroDraft, Drafts

LEMMA GetType == TypeOK => Get \in Drafts
  BY ZeroType DEF TypeOK, Get

LEMMA FreshType == Fresh \in Locals /\ EmptyDir \in [Names -> Contents \cup {Absent}]
  BY ZeroType DEF Fresh, Locals, EmptyDir

\* Each program counter lies in one of the four sets.
LEMMA PcType ==
  /\ {"idle", "editGet", "editList", "editSave", "pushAcquire"} \subseteq AllPcs
  /\ StagePcs \cup AnalyzePcs \cup PushPcs \subseteq AllPcs
  BY DEF OpenPcs, AllPcs

\* A step that moves r to p and leaves its locals in l keeps the types of pc
\* and loc.
LEMMA MoveType ==
  ASSUME TypeOK, NEW r \in Procs, NEW p \in AllPcs, NEW l \in Locals,
         p = "land" => l.name \in Names /\ l.content \in Contents,
         pc' = [pc EXCEPT ![r] = p],
         loc' = [loc EXCEPT ![r] = l]
  PROVE  /\ pc' \in [Procs -> AllPcs]
         /\ loc' \in [Procs -> Locals]
         /\ \A q \in Procs : pc'[q] = "land" =>
              loc'[q].name \in Names /\ loc'[q].content \in Contents
  BY DEF TypeOK

THEOREM TypeInit == Init => TypeOK
  BY FreshType, PcType DEF Init, TypeOK

LEMMA TypeArrive ==
  ASSUME TypeOK, NEW r \in Procs, Arrive(r)
  PROVE  TypeOK'
<1>1. ASSUME NEW k \in 0 .. MaxParts, AddStart(r, k)  PROVE TypeOK'
  <2>1. k \in Nat /\ loc[r] \in Locals
    <3>1. k \in Nat  BY <1>1, BoundsAssumption
    <3>2. loc[r] \in Locals  BY DEF TypeOK
    <3> QED  BY <3>1, <3>2
  <2>2. [loc[r] EXCEPT !.left = k] \in Locals
    BY <2>1 DEF Locals
  <2> QED  BY <1>1, <2>2, MoveType, PcType DEF AddStart, TypeOK, StagePcs
<1>2. ASSUME NEW n \in Names, DeleteStart(r, n)  PROVE TypeOK'
  BY <1>2, PcType DEF DeleteStart, TypeOK, StagePcs
<1>3. CASE EditStart(r)
  BY <1>3, PcType DEF EditStart, TypeOK
<1>4. CASE AnalyzeStart(r)
  BY <1>4, PcType DEF AnalyzeStart, TypeOK, AnalyzePcs
<1>5. CASE PushList(r)
  <2>1. [loc[r] EXCEPT !.names = Present] \in Locals
    BY DEF TypeOK, Locals, Present
  <2> QED  BY <1>5, <2>1, MoveType, PcType DEF PushList, TypeOK
<1> QED
  BY <1>1, <1>2, <1>3, <1>4, <1>5 DEF Arrive

LEMMA TypeAdd ==
  ASSUME TypeOK, NEW r \in Procs, AddStep(r)
  PROVE  TypeOK'
<1>1. CASE AddBadPart(r)
  BY <1>1, PcType DEF AddBadPart, AddFail, TypeOK, StagePcs
<1>2. CASE AddLand(r)
  <2>1. /\ loc[r].name \in Names /\ loc[r].content \in Contents
        /\ loc[r] \in Locals
    BY <1>2 DEF AddLand, TypeOK
  <2>2. [loc[r] EXCEPT !.saved = TRUE] \in Locals
    BY <2>1 DEF Locals
  <2>3. staged' \in [Names -> Contents \cup {Absent}]
    BY <1>2, <2>1 DEF AddLand, TypeOK
  <2> QED  BY <1>2, <2>2, <2>3, MoveType, PcType DEF AddLand, TypeOK, StagePcs
<1>3. CASE AddLandFails(r)
  BY <1>3, PcType DEF AddLandFails, AddFail, TypeOK, StagePcs
<1>4. CASE AddPin(r)
  BY <1>4, ZeroType, PcType DEF AddPin, SaveOk, SaveFails, TypeOK, StagePcs
<1>5. CASE AddPartsDone(r)
  BY <1>5, PcType DEF AddPartsDone, AddFail, TypeOK, StagePcs
<1>6. CASE AddMark(r)
  BY <1>6, GetType, PcType DEF AddMark, Mark, SaveOk, SaveFails, Drafts, TypeOK, StagePcs
<1>7. CASE AddDrop(r)
  BY <1>7, PcType DEF AddDrop, Drop, TypeOK, StagePcs
<1>8. CASE StageEnd(r)
  BY <1>8, FreshType, PcType DEF StageEnd, End, TypeOK
<1>9. ASSUME NEW n \in Names, NEW c \in Contents, AddPart(r, n, c)
      PROVE  TypeOK'
  <2>1. loc[r] \in Locals /\ loc[r].left - 1 \in Nat
    <3>1. loc[r] \in Locals  BY DEF TypeOK
    <3>2. loc[r].left > 0  BY <1>9 DEF AddPart
    <3> QED  BY <3>1, <3>2 DEF Locals
  <2> DEFINE l0 == [loc[r] EXCEPT !.left = @ - 1, !.name = n]
             l  == [loc[r] EXCEPT !.left = @ - 1, !.name = n, !.content = c]
  <2>2. l0 \in Locals
    BY <2>1 DEF Locals
  <2>3. l = [l0 EXCEPT !.content = c]
    BY <2>1 DEF Locals
  <2>4. l \in Locals /\ l.name = n /\ l.content = c
    BY <2>2, <2>3 DEF Locals
  <2>5. loc' = [loc EXCEPT ![r] = l]
    BY <1>9 DEF AddPart, TypeOK
  <2>6. staged' \in [Names -> Contents \cup {Absent}]
    BY <1>9 DEF AddPart, TypeOK
  <2> HIDE DEF l
  <2> QED  BY <1>9, <2>4, <2>5, <2>6, MoveType, PcType DEF AddPart, TypeOK, StagePcs
<1> QED
  BY <1>1, <1>2, <1>3, <1>4, <1>5, <1>6, <1>7, <1>8, <1>9 DEF AddStep

LEMMA TypeDelete ==
  ASSUME TypeOK, NEW r \in Procs, DeleteStep(r)
  PROVE  TypeOK'
<1>1. CASE DeleteMark(r)
  BY <1>1, GetType, PcType DEF DeleteMark, Mark, SaveOk, SaveFails, Drafts, TypeOK, StagePcs
<1>2. CASE DeleteDrop(r)
  BY <1>2, PcType DEF DeleteDrop, Drop, TypeOK, StagePcs
<1>3. CASE DeleteTidy(r)
  BY <1>3, PcType DEF DeleteTidy, Tidy, TypeOK, StagePcs
<1>4. CASE DeleteClear(r)
  BY <1>4, PcType DEF DeleteClear, Clear, TypeOK, StagePcs
<1> QED
  BY <1>1, <1>2, <1>3, <1>4 DEF DeleteStep

LEMMA TypeEdit ==
  ASSUME TypeOK, NEW r \in Procs, EditStep(r)
  PROVE  TypeOK'
<1>0. loc[r] \in Locals  BY DEF TypeOK
<1>1. ASSUME NEW t \in Titles, EditGet(r, t)  PROVE TypeOK'
  <2>1. [Get EXCEPT !.title = t] \in Drafts
    BY GetType DEF Drafts
  <2>2. [loc[r] EXCEPT !.draft = [Get EXCEPT !.title = t]] \in Locals
    BY <1>0, <2>1 DEF Locals
  <2> QED  BY <1>1, <2>2, MoveType, PcType DEF EditGet, TypeOK
<1>2. CASE EditList(r)
  <2>1. CASE Present = {}
    BY <1>2, <2>1, FreshType, MoveType, PcType DEF EditList, TypeOK
  <2>2. CASE Present # {}
    BY <1>2, <2>2, PcType DEF EditList, TypeOK
  <2> QED  BY <2>1, <2>2
<1>3. CASE EditSave(r)
  <2>1. file' \in Drafts \cup {NoDraft} /\ mem' \in Drafts \cup {NoDraft}
    BY <1>0, <1>3 DEF EditSave, SaveOk, SaveFails, TypeOK, Locals
  <2> QED  BY <1>3, <2>1, FreshType, MoveType, PcType DEF EditSave, TypeOK
<1> QED
  BY <1>1, <1>2, <1>3 DEF EditStep

LEMMA TypeAnalyze ==
  ASSUME TypeOK, NEW r \in Procs, AnalyzeStep(r)
  PROVE  TypeOK'
<1>0. loc[r] \in Locals  BY DEF TypeOK
<1>A. ToolCall(r) => loc[r].left - 1 \in Nat
  <2>1. ToolCall(r) => loc[r].left > 0  BY DEF ToolCall
  <2> QED  BY <1>0, <2>1 DEF Locals
<1>1. CASE AnalyzeList(r)
  <2>1. Present \in SUBSET Names /\ MaxCalls \in Nat
    BY BoundsAssumption DEF Present
  <2>2. [loc[r] EXCEPT !.names = Present, !.left = MaxCalls] \in Locals
    BY <1>0, <2>1 DEF Locals
  <2> QED  BY <1>1, <2>2, MoveType, PcType DEF AnalyzeList, TypeOK, AnalyzePcs
<1>2. CASE AnalyzePrep(r)
  BY <1>2, PcType DEF AnalyzePrep, TypeOK, AnalyzePcs
<1>3. CASE AnalyzeSetTime(r)
  <2>1. [loc[r] EXCEPT !.left = @ - 1, !.draft = Get] \in Locals
    BY <1>0, <1>A, <1>3, GetType DEF AnalyzeSetTime, Locals
  <2> QED  BY <1>3, <2>1, MoveType, PcType DEF AnalyzeSetTime, TypeOK, AnalyzePcs
<1>4. CASE AnalyzeSave(r)
  <2>1. file' \in Drafts \cup {NoDraft} /\ mem' \in Drafts \cup {NoDraft}
    BY <1>0, <1>4 DEF AnalyzeSave, SaveOk, SaveFails, TypeOK, Locals
  <2>2. [loc[r] EXCEPT !.titled = @ \/ pc[r] = "anaTitle"] \in Locals
    BY <1>0 DEF Locals
  <2>3. CASE loc' = [loc EXCEPT ![r] = [loc[r] EXCEPT !.titled = @ \/ pc[r] = "anaTitle"]]
    BY <1>4, <2>1, <2>2, <2>3, MoveType, PcType DEF AnalyzeSave, TypeOK, AnalyzePcs
  <2>4. CASE UNCHANGED loc
    BY <1>4, <2>1, <2>4, PcType DEF AnalyzeSave, TypeOK, AnalyzePcs
  <2> QED  BY <1>4, <2>3, <2>4 DEF AnalyzeSave
<1>5. CASE AnalyzeOut(r)
  <2>1. [loc[r] EXCEPT !.closed = TRUE, !.left = MaxCalls] \in Locals
    BY <1>0, BoundsAssumption DEF Locals
  <2>2. CASE loc' = [loc EXCEPT ![r] = [loc[r] EXCEPT !.closed = TRUE, !.left = MaxCalls]]
              /\ UNCHANGED pc /\ pc[r] = "anaLoop"
    BY <1>5, <2>1, <2>2 DEF AnalyzeOut, TypeOK
  <2>3. CASE UNCHANGED loc
    BY <1>5, <2>3, PcType DEF AnalyzeOut, TypeOK, AnalyzePcs
  <2> QED  BY <1>5, <2>2, <2>3 DEF AnalyzeOut
<1>6. CASE AnalyzeFail(r)
  BY <1>6, PcType DEF AnalyzeFail, TypeOK, AnalyzePcs
<1>7. CASE AnalyzeGet(r)
  <2>1. [Get EXCEPT !.analyzed = TRUE] \in Drafts
    BY GetType DEF Drafts
  <2>2. [loc[r] EXCEPT !.draft = [Get EXCEPT !.analyzed = TRUE]] \in Locals
    BY <1>0, <2>1 DEF Locals
  <2> QED  BY <1>7, <2>2, MoveType, PcType DEF AnalyzeGet, TypeOK, AnalyzePcs
<1>8. CASE AnalyzeFlag(r)
  <2>1. file' \in Drafts \cup {NoDraft} /\ mem' \in Drafts \cup {NoDraft}
    BY <1>0, <1>8 DEF AnalyzeFlag, SaveOk, SaveFails, TypeOK, Locals
  <2>2. loc[r].names \in SUBSET Names  BY <1>0 DEF Locals
  <2>3. covered' \in SUBSET Contents
    <3>1. {staged[n] : n \in loc[r].names} \ {Absent} \subseteq Contents
      BY <2>2 DEF TypeOK
    <3> QED  BY <1>8, <3>1 DEF AnalyzeFlag, TypeOK
  <2> QED  BY <1>8, <2>1, <2>3, PcType DEF AnalyzeFlag, TypeOK, AnalyzePcs
<1>9. CASE AnalyzeEnd(r)
  BY <1>9, FreshType, MoveType, PcType DEF AnalyzeEnd, End, TypeOK
<1>10. ASSUME NEW t \in Titles, AnalyzeSetTitle(r, t)  PROVE TypeOK'
  <2>1. [Get EXCEPT !.title = t] \in Drafts
    BY GetType DEF Drafts
  <2>2. [loc[r] EXCEPT !.left = @ - 1, !.draft = [Get EXCEPT !.title = t]] \in Locals
    BY <1>0, <1>A, <1>10, <2>1 DEF AnalyzeSetTitle, Locals
  <2> QED  BY <1>10, <2>2, MoveType, PcType DEF AnalyzeSetTitle, TypeOK, AnalyzePcs
<1>11. ASSUME NEW n \in Names, AnalyzeMark(r, n)  PROVE TypeOK'
  <2>1. [loc[r] EXCEPT !.left = @ - 1] \in Locals
    BY <1>0, <1>A, <1>11 DEF AnalyzeMark, Locals
  <2> QED  BY <1>11, <2>1 DEF AnalyzeMark, ToolCall, TypeOK
<1>12. ASSUME NEW n \in Names, NEW m \in Names, AnalyzeRename(r, n, m)  PROVE TypeOK'
  <2> DEFINE names == IF n \in loc[r].names THEN (loc[r].names \ {n}) \cup {m}
                                            ELSE loc[r].names
  <2>1. names \in SUBSET Names
    BY <1>0 DEF Locals
  <2>2. [loc[r] EXCEPT !.left = @ - 1, !.names = names] \in Locals
    BY <1>0, <1>A, <1>12, <2>1 DEF AnalyzeRename, Locals
  <2>3. loc' = [loc EXCEPT ![r] = [loc[r] EXCEPT !.left = @ - 1, !.names = names]]
    BY <1>12 DEF AnalyzeRename
  <2>4. staged' \in [Names -> Contents \cup {Absent}]
    BY <1>12 DEF AnalyzeRename, Renamed, TypeOK, Present
  <2> HIDE DEF names
  <2> DEFINE l == [loc[r] EXCEPT !.left = @ - 1, !.names = names]
  <2>5. l \in Locals /\ loc' = [loc EXCEPT ![r] = l]
    BY <2>2, <2>3
  <2> HIDE DEF l
  <2>6. pc[r] = "anaLoop" /\ UNCHANGED <<file, digest, mem, lock, pc, covered>>
    BY <1>12 DEF AnalyzeRename, Renamed, ToolCall
  <2> QED  BY <2>4, <2>5, <2>6 DEF TypeOK
<1> QED
  BY <1>1, <1>2, <1>3, <1>4, <1>5, <1>6, <1>7, <1>8, <1>9, <1>10, <1>11, <1>12
     DEF AnalyzeStep

LEMMA TypePush ==
  ASSUME TypeOK, NEW r \in Procs, PushStep(r)
  PROVE  TypeOK'
<1>0. loc[r] \in Locals  BY DEF TypeOK
<1>1. CASE PushAcquire(r)
  BY <1>1, PcType DEF PushAcquire, TypeOK, PushPcs
<1>2. CASE PushBusy(r)
  BY <1>2, FreshType, MoveType, PcType DEF PushBusy, TypeOK
<1>3. CASE PushGate(r)
  BY <1>3, PcType DEF PushGate, TypeOK, PushPcs
<1>4. CASE PushDigest(r)
  <2>1. PICK marks \in SUBSET Contents : loc' = [loc EXCEPT ![r].marks = marks]
    BY <1>4 DEF PushDigest, TypeOK
  <2>2. [loc[r] EXCEPT !.marks = marks] \in Locals
    BY <1>0 DEF TypeOK, Locals
  <2>3. loc' = [loc EXCEPT ![r] = [loc[r] EXCEPT !.marks = marks]]
    BY <2>1
  <2> QED  BY <1>4, <2>2, <2>3, MoveType, PcType DEF PushDigest, TypeOK, PushPcs
<1>5. CASE PushUploaded(r)
  BY <1>5, PcType DEF PushUploaded, TypeOK, PushPcs
<1>6. CASE PushRecord(r)
  BY <1>6, PcType DEF PushRecord, TypeOK, PushPcs
<1>7. CASE PushFail(r)
  BY <1>7, PcType DEF PushFail, TypeOK, PushPcs
<1>8. CASE PushRemoved(r)
  BY <1>8, PcType DEF PushRemoved, TypeOK, PushPcs
<1>9. CASE PushTidy(r)
  BY <1>9, PcType DEF PushTidy, Tidy, TypeOK, PushPcs
<1>10. CASE PushClear(r)
  BY <1>10, PcType DEF PushClear, Clear, TypeOK, PushPcs
<1>11. CASE PushEnd(r)
  BY <1>11, FreshType, MoveType, PcType DEF PushEnd, End, TypeOK
<1>12. ASSUME NEW n \in Names, PushUpload(r, n)  PROVE TypeOK'
  <2>1. staged[n] \in Contents \cup {Absent}  BY DEF TypeOK
  <2>2. [loc[r] EXCEPT !.uploaded = [@ EXCEPT ![n] = staged[n]]] \in Locals
    BY <1>0, <2>1 DEF Locals
  <2>3. loc' = [loc EXCEPT ![r] = [loc[r] EXCEPT !.uploaded = [@ EXCEPT ![n] = staged[n]]]]
    BY <1>12 DEF PushUpload
  <2> QED  BY <1>12, <2>2, <2>3 DEF PushUpload, TypeOK
<1>13. ASSUME NEW n \in Names, PushRemove(r, n)  PROVE TypeOK'
  <2>1. [loc[r] EXCEPT !.names = @ \ {n}] \in Locals
    BY <1>0 DEF Locals
  <2> QED  BY <1>13, <2>1 DEF PushRemove, TypeOK
<1> QED
  BY <1>1, <1>2, <1>3, <1>4, <1>5, <1>6, <1>7, <1>8, <1>9, <1>10, <1>11, <1>12, <1>13
     DEF PushStep

LEMMA TypeRestart ==
  ASSUME TypeOK, Restart
  PROVE  TypeOK'
  BY FreshType, PcType DEF Restart, TypeOK

LEMMA TypeStutter ==
  ASSUME TypeOK, UNCHANGED vars
  PROVE  TypeOK'
  BY DEF TypeOK, vars

LEMMA TypeNext ==
  ASSUME TypeOK, [Next]_vars
  PROVE  TypeOK'
  BY TypeArrive, TypeAdd, TypeDelete, TypeEdit, TypeAnalyze, TypePush, TypeRestart,
     TypeStutter DEF Next, Step

\* Type correctness: in every behaviour, with any number of goroutines, names
\* and contents, every variable of the workspace keeps its type; in
\* particular a save or a rename never writes a name or a draft that is none.
THEOREM TypeCorrect == Spec => []TypeOK
<1>1. Init => TypeOK
  BY TypeInit
<1>2. TypeOK /\ [Next]_vars => TypeOK'
  BY TypeNext
<1> QED
  BY <1>1, <1>2, PTL DEF Spec

\* A step of r touches the locals and the program counter of r alone.
LEMMA OnlyItself ==
  ASSUME TypeOK, NEW r \in Procs, Arrive(r) \/ Step(r)
  PROVE  \A q \in Procs \ {r} : pc'[q] = pc[q] /\ loc'[q] = loc[q]
<1>1. CASE Arrive(r)
  BY <1>1 DEF Arrive, AddStart, DeleteStart, EditStart, AnalyzeStart, PushList, TypeOK
<1>2. CASE AddStep(r) \/ DeleteStep(r)
  BY <1>2 DEF AddStep, AddBadPart, AddFail, AddLand, AddLandFails, AddPin, AddPartsDone,
     AddMark, Mark, AddDrop, Drop, StageEnd, End, AddPart, DeleteStep, DeleteMark,
     DeleteDrop, DeleteTidy, Tidy, DeleteClear, Clear, TypeOK
<1>3. CASE EditStep(r)
  BY <1>3 DEF EditStep, EditGet, EditList, EditSave, TypeOK
<1>4. CASE AnalyzeStep(r)
  BY <1>4 DEF AnalyzeStep, AnalyzeList, AnalyzePrep, AnalyzeSetTime, AnalyzeSave,
     AnalyzeOut, AnalyzeFail, AnalyzeGet, AnalyzeFlag, AnalyzeEnd, End, AnalyzeSetTitle,
     AnalyzeMark, AnalyzeRename, TypeOK
<1>5. CASE PushStep(r)
  BY <1>5 DEF PushStep, PushAcquire, PushBusy, PushGate, PushDigest, PushUploaded,
     PushRecord, PushFail, PushRemoved, PushTidy, Tidy, PushClear, Clear, PushEnd, End,
     PushUpload, PushRemove, TypeOK
<1> QED
  BY <1>1, <1>2, <1>3, <1>4, <1>5 DEF Step

-----------------------------------------------------------------------------
\* The workspace lock

LEMMA KindValues ==
  /\ \A p \in StagePcs   : Kind(p) = "stage"
  /\ \A p \in AnalyzePcs : Kind(p) = "analyze"
  /\ \A p \in PushPcs    : Kind(p) = "push"
  /\ \A p \in OpenPcs    : Kind(p) = ""
  BY DEF Kind, StagePcs, AnalyzePcs, PushPcs, OpenPcs

\* A goroutine that moves inside its critical section, or outside of one.
LEMMA StayOwner ==
  ASSUME TypeOK, LockOwner, NEW r \in Procs, NEW p,
         Kind(p) = Kind(pc[r]), pc' = [pc EXCEPT ![r] = p], lock' = lock
  PROVE  LockOwner'
  BY DEF TypeOK, LockOwner

\* acquire by a goroutine that enters its critical section.
LEMMA TakeOwner ==
  ASSUME TypeOK, LockOwner, NEW r \in Procs, NEW p,
         lock = "", Kind(p) # "", pc' = [pc EXCEPT ![r] = p], lock' = Kind(p)
  PROVE  LockOwner'
  BY DEF TypeOK, LockOwner

\* release by the goroutine that leaves it.
LEMMA FreeOwner ==
  ASSUME TypeOK, LockOwner, NEW r \in Procs, Kind(pc[r]) # "",
         pc' = [pc EXCEPT ![r] = "idle"], lock' = ""
  PROVE  LockOwner'
<1>1. Kind("idle") = ""  BY KindValues DEF OpenPcs
<1> QED  BY <1>1 DEF TypeOK, LockOwner

LEMMA OwnerArrive ==
  ASSUME TypeOK, LockOwner, NEW r \in Procs, Arrive(r)
  PROVE  LockOwner'
<1>1. ASSUME NEW k \in 0 .. MaxParts, AddStart(r, k)  PROVE LockOwner'
  BY <1>1, TakeOwner, KindValues DEF AddStart, StagePcs
<1>2. ASSUME NEW n \in Names, DeleteStart(r, n)  PROVE LockOwner'
  BY <1>2, TakeOwner, KindValues DEF DeleteStart, StagePcs
<1>3. CASE EditStart(r)
  BY <1>3, StayOwner, KindValues DEF EditStart, OpenPcs
<1>4. CASE AnalyzeStart(r)
  BY <1>4, TakeOwner, KindValues DEF AnalyzeStart, AnalyzePcs
<1>5. CASE PushList(r)
  BY <1>5, StayOwner, KindValues DEF PushList, OpenPcs
<1> QED
  BY <1>1, <1>2, <1>3, <1>4, <1>5 DEF Arrive

LEMMA OwnerStep ==
  ASSUME TypeOK, LockOwner, NEW r \in Procs, Step(r)
  PROVE  LockOwner'
<1>1. CASE AddStep(r)
  <2>1. CASE StageEnd(r)
    BY <2>1, FreeOwner, KindValues DEF StageEnd, End, StagePcs
  <2>2. CASE ~StageEnd(r)
    <3>1. /\ pc[r] \in StagePcs /\ lock' = lock
          /\ \E p \in StagePcs : pc' = [pc EXCEPT ![r] = p]
      BY <1>1, <2>2 DEF AddStep, AddBadPart, AddFail, AddLand, AddLandFails, AddPin,
         AddPartsDone, AddMark, Mark, AddDrop, Drop, AddPart, StagePcs
    <3> QED  BY <3>1, StayOwner, KindValues
  <2> QED  BY <2>1, <2>2
<1>2. CASE DeleteStep(r)
  <2>1. /\ pc[r] \in StagePcs /\ lock' = lock
        /\ \E p \in StagePcs : pc' = [pc EXCEPT ![r] = p]
    BY <1>2 DEF DeleteStep, DeleteMark, Mark, DeleteDrop, Drop, DeleteTidy, Tidy,
       DeleteClear, Clear, StagePcs
  <2> QED  BY <2>1, StayOwner, KindValues
<1>3. CASE EditStep(r)
  <2>1. /\ pc[r] \in OpenPcs /\ lock' = lock
        /\ \E p \in OpenPcs : pc' = [pc EXCEPT ![r] = p]
    BY <1>3 DEF EditStep, EditGet, EditList, EditSave, OpenPcs
  <2> QED  BY <2>1, StayOwner, KindValues
<1>4. CASE AnalyzeStep(r)
  <2>1. CASE AnalyzeEnd(r)
    BY <2>1, FreeOwner, KindValues DEF AnalyzeEnd, End, AnalyzePcs
  <2>2. CASE ~AnalyzeEnd(r)
    <3>1. /\ pc[r] \in AnalyzePcs /\ lock' = lock
          /\ (\E p \in AnalyzePcs : pc' = [pc EXCEPT ![r] = p]) \/ pc' = pc
      BY <1>4, <2>2 DEF AnalyzeStep, AnalyzeList, AnalyzePrep, AnalyzeSetTime,
         AnalyzeSave, AnalyzeOut, AnalyzeFail, AnalyzeGet, AnalyzeFlag,
         AnalyzeSetTitle, AnalyzeMark, AnalyzeRename, ToolCall, AnalyzePcs
    <3>2. CASE pc' = pc
      BY <3>1, <3>2 DEF LockOwner
    <3> QED  BY <3>1, <3>2, StayOwner, KindValues
  <2> QED  BY <2>1, <2>2
<1>5. CASE PushStep(r)
  <2>1. CASE PushEnd(r)
    BY <2>1, FreeOwner, KindValues DEF PushEnd, End, PushPcs
  <2>2. CASE PushAcquire(r)
    BY <2>2, TakeOwner, KindValues DEF PushAcquire, PushPcs
  <2>3. CASE PushBusy(r)
    BY <2>3, StayOwner, KindValues DEF PushBusy, OpenPcs
  <2>4. CASE ~PushEnd(r) /\ ~PushAcquire(r) /\ ~PushBusy(r)
    <3>1. /\ pc[r] \in PushPcs /\ lock' = lock
          /\ (\E p \in PushPcs : pc' = [pc EXCEPT ![r] = p]) \/ pc' = pc
      BY <1>5, <2>4 DEF PushStep, PushGate, PushDigest, PushUploaded, PushRecord,
         PushFail, PushRemoved, PushTidy, Tidy, PushClear, Clear, PushUpload,
         PushRemove, PushPcs
    <3>2. CASE pc' = pc
      BY <3>1, <3>2 DEF LockOwner
    <3> QED  BY <3>1, <3>2, StayOwner, KindValues
  <2> QED  BY <2>1, <2>2, <2>3, <2>4
<1> QED
  BY <1>1, <1>2, <1>3, <1>4, <1>5 DEF Step

LEMMA OwnerNext ==
  ASSUME TypeOK, LockOwner, [Next]_vars
  PROVE  LockOwner'
<1>1. CASE Restart
  BY <1>1, KindValues DEF Restart, LockOwner, OpenPcs
<1>2. CASE UNCHANGED vars
  BY <1>2 DEF vars, LockOwner
<1> QED
  BY <1>1, <1>2, OwnerArrive, OwnerStep DEF Next

\* Mutual exclusion of the workspace lock: staging, analyze and push jobs
\* never overlap, the lock always names the one that runs, and no path out of
\* a handler or a job leaves it taken.
THEOREM LockExclusive == Spec => []LockOwner
<1>1. Init => LockOwner
  BY KindValues DEF Init, LockOwner, OpenPcs
<1>2. TypeOK /\ LockOwner /\ [Next]_vars => LockOwner'
  BY OwnerNext
<1> QED
  BY <1>1, <1>2, TypeCorrect, PTL DEF Spec

-----------------------------------------------------------------------------
\* No staged content is lost

\* What a push has uploaded is what is still staged: nothing is uploaded
\* before the job reads the digest, a file and its upload agree while the job
\* runs, and every file still to be removed has been uploaded as it is.
UploadKept ==
  \A r \in Procs :
    /\ pc[r] \in {"idle", "pushAcquire", "pushGate", "pushDigest"} =>
         loc[r].uploaded = EmptyDir
    /\ pc[r] = "pushUpload" =>
         \A n \in Names : loc[r].uploaded[n] \in {Absent, staged[n]}
    /\ pc[r] \in {"pushRecord", "pushRemove"} =>
         \A n \in loc[r].names :
           loc[r].uploaded[n] = staged[n] /\ staged[n] # Absent

\* Goroutines other than r are untouched, and r is not one that UploadKept
\* speaks of: with the staged files unchanged nothing can break.
LEMMA KeptElsewhere ==
  ASSUME TypeOK, UploadKept, NEW r \in Procs,
         UNCHANGED staged,
         \A q \in Procs \ {r} : pc'[q] = pc[q] /\ loc'[q] = loc[q],
         pc'[r] \notin {"idle", "pushAcquire", "pushGate", "pushDigest",
                        "pushUpload", "pushRecord", "pushRemove"}
  PROVE  UploadKept'
  BY DEF UploadKept

\* The same when the staged files change under another kind of lock.
LEMMA KeptUnderLock ==
  ASSUME TypeOK, LockOwner', UploadKept, NEW r \in Procs,
         pc' \in [Procs -> AllPcs],
         \A q \in Procs \ {r} : pc'[q] = pc[q] /\ loc'[q] = loc[q],
         pc'[r] \in StagePcs \cup AnalyzePcs
  PROVE  UploadKept'
<1>1. \A q \in Procs \ {r} : pc[q] \notin PushPcs
  <2>1. Kind(pc'[r]) # ""  BY KindValues
  <2> QED  BY <2>1, KindValues DEF LockOwner
<1>2. \A q \in Procs \ {r} :
        pc[q] \notin {"pushUpload", "pushRecord", "pushRemove"}
  BY <1>1 DEF PushPcs
<1> QED  BY <1>2 DEF UploadKept, StagePcs, AnalyzePcs

\* A goroutine that ends or is refused has fresh locals.
LEMMA KeptEnd ==
  ASSUME TypeOK, UploadKept, NEW r \in Procs, UNCHANGED staged,
         pc' = [pc EXCEPT ![r] = "idle"],
         loc' = [loc EXCEPT ![r] = Fresh]
  PROVE  UploadKept'
<1>1. pc'[r] = "idle" /\ loc'[r].uploaded = EmptyDir
  BY DEF TypeOK, Fresh
<1>2. \A q \in Procs \ {r} : pc'[q] = pc[q] /\ loc'[q] = loc[q]
  BY DEF TypeOK
<1> QED  BY <1>1, <1>2 DEF UploadKept

\* A move of r that leaves the staged files and the uploads alone, out of the
\* part of a request that has uploaded nothing.
LEMMA KeptBefore ==
  ASSUME TypeOK, UploadKept, NEW r \in Procs, UNCHANGED staged,
         loc'[r].uploaded = loc[r].uploaded,
         \A q \in Procs \ {r} : pc'[q] = pc[q] /\ loc'[q] = loc[q],
         pc[r] \in {"idle", "pushAcquire", "pushGate", "pushDigest"},
         pc'[r] \notin {"pushRecord", "pushRemove"}
  PROVE  UploadKept'
<1>1. loc'[r].uploaded = EmptyDir
  BY DEF UploadKept
<1>2. \A n \in Names : loc'[r].uploaded[n] = Absent
  BY <1>1 DEF EmptyDir
<1> QED  BY <1>1, <1>2 DEF UploadKept

LEMMA KeptArrive ==
  ASSUME TypeOK, LockOwner, LockOwner', TypeOK', UploadKept, NEW r \in Procs, Arrive(r)
  PROVE  UploadKept'
<1>1. ASSUME NEW k \in 0 .. MaxParts, AddStart(r, k)  PROVE UploadKept'
  BY <1>1, KeptUnderLock DEF AddStart, TypeOK, StagePcs
<1>2. ASSUME NEW n \in Names, DeleteStart(r, n)  PROVE UploadKept'
  BY <1>2, KeptUnderLock DEF DeleteStart, TypeOK, StagePcs
<1>3. CASE EditStart(r)
  BY <1>3, KeptElsewhere DEF EditStart, TypeOK
<1>4. CASE AnalyzeStart(r)
  BY <1>4, KeptUnderLock DEF AnalyzeStart, TypeOK, AnalyzePcs
<1>5. CASE PushList(r)
  <2>1. loc[r] \in Locals /\ loc' = [loc EXCEPT ![r] = [loc[r] EXCEPT !.names = Present]]
    BY <1>5 DEF PushList, TypeOK
  <2>2. [loc[r] EXCEPT !.names = Present].uploaded = loc[r].uploaded
    BY <2>1 DEF Locals
  <2>3. loc'[r].uploaded = loc[r].uploaded
    BY <2>1, <2>2 DEF TypeOK
  <2>4. /\ pc[r] = "idle" /\ pc'[r] = "pushAcquire" /\ UNCHANGED staged
        /\ \A q \in Procs \ {r} : pc'[q] = pc[q] /\ loc'[q] = loc[q]
    BY <1>5 DEF PushList, TypeOK
  <2> QED  BY <2>3, <2>4, KeptBefore
<1> QED
  BY <1>1, <1>2, <1>3, <1>4, <1>5 DEF Arrive

LEMMA KeptStage ==
  ASSUME TypeOK, TypeOK', LockOwner', UploadKept, NEW r \in Procs,
         AddStep(r) \/ DeleteStep(r)
  PROVE  UploadKept'
<1>1. CASE StageEnd(r)
  BY <1>1, KeptEnd DEF StageEnd, End
<1>2. CASE ~StageEnd(r)
  <2>1. \E p \in StagePcs : pc' = [pc EXCEPT ![r] = p]
    BY <1>2 DEF AddStep, AddBadPart, AddFail, AddLand, AddLandFails, AddPin,
       AddPartsDone, AddMark, Mark, AddDrop, Drop, AddPart, DeleteStep, DeleteMark,
       DeleteDrop, DeleteTidy, Tidy, DeleteClear, Clear, StagePcs
  <2>2. \A q \in Procs \ {r} : loc'[q] = loc[q]
    BY <1>2 DEF TypeOK, AddStep, AddBadPart, AddFail, AddLand, AddLandFails, AddPin,
       AddPartsDone, AddMark, Mark, AddDrop, Drop, AddPart, DeleteStep, DeleteMark,
       DeleteDrop, DeleteTidy, Tidy, DeleteClear, Clear
  <2>3. pc'[r] \in StagePcs /\ \A q \in Procs \ {r} : pc'[q] = pc[q]
    BY <2>1 DEF TypeOK
  <2>4. pc' \in [Procs -> AllPcs]  BY DEF TypeOK
  <2> QED  BY <2>2, <2>3, <2>4, KeptUnderLock
<1> QED  BY <1>1, <1>2

LEMMA KeptEdit ==
  ASSUME TypeOK, UploadKept, NEW r \in Procs, EditStep(r)
  PROVE  UploadKept'
<1>1. ASSUME NEW t \in Titles, EditGet(r, t)  PROVE UploadKept'
  BY <1>1, KeptElsewhere DEF EditGet, TypeOK
<1>2. CASE EditList(r)
  <2>1. CASE Present = {}
    BY <1>2, <2>1, KeptEnd DEF EditList
  <2>2. CASE Present # {}
    BY <1>2, <2>2, KeptElsewhere DEF EditList, TypeOK
  <2> QED  BY <2>1, <2>2
<1>3. CASE EditSave(r)
  BY <1>3, KeptEnd DEF EditSave
<1> QED
  BY <1>1, <1>2, <1>3 DEF EditStep

LEMMA KeptAnalyze ==
  ASSUME TypeOK, TypeOK', LockOwner', UploadKept, NEW r \in Procs, AnalyzeStep(r)
  PROVE  UploadKept'
<1>1. CASE AnalyzeEnd(r)
  BY <1>1, KeptEnd DEF AnalyzeEnd, End
<1>2. CASE ~AnalyzeEnd(r)
  <2>1. /\ pc[r] \in AnalyzePcs
        /\ (\E p \in AnalyzePcs : pc' = [pc EXCEPT ![r] = p]) \/ pc' = pc
    BY <1>2 DEF AnalyzeStep, AnalyzeList, AnalyzePrep, AnalyzeSetTime, AnalyzeSave,
       AnalyzeOut, AnalyzeFail, AnalyzeGet, AnalyzeFlag, AnalyzeSetTitle, AnalyzeMark,
       AnalyzeRename, ToolCall, AnalyzePcs
  <2>2. \A q \in Procs \ {r} : loc'[q] = loc[q]
    BY <1>2 DEF TypeOK, AnalyzeStep, AnalyzeList, AnalyzePrep, AnalyzeSetTime,
       AnalyzeSave, AnalyzeOut, AnalyzeFail, AnalyzeGet, AnalyzeFlag, AnalyzeSetTitle,
       AnalyzeMark, AnalyzeRename
  <2>3. pc'[r] \in AnalyzePcs /\ \A q \in Procs \ {r} : pc'[q] = pc[q]
    BY <2>1 DEF TypeOK
  <2>4. pc' \in [Procs -> AllPcs]  BY DEF TypeOK
  <2> QED  BY <2>2, <2>3, <2>4, KeptUnderLock
<1> QED  BY <1>1, <1>2

\* Inside a push job no other goroutine is in one.
LEMMA AloneInPush ==
  ASSUME LockOwner, NEW r \in Procs, pc[r] \in PushPcs
  PROVE  \A q \in Procs \ {r} : pc[q] \notin PushPcs
  BY KindValues DEF LockOwner

LEMMA KeptPush ==
  ASSUME TypeOK, LockOwner, UploadKept, NEW r \in Procs, PushStep(r)
  PROVE  UploadKept'
<1>0. loc[r] \in Locals  BY DEF TypeOK
<1>1. CASE PushAcquire(r)
  BY <1>1, KeptBefore DEF PushAcquire, TypeOK
<1>2. CASE PushBusy(r)
  BY <1>2, KeptEnd DEF PushBusy
<1>3. CASE PushGate(r)
  <2>1. pc'[r] \in {"pushEnd", "pushDigest"} /\ \A q \in Procs \ {r} : pc'[q] = pc[q]
    BY <1>3 DEF PushGate, TypeOK
  <2> QED  BY <1>3, <2>1, KeptBefore DEF PushGate
<1>4. CASE PushDigest(r)
  <2>1. loc'[r].uploaded = loc[r].uploaded
    BY <1>0, <1>4 DEF PushDigest, TypeOK, Locals
  <2>2. /\ pc[r] = "pushDigest" /\ pc'[r] = "pushUpload" /\ UNCHANGED staged
        /\ \A q \in Procs \ {r} : pc'[q] = pc[q] /\ loc'[q] = loc[q]
    BY <1>4 DEF PushDigest, TypeOK
  <2> QED  BY <2>1, <2>2, KeptBefore
<1>5. CASE PushUploaded(r)
  <2>1. loc[r].names \subseteq Names  BY <1>0 DEF Locals
  <2>2. \A n \in loc[r].names : loc[r].uploaded[n] = staged[n] /\ staged[n] # Absent
    BY <1>5, <2>1 DEF PushUploaded, UploadKept
  <2>3. pc'[r] = "pushRecord" /\ \A q \in Procs \ {r} : pc'[q] = pc[q]
    BY <1>5 DEF PushUploaded, TypeOK
  <2> QED  BY <1>5, <2>2, <2>3 DEF PushUploaded, UploadKept
<1>6. CASE PushRecord(r)
  <2>1. pc'[r] = "pushRemove" /\ \A q \in Procs \ {r} : pc'[q] = pc[q]
    BY <1>6 DEF PushRecord, TypeOK
  <2> QED  BY <1>6, <2>1 DEF PushRecord, UploadKept
<1>7. CASE PushFail(r)
  BY <1>7, KeptElsewhere DEF PushFail, TypeOK
<1>8. CASE PushRemoved(r)
  BY <1>8, KeptElsewhere DEF PushRemoved, TypeOK
<1>9. CASE PushTidy(r)
  BY <1>9, KeptElsewhere DEF PushTidy, Tidy, TypeOK
<1>10. CASE PushClear(r)
  BY <1>10, KeptElsewhere DEF PushClear, Clear, TypeOK
<1>11. CASE PushEnd(r)
  BY <1>11, KeptEnd DEF PushEnd, End
<1>12. ASSUME NEW n \in Names, PushUpload(r, n)  PROVE UploadKept'
  <2>1. loc[r].uploaded \in [Names -> Contents \cup {Absent}]
    BY <1>0 DEF Locals
  <2>2. loc'[r].uploaded = [loc[r].uploaded EXCEPT ![n] = staged[n]]
    BY <1>0, <1>12 DEF PushUpload, TypeOK, Locals
  <2>3. \A m \in Names : loc'[r].uploaded[m] \in {Absent, staged[m]}
    BY <1>12, <2>1, <2>2 DEF PushUpload, UploadKept
  <2>4. \A q \in Procs \ {r} : loc'[q] = loc[q]
    BY <1>12 DEF PushUpload, TypeOK
  <2> QED  BY <1>12, <2>3, <2>4 DEF PushUpload, UploadKept
<1>13. ASSUME NEW n \in Names, PushRemove(r, n)  PROVE UploadKept'
  <2>1. \A q \in Procs \ {r} : pc[q] \notin {"pushUpload", "pushRecord", "pushRemove"}
    BY <1>13, AloneInPush DEF PushRemove, PushPcs
  <2>2. \A q \in Procs \ {r} : loc'[q] = loc[q]
    BY <1>13 DEF PushRemove, TypeOK
  <2>3. loc'[r].names = loc[r].names \ {n} /\ loc'[r].uploaded = loc[r].uploaded
    BY <1>0, <1>13 DEF PushRemove, TypeOK, Locals
  <2>4. \A m \in loc'[r].names : staged'[m] = staged[m]
    <3>1. loc[r].names \subseteq Names  BY <1>0 DEF Locals
    <3> QED  BY <1>13, <2>3, <3>1 DEF PushRemove, TypeOK
  <2> QED  BY <1>13, <2>1, <2>2, <2>3, <2>4 DEF PushRemove, UploadKept
<1> QED
  BY <1>1, <1>2, <1>3, <1>4, <1>5, <1>6, <1>7, <1>8, <1>9, <1>10, <1>11, <1>12, <1>13
     DEF PushStep

LEMMA KeptNext ==
  ASSUME TypeOK, LockOwner, UploadKept, [Next]_vars
  PROVE  UploadKept'
<1>0. TypeOK' /\ LockOwner'
  BY TypeNext, OwnerNext
<1>1. CASE Restart
  BY <1>1 DEF Restart, UploadKept, Fresh
<1>2. CASE UNCHANGED vars
  BY <1>2 DEF vars, UploadKept
<1> QED
  BY <1>0, <1>1, <1>2, KeptArrive, KeptStage, KeptEdit, KeptAnalyze, KeptPush
     DEF Next, Step

LEMMA LostNone ==
  ASSUME UNCHANGED staged
  PROVE  LostProperly
  BY DEF LostProperly, Batch, Present

LEMMA LostStage ==
  ASSUME TypeOK, LockOwner', TypeOK', NEW r \in Procs, pc'[r] \in StagePcs
  PROVE  LostProperly
<1>1. lock' = "stage"
  BY KindValues DEF LockOwner
<1> QED  BY <1>1 DEF LostProperly

\* A rename moves a content to another name of the workspace.
LEMMA LostRename ==
  ASSUME TypeOK, NEW r \in Procs, NEW n \in Names, NEW m \in Names,
         AnalyzeRename(r, n, m)
  PROVE  LostProperly
<1>1. /\ staged' = [staged EXCEPT ![m] = staged[n], ![n] = Absent]
      /\ staged[n] # Absent /\ staged[m] = Absent
  BY DEF AnalyzeRename, Renamed, Present
<1>2. ASSUME NEW k \in Names, staged[k] # Absent
      PROVE  \E j \in Names : staged'[j] = staged[k]
  <2>1. CASE k = n
    BY <1>1, <2>1 DEF TypeOK
  <2>2. CASE k # n
    BY <1>1, <1>2, <2>2 DEF TypeOK
  <2> QED  BY <2>1, <2>2
<1>3. Batch \subseteq Batch'
  BY <1>2 DEF Batch, Present
<1> QED  BY <1>3 DEF LostProperly

\* The end of a push removes a content only after its upload was recorded.
LEMMA LostRemove ==
  ASSUME TypeOK, UploadKept, NEW r \in Procs, NEW n \in Names, PushRemove(r, n)
  PROVE  LostProperly
<1>1. pc[r] = "pushRemove" /\ n \in loc[r].names
  BY DEF PushRemove
<1>2. loc[r].uploaded[n] = staged[n] /\ staged[n] # Absent
  BY <1>1 DEF UploadKept
<1>3. \A k \in Names \ {n} : staged'[k] = staged[k]
  BY DEF PushRemove, TypeOK
<1>4. Batch \ Batch' \subseteq {staged[n]}
  BY <1>3 DEF Batch, Present
<1>5. staged[n] \in Uploaded(r)
  BY <1>2 DEF Uploaded
<1> QED  BY <1>1, <1>4, <1>5 DEF LostProperly

LEMMA LostStep ==
  ASSUME TypeOK, LockOwner, UploadKept, [Next]_vars
  PROVE  LostProperly
<1>0. TypeOK' /\ LockOwner'
  BY TypeNext, OwnerNext
<1>1. CASE Restart \/ UNCHANGED vars
  <2>1. UNCHANGED staged  BY <1>1 DEF Restart, vars
  <2> QED  BY <2>1, LostNone
<1>2. ASSUME NEW r \in Procs, Arrive(r)  PROVE LostProperly
  <2>1. ASSUME NEW n \in Names, DeleteStart(r, n)  PROVE LostProperly
    <3>1. pc'[r] \in StagePcs
      BY <2>1 DEF DeleteStart, TypeOK, StagePcs
    <3> QED  BY <1>0, <3>1, LostStage
  <2> QED
    BY <1>2, <2>1, LostNone DEF Arrive, AddStart, EditStart, AnalyzeStart, PushList
<1>3. ASSUME NEW r \in Procs, AddStep(r)  PROVE LostProperly
  <2>1. ASSUME NEW n \in Names, NEW c \in Contents, AddPart(r, n, c)
        PROVE  LostProperly
    <3>1. pc'[r] \in StagePcs
      BY <2>1 DEF AddPart, TypeOK, StagePcs
    <3> QED  BY <1>0, <3>1, LostStage
  <2>2. CASE AddLand(r)
    <3>1. pc'[r] \in StagePcs
      BY <2>2 DEF AddLand, TypeOK, StagePcs
    <3> QED  BY <1>0, <3>1, LostStage
  <2> QED
    BY <1>3, <2>1, <2>2, LostNone DEF AddStep, AddBadPart, AddLandFails, AddFail,
       AddPin, AddPartsDone, AddMark, Mark, AddDrop, Drop, StageEnd
<1>4. ASSUME NEW r \in Procs, DeleteStep(r) \/ EditStep(r)  PROVE LostProperly
  BY <1>4, LostNone DEF DeleteStep, DeleteMark, Mark, DeleteDrop, Drop, DeleteTidy,
     Tidy, DeleteClear, Clear, EditStep, EditGet, EditList, EditSave
<1>5. ASSUME NEW r \in Procs, AnalyzeStep(r)  PROVE LostProperly
  BY <1>5, LostNone, LostRename DEF AnalyzeStep, AnalyzeList, AnalyzePrep,
     AnalyzeSetTime, AnalyzeSave, AnalyzeOut, AnalyzeFail, AnalyzeGet, AnalyzeFlag,
     AnalyzeEnd, AnalyzeSetTitle, AnalyzeMark
<1>6. ASSUME NEW r \in Procs, PushStep(r)  PROVE LostProperly
  BY <1>6, LostNone, LostRemove DEF PushStep, PushAcquire, PushBusy, PushGate,
     PushDigest, PushUploaded, PushRecord, PushFail, PushRemoved, PushTidy, Tidy,
     PushClear, Clear, PushEnd, PushUpload
<1> QED
  BY <1>1, <1>2, <1>3, <1>4, <1>5, <1>6 DEF Next, Step

\* Whatever a push has uploaded and still has to remove is in the bucket or was
\* uploaded by it.
LEMMA KeptAlways == Spec => []UploadKept
<1>1. Init => UploadKept
  <2>1. Init => \A r \in Procs : pc[r] = "idle" /\ loc[r] = Fresh
    BY DEF Init
  <2>2. Fresh.uploaded = EmptyDir
    BY DEF Fresh
  <2> QED  BY <2>1, <2>2 DEF UploadKept
<1>2. TypeOK /\ LockOwner /\ UploadKept /\ [Next]_vars => UploadKept'
  BY KeptNext
<1> QED
  BY <1>1, <1>2, TypeCorrect, LockExclusive, PTL DEF Spec

\* No staged content is lost: whatever crashes, disk errors and edits happen,
\* with any number of requests and files, a content leaves the workspace only
\* under the staging lock or after a push has recorded it.
THEOREM NothingIsLost == Spec => NothingLost
<1>1. TypeOK /\ LockOwner /\ UploadKept /\ [Next]_vars => [LostProperly]_vars
  BY LostStep
<1> QED
  BY <1>1, KeptAlways, TypeCorrect, LockExclusive, PTL DEF Spec, NothingLost

-----------------------------------------------------------------------------
\* A restart finds the draft that was shown

ClearPcs == {"delClear", "pushClear"}

\* Memory and file are written together, or not at all.
LEMMA DraftSaved ==
  ASSUME RestartKeepsDraft, NEW r \in Procs, TypeOK,
         \A q \in Procs \ {r} : pc'[q] = pc[q],
         pc[r] \notin ClearPcs,
         UNCHANGED <<file, mem>> \/ file' = mem'
  PROVE  RestartKeepsDraft'
<1>1. CASE UNCHANGED <<file, mem>>
  BY <1>1 DEF RestartKeepsDraft, ClearPcs
<1>2. CASE file' = mem'
  BY <1>2 DEF RestartKeepsDraft
<1> QED  BY <1>1, <1>2

\* While a clear is between its two halves, nobody looks at its memory.
LEMMA DraftCleared ==
  ASSUME RestartKeepsDraft, NEW r \in Procs, TypeOK, mem' = NoDraft \/ pc'[r] \in ClearPcs
  PROVE  RestartKeepsDraft'
  BY DEF RestartKeepsDraft, ClearPcs

LEMMA DraftNext ==
  ASSUME TypeOK, RestartKeepsDraft, [Next]_vars
  PROVE  RestartKeepsDraft'
<1>1. CASE Restart
  BY <1>1 DEF Restart, RestartKeepsDraft
<1>2. CASE UNCHANGED vars
  BY <1>2 DEF vars, RestartKeepsDraft
<1>3. ASSUME NEW r \in Procs, Arrive(r) \/ Step(r)  PROVE RestartKeepsDraft'
  <2>1. CASE DeleteClear(r) \/ PushClear(r)
    BY <2>1, DraftCleared DEF DeleteClear, PushClear, Clear
  <2>2. CASE DeleteTidy(r) \/ PushTidy(r)
    <3>1. CASE pc'[r] \in ClearPcs
      BY <3>1, DraftCleared
    <3>2. CASE pc'[r] \notin ClearPcs
      <4>1. UNCHANGED <<file, mem>>
        BY <2>2, <3>2 DEF DeleteTidy, PushTidy, Tidy, ClearPcs, TypeOK
      <4>2. pc[r] \notin ClearPcs /\ \A q \in Procs \ {r} : pc'[q] = pc[q]
        BY <2>2 DEF DeleteTidy, PushTidy, Tidy, ClearPcs, TypeOK
      <4> QED  BY <4>1, <4>2, DraftSaved
    <3> QED  BY <3>1, <3>2
  <2>3. CASE ~ (DeleteClear(r) \/ PushClear(r) \/ DeleteTidy(r) \/ PushTidy(r))
    <3>1. UNCHANGED <<file, mem>> \/ file' = mem'
      <4>1. CASE Arrive(r)
        BY <4>1 DEF Arrive, AddStart, DeleteStart, EditStart, AnalyzeStart, PushList
      <4>2. CASE AddStep(r) \/ DeleteStep(r)
        BY <2>3, <4>2 DEF AddStep, AddBadPart, AddFail, AddLand, AddLandFails, AddPin,
           AddPartsDone, AddMark, Mark, SaveOk, SaveFails, AddDrop, Drop, StageEnd,
           AddPart, DeleteStep, DeleteMark, DeleteDrop
      <4>3. CASE EditStep(r)
        BY <4>3 DEF EditStep, EditGet, EditList, EditSave, SaveOk, SaveFails
      <4>4. CASE AnalyzeStep(r)
        BY <4>4 DEF AnalyzeStep, AnalyzeList, AnalyzePrep, AnalyzeSetTime, AnalyzeSave,
           AnalyzeOut, AnalyzeFail, AnalyzeGet, AnalyzeFlag, AnalyzeEnd,
           AnalyzeSetTitle, AnalyzeMark, AnalyzeRename, SaveOk, SaveFails
      <4>5. CASE PushStep(r)
        BY <2>3, <4>5 DEF PushStep, PushAcquire, PushBusy, PushGate, PushDigest,
           PushUploaded, PushRecord, PushFail, PushRemoved, PushEnd, PushUpload, PushRemove
      <4> QED  BY <1>3, <4>1, <4>2, <4>3, <4>4, <4>5 DEF Step
    <3>2. pc[r] \notin ClearPcs
      BY <1>3, <2>3 DEF ClearPcs, Arrive, AddStart, DeleteStart, EditStart, AnalyzeStart,
         PushList,
         Step, AddStep, AddBadPart, AddFail, AddLand, AddLandFails, AddPin, AddPartsDone,
         AddMark, Mark, AddDrop, Drop, StageEnd, AddPart, DeleteStep,
         DeleteMark, DeleteDrop, EditStep, EditGet, EditList, EditSave,
         AnalyzeStep, AnalyzeList, AnalyzePrep, AnalyzeSetTime, AnalyzeSave, AnalyzeOut,
         AnalyzeFail, AnalyzeGet, AnalyzeFlag, AnalyzeEnd, AnalyzeSetTitle, AnalyzeMark,
         AnalyzeRename, ToolCall, PushStep, PushAcquire, PushBusy, PushGate, PushDigest,
         PushUploaded, PushRecord, PushFail, PushRemoved, PushEnd, PushUpload, PushRemove
    <3> QED  BY <1>3, <3>1, <3>2, OnlyItself, DraftSaved
  <2> QED  BY <2>1, <2>2, <2>3
<1> QED
  BY <1>1, <1>2, <1>3 DEF Next

\* Whatever fails or is edited meanwhile: a draft that the server shows is the
\* draft a restart finds, unless it is being cleared at that moment.
THEOREM DraftSurvives == Spec => []RestartKeepsDraft
<1>1. Init => RestartKeepsDraft
  BY DEF Init, RestartKeepsDraft
<1>2. TypeOK /\ RestartKeepsDraft /\ [Next]_vars => RestartKeepsDraft'
  BY DraftNext
<1> QED
  BY <1>1, <1>2, TypeCorrect, PTL DEF Spec

-----------------------------------------------------------------------------
\* The push gate, as long as nothing fails and nobody edits the draft

Quiet == ~Crashes /\ ~DiskErrors /\ "edit" \notin Requests

NoEdits == \A r \in Procs : pc[r] \notin {"editGet", "editList", "editSave"}

Moves(r) == Arrive(r) \/ Step(r)

LEMMA QuietMoves ==
  ASSUME Quiet, [Next]_vars, ~UNCHANGED vars
  PROVE  \E r \in Procs : Moves(r)
  BY DEF Quiet, Next, Restart, Moves

LEMMA NoEditsMove ==
  ASSUME Quiet, TypeOK, NoEdits, NEW r \in Procs, Moves(r)
  PROVE  NoEdits'
<1>1. pc'[r] \notin {"editGet", "editList", "editSave"}
  <2>1. CASE Arrive(r)
    BY <2>1 DEF Quiet, Arrive, AddStart, DeleteStart, EditStart, AnalyzeStart, PushList, TypeOK
  <2>2. CASE AddStep(r) \/ DeleteStep(r)
    BY <2>2 DEF AddStep, AddBadPart, AddFail, AddLand, AddLandFails, AddPin, AddPartsDone,
       AddMark, Mark, AddDrop, Drop, StageEnd, End, AddPart, DeleteStep, DeleteMark,
       DeleteDrop, DeleteTidy, Tidy, DeleteClear, Clear, TypeOK
  <2>3. CASE EditStep(r)
    BY <2>3 DEF NoEdits, EditStep, EditGet, EditList, EditSave
  <2>4. CASE AnalyzeStep(r)
    BY <2>4 DEF NoEdits, AnalyzeStep, AnalyzeList, AnalyzePrep, AnalyzeSetTime,
       AnalyzeSave, AnalyzeOut, AnalyzeFail, AnalyzeGet, AnalyzeFlag, AnalyzeEnd, End,
       AnalyzeSetTitle, AnalyzeMark, AnalyzeRename, TypeOK
  <2>5. CASE PushStep(r)
    BY <2>5 DEF NoEdits, PushStep, PushAcquire, PushBusy, PushGate, PushDigest,
       PushUploaded, PushRecord, PushFail, PushRemoved, PushTidy, Tidy, PushClear, Clear,
       PushEnd, End, PushUpload, PushRemove, TypeOK
  <2> QED  BY <2>1, <2>2, <2>3, <2>4, <2>5 DEF Moves, Step
<1> QED  BY <1>1, OnlyItself DEF NoEdits, Moves

\* Without edits, a goroutine that neither takes the lock nor holds it changes
\* nothing of the workspace.
LEMMA Bystander ==
  ASSUME Quiet, TypeOK, NoEdits, NEW r \in Procs, Moves(r),
         Kind(pc[r]) = "", Kind(pc'[r]) = ""
  PROVE  UNCHANGED <<disk, mem, lock, covered>>
<1>0. pc[r] \notin StagePcs \cup AnalyzePcs \cup PushPcs
      /\ pc'[r] \notin StagePcs \cup AnalyzePcs \cup PushPcs
  BY KindValues
<1>1. CASE Arrive(r)
  BY <1>0, <1>1 DEF Quiet, Arrive, AddStart, DeleteStart, EditStart, AnalyzeStart,
     PushList, TypeOK, StagePcs, AnalyzePcs
<1>2. CASE AddStep(r) \/ DeleteStep(r)
  <2>1. pc[r] \in StagePcs
    BY <1>2 DEF AddStep, AddBadPart, AddLand, AddLandFails, AddPin, AddPartsDone,
       AddMark, Mark, AddDrop, Drop, StageEnd, AddPart, DeleteStep, DeleteMark,
       DeleteDrop, DeleteTidy, Tidy, DeleteClear, Clear, StagePcs
  <2> QED  BY <1>0, <2>1
<1>3. CASE EditStep(r)
  BY <1>3 DEF NoEdits, EditStep, EditGet, EditList, EditSave
<1>4. CASE AnalyzeStep(r)
  <2>1. pc[r] \in AnalyzePcs
    BY <1>4 DEF AnalyzeStep, AnalyzeList, AnalyzePrep, AnalyzeSetTime, AnalyzeSave,
       AnalyzeOut, AnalyzeFail, AnalyzeGet, AnalyzeFlag, AnalyzeEnd, AnalyzeSetTitle,
       AnalyzeMark, AnalyzeRename, ToolCall, AnalyzePcs
  <2> QED  BY <1>0, <2>1
<1>5. CASE PushStep(r)
  <2>1. CASE PushAcquire(r)
    BY <1>0, <2>1 DEF PushAcquire, TypeOK, PushPcs
  <2>2. CASE PushBusy(r)
    BY <2>2 DEF PushBusy
  <2>3. CASE ~PushAcquire(r) /\ ~PushBusy(r)
    <3>1. pc[r] \in PushPcs
      BY <1>5, <2>3 DEF PushStep, PushGate, PushDigest, PushUploaded, PushRecord,
         PushFail, PushRemoved, PushTidy, Tidy, PushClear, Clear, PushEnd, PushUpload,
         PushRemove, PushPcs
    <3> QED  BY <1>0, <3>1
  <2> QED  BY <2>1, <2>2, <2>3
<1> QED  BY <1>1, <1>2, <1>3, <1>4, <1>5 DEF Moves, Step

\* A goroutine that holds the lock has the workspace for itself.
LEMMA HolderFrame ==
  ASSUME Quiet, TypeOK, LockOwner, LockOwner', NoEdits,
         NEW r \in Procs, Moves(r), NEW q \in Procs \ {r}, Kind(pc[q]) # ""
  PROVE  /\ pc'[q] = pc[q] /\ loc'[q] = loc[q]
         /\ UNCHANGED <<disk, mem, lock, covered>>
<1>1. pc'[q] = pc[q] /\ loc'[q] = loc[q]
  BY OnlyItself DEF Moves
<1>2. Kind(pc[r]) = "" /\ Kind(pc'[r]) = ""
  BY <1>1 DEF LockOwner
<1> QED  BY <1>1, <1>2, Bystander

LEMMA SameStaged ==
  ASSUME UNCHANGED staged
  PROVE  Present' = Present /\ Batch' = Batch
  BY DEF Present, Batch

LEMMA SameMemory ==
  ASSUME UNCHANGED mem
  PROVE  Get' = Get
  BY DEF Get, ZeroDraft

\* One file leaves the workspace, if it was there.
LEMMA RemoveOne ==
  ASSUME TypeOK, NEW n \in Names, staged' = [staged EXCEPT ![n] = Absent]
  PROVE  Present' = Present \ {n} /\ Batch' \subseteq Batch /\ Batch \ Batch' \subseteq {staged[n]}
  BY DEF TypeOK, Present, Batch

\* A rename gives a staged file another name.
LEMMA RenameKeeps ==
  ASSUME TypeOK, NEW n \in Names, NEW m \in Names, Renamed(n, m)
  PROVE  /\ n \in Present /\ m \notin Present
         /\ Present' = (Present \ {n}) \cup {m}
         /\ Batch' = Batch
<1>1. /\ n \in Present /\ m \notin Present
      /\ staged' = [staged EXCEPT ![m] = staged[n], ![n] = Absent]
  BY DEF Renamed
<1>2. \A k \in Names : staged'[k] = IF k = n THEN Absent ELSE IF k = m THEN staged[n] ELSE staged[k]
  BY <1>1 DEF TypeOK
<1>3. Present' = (Present \ {n}) \cup {m}
  BY <1>1, <1>2 DEF Present
<1>4. Batch' \subseteq Batch
  BY <1>1, <1>2, <1>3 DEF Batch, Present
<1>5. ASSUME NEW k \in Present  PROVE staged[k] \in Batch'
  <2>1. CASE k = n
    <3>1. m \in Present' /\ staged'[m] = staged[k]
      BY <1>1, <1>2, <1>3, <2>1
    <3> QED  BY <3>1 DEF Batch
  <2>2. CASE k # n
    <3>1. k \in Present' /\ staged'[k] = staged[k]
      BY <1>1, <1>2, <1>3, <1>5, <2>2 DEF Present
    <3> QED  BY <3>1 DEF Batch
  <2> QED  BY <2>1, <2>2
<1> QED  BY <1>1, <1>3, <1>4, <1>5 DEF Batch

RunPcs == {"anaPrep", "anaLoop", "anaTitle", "anaTime", "anaGet", "anaFlag"}

\* A run knows every staged file, its marks are of staged contents, and the
\* draft it is about to save has the flag of the draft it replaces; the last
\* save sets the flag.
Analyzing(r) ==
  /\ pc[r] \in RunPcs => loc[r].names = Present
  /\ pc[r] \in RunPcs \ {"anaPrep"} => digest \subseteq Batch
  /\ pc[r] \in {"anaTitle", "anaTime"} => loc[r].draft.analyzed = Get.analyzed
  /\ pc[r] = "anaFlag" => loc[r].draft.analyzed

\* Only the analyze handler enters a run.
LEMMA EntersRun ==
  ASSUME TypeOK, NEW r \in Procs, Moves(r), pc'[r] \in RunPcs
  PROVE  AnalyzeStep(r)
<1>1. CASE Arrive(r)
  BY <1>1 DEF RunPcs, Arrive, AddStart, DeleteStart, EditStart, AnalyzeStart, PushList, TypeOK
<1>2. CASE AddStep(r) \/ DeleteStep(r)
  BY <1>2 DEF RunPcs, AddStep, AddBadPart, AddFail, AddLand, AddLandFails, AddPin,
     AddPartsDone, AddMark, Mark, AddDrop, Drop, StageEnd, End, AddPart, DeleteStep,
     DeleteMark, DeleteDrop, DeleteTidy, Tidy, DeleteClear, Clear, TypeOK
<1>3. CASE EditStep(r)
  BY <1>3 DEF RunPcs, EditStep, EditGet, EditList, EditSave, TypeOK
<1>4. CASE PushStep(r)
  BY <1>4 DEF RunPcs, PushStep, PushAcquire, PushBusy, PushGate, PushDigest,
     PushUploaded, PushRecord, PushFail, PushRemoved, PushTidy, Tidy, PushClear, Clear,
     PushEnd, End, PushUpload, PushRemove, TypeOK
<1> QED  BY <1>1, <1>2, <1>3, <1>4 DEF Moves, Step

LEMMA AnalyzingSelf ==
  ASSUME Quiet, TypeOK, NEW r \in Procs, Analyzing(r), AnalyzeStep(r)
  PROVE  Analyzing(r)'
<1>0. loc[r] \in Locals /\ Get \in Drafts
  BY GetType DEF TypeOK
<1>1. CASE AnalyzeList(r)
  BY <1>0, <1>1, SameStaged DEF AnalyzeList, Analyzing, RunPcs, TypeOK, Locals
<1>2. CASE AnalyzePrep(r)
  BY <1>2, SameStaged DEF Quiet, AnalyzePrep, Analyzing, RunPcs, TypeOK
<1>3. CASE AnalyzeSetTime(r)
  BY <1>0, <1>3, SameStaged, SameMemory
     DEF AnalyzeSetTime, ToolCall, Analyzing, RunPcs, TypeOK, Locals
<1>4. CASE AnalyzeSave(r)
  <2>1. /\ loc'[r].names = loc[r].names /\ pc'[r] = "anaLoop"
        /\ pc[r] \in RunPcs \ {"anaPrep"} /\ UNCHANGED <<staged, digest>>
    BY <1>0, <1>4 DEF AnalyzeSave, TypeOK, Locals, RunPcs
  <2> QED  BY <2>1, SameStaged DEF Analyzing, RunPcs
<1>5. CASE AnalyzeOut(r)
  <2>1. loc'[r].names = loc[r].names
    <3>1. [loc[r] EXCEPT !.closed = TRUE, !.left = MaxCalls].names = loc[r].names
      BY <1>0 DEF Locals
    <3> QED  BY <1>5, <3>1 DEF AnalyzeOut, TypeOK
  <2>2. /\ pc'[r] \in {"anaLoop", "anaGet", "anaEnd"} /\ pc[r] = "anaLoop"
        /\ UNCHANGED <<staged, digest>>
    BY <1>5 DEF AnalyzeOut, TypeOK
  <2> QED  BY <2>1, <2>2, SameStaged DEF Analyzing, RunPcs
<1>6. CASE AnalyzeFail(r)
  BY <1>6 DEF AnalyzeFail, Analyzing, RunPcs, TypeOK
<1>7. CASE AnalyzeGet(r)
  BY <1>0, <1>7, SameStaged DEF AnalyzeGet, Analyzing, RunPcs, TypeOK, Locals, Drafts
<1>8. CASE AnalyzeFlag(r)
  BY <1>8 DEF AnalyzeFlag, Analyzing, RunPcs, TypeOK
<1>9. CASE AnalyzeEnd(r)
  BY <1>9 DEF AnalyzeEnd, End, Analyzing, RunPcs, TypeOK
<1>10. ASSUME NEW t \in Titles, AnalyzeSetTitle(r, t)  PROVE Analyzing(r)'
  BY <1>0, <1>10, SameStaged, SameMemory
     DEF AnalyzeSetTitle, ToolCall, Analyzing, RunPcs, TypeOK, Locals, Drafts
<1>11. ASSUME NEW n \in Names, AnalyzeMark(r, n)  PROVE Analyzing(r)'
  <2>1. /\ loc'[r].names = loc[r].names /\ pc[r] = "anaLoop" /\ pc' = pc
        /\ UNCHANGED staged /\ digest' = digest \cup ({staged[n]} \ {Absent})
        /\ n \in loc[r].names
    BY <1>0, <1>11 DEF AnalyzeMark, ToolCall, TypeOK, Locals
  <2>2. n \in Present
    BY <2>1 DEF Analyzing, RunPcs
  <2> QED  BY <2>1, <2>2, SameStaged DEF Analyzing, RunPcs, Batch
<1>12. ASSUME NEW n \in Names, NEW m \in Names, AnalyzeRename(r, n, m)
       PROVE  Analyzing(r)'
  <2>1. /\ loc'[r].names = IF n \in loc[r].names THEN (loc[r].names \ {n}) \cup {m}
                                                 ELSE loc[r].names
        /\ pc[r] = "anaLoop" /\ pc' = pc /\ UNCHANGED digest /\ Renamed(n, m)
    BY <1>0, <1>12 DEF AnalyzeRename, ToolCall, TypeOK, Locals
  <2> QED  BY <2>1, RenameKeeps DEF Analyzing, RunPcs
<1> QED
  BY <1>1, <1>2, <1>3, <1>4, <1>5, <1>6, <1>7, <1>8, <1>9, <1>10, <1>11, <1>12
     DEF AnalyzeStep

LEMMA AnalyzingMove ==
  ASSUME Quiet, TypeOK, LockOwner, LockOwner', NoEdits, NEW r \in Procs, Moves(r),
         \A q \in Procs : Analyzing(q)
  PROVE  \A q \in Procs : Analyzing(q)'
<1>1. Analyzing(r)'
  BY EntersRun, AnalyzingSelf DEF Analyzing, RunPcs
<1>2. ASSUME NEW q \in Procs \ {r}  PROVE Analyzing(q)'
  <2>1. CASE pc[q] \in RunPcs
    <3>1. Kind(pc[q]) # ""
      BY <2>1, KindValues DEF RunPcs, AnalyzePcs
    <3> QED  BY <3>1, HolderFrame, SameStaged, SameMemory DEF Analyzing
  <2>2. CASE pc[q] \notin RunPcs
    BY <2>2, OnlyItself DEF Moves, Analyzing, RunPcs
  <2> QED  BY <2>1, <2>2
<1> QED  BY <1>1, <1>2

\* An upload has added a file and has not yet cleared the flag.
Changed(r) == pc[r] \in {"part", "land", "pin", "addMark"} /\ loc[r].saved

\* The flag speaks of the staged files and of the marks, unless an upload is
\* about to clear it; an upload that may clear it will not forget to.
FlagTrue ==
  /\ Get.analyzed => digest \subseteq covered
  /\ Get.analyzed => Batch \subseteq covered \/ \E r \in Procs : Changed(r)
  /\ \A r \in Procs : pc[r] \in {"pin", "addMark"} => loc[r].saved

\* A step that adds nothing and sets no flag.
LEMMA FlagFrame ==
  ASSUME TypeOK, FlagTrue, NEW r \in Procs, Moves(r),
         Batch' \subseteq Batch, digest' \subseteq digest, covered' = covered,
         Get'.analyzed => Get.analyzed,
         Changed(r) => Changed(r)',
         pc'[r] \in {"pin", "addMark"} => loc'[r].saved
  PROVE  FlagTrue'
<1>1. \A q \in Procs \ {r} : Changed(q) => Changed(q)'
  BY OnlyItself DEF Changed, Moves
<1> QED  BY <1>1, OnlyItself DEF FlagTrue, Moves

\* A step after which the flag is not set.
LEMMA FlagClear ==
  ASSUME TypeOK, FlagTrue, NEW r \in Procs, Moves(r), ~Get'.analyzed,
         pc'[r] \notin {"pin", "addMark"}
  PROVE  FlagTrue'
  BY OnlyItself DEF FlagTrue, Moves

\* Nobody has changed the batch while the lock is free or another one's.
LEMMA NoneChanged ==
  ASSUME LockOwner, lock # "stage"
  PROVE  \A q \in Procs : ~Changed(q)
  BY KindValues DEF LockOwner, Changed, StagePcs

LEMMA FlagAdd ==
  ASSUME Quiet, TypeOK, LockOwner, FlagTrue, NEW r \in Procs, Moves(r), AddStep(r)
  PROVE  FlagTrue'
<1>0. loc[r] \in Locals  BY DEF TypeOK
<1>1. CASE AddBadPart(r) \/ AddPartsDone(r)
  <2>1. CASE loc[r].saved
    BY <1>1, <2>1, FlagFrame, SameStaged, SameMemory
       DEF AddBadPart, AddPartsDone, AddFail, Changed, TypeOK
  <2>2. CASE ~loc[r].saved
    BY <1>1, <2>2, FlagFrame, SameStaged, SameMemory
       DEF AddBadPart, AddPartsDone, AddFail, Changed, TypeOK
  <2> QED  BY <2>1, <2>2
<1>2. ASSUME NEW n \in Names, NEW c \in Contents, AddPart(r, n, c)
      PROVE  FlagTrue'
  <2>1. Batch' \subseteq Batch
    BY <1>2, RemoveOne DEF AddPart
  <2>2. loc'[r].saved = loc[r].saved
    BY <1>0, <1>2 DEF AddPart, TypeOK, Locals
  <2>3. pc[r] = "part" /\ pc'[r] = "land" /\ UNCHANGED <<digest, mem, covered>>
    BY <1>2 DEF AddPart, TypeOK
  <2> QED  BY <2>1, <2>2, <2>3, FlagFrame, SameMemory DEF Changed
<1>3. CASE AddLand(r)
  <2>1. pc'[r] = "pin" /\ loc'[r].saved /\ UNCHANGED <<digest, mem, covered>>
    BY <1>0, <1>3 DEF AddLand, TypeOK, Locals
  <2>2. Changed(r)'
    BY <2>1 DEF Changed
  <2> QED  BY <2>1, <2>2, SameMemory, OnlyItself DEF FlagTrue, Moves
<1>4. CASE AddLandFails(r)
  BY <1>4 DEF Quiet, AddLandFails
<1>5. CASE AddPin(r)
  <2>1. Get'.analyzed => Get.analyzed
    BY <1>5, TitleAssumption, DraftAssumption
       DEF Quiet, AddPin, SaveOk, SaveFails, Get, ZeroDraft, Drafts
  <2>2. loc[r].saved /\ loc' = loc /\ pc'[r] = "part" /\ UNCHANGED <<staged, digest, covered>>
    BY <1>5 DEF AddPin, FlagTrue, TypeOK
  <2> QED  BY <2>1, <2>2, FlagFrame, SameStaged DEF Changed
<1>6. CASE AddMark(r)
  <2>1. ~Get'.analyzed
    <3>1. CASE ~Get.analyzed
      BY <1>6, <3>1, SameMemory DEF AddMark, Mark
    <3>2. CASE Get.analyzed
      <4>1. mem' = [Get EXCEPT !.analyzed = FALSE]
        BY <1>6, <3>2 DEF Quiet, AddMark, Mark, SaveOk, SaveFails
      <4>2. [Get EXCEPT !.analyzed = FALSE].analyzed = FALSE
        BY GetType DEF Drafts
      <4> QED  BY <4>1, <4>2 DEF Get, ZeroDraft
    <3> QED  BY <3>1, <3>2
  <2>2. pc'[r] \notin {"pin", "addMark"}
    BY <1>6 DEF AddMark, Mark, TypeOK
  <2> QED  BY <2>1, <2>2, FlagClear
<1>7. CASE AddDrop(r)
  BY <1>7, FlagFrame, SameStaged, SameMemory DEF AddDrop, Drop, Changed, TypeOK
<1>8. CASE StageEnd(r)
  BY <1>8, FlagFrame, SameStaged, SameMemory DEF StageEnd, End, Changed, TypeOK
<1> QED  BY <1>1, <1>2, <1>3, <1>4, <1>5, <1>6, <1>7, <1>8 DEF AddStep

\* Leaving clear, memory holds no draft and so no flag.
LEMMA FlagDelete ==
  ASSUME Quiet, TypeOK, LockOwner, FlagTrue, NEW r \in Procs, Moves(r), DeleteStep(r)
  PROVE  FlagTrue'
<1>1. CASE DeleteMark(r)
  <2>1. Get'.analyzed => Get.analyzed
    <3>1. CASE Get.analyzed
      BY <3>1
    <3>2. CASE ~Get.analyzed
      BY <1>1, <3>2, SameMemory DEF DeleteMark, Mark
    <3> QED  BY <3>1, <3>2
  <2> QED  BY <1>1, <2>1, FlagFrame, SameStaged DEF DeleteMark, Mark, Changed, TypeOK
<1>2. CASE DeleteDrop(r)
  BY <1>2, FlagFrame, SameStaged, SameMemory DEF DeleteDrop, Drop, Changed, TypeOK
<1>3. CASE DeleteTidy(r)
  BY <1>3, FlagFrame, SameStaged, SameMemory DEF DeleteTidy, Tidy, Changed, TypeOK
<1>4. CASE DeleteClear(r)
  BY <1>4, FlagClear DEF DeleteClear, Clear, TypeOK, Get, ZeroDraft
<1> QED  BY <1>1, <1>2, <1>3, <1>4 DEF DeleteStep

LEMMA FlagAnalyze ==
  ASSUME Quiet, TypeOK, LockOwner, FlagTrue, NEW r \in Procs, Moves(r), AnalyzeStep(r),
         Analyzing(r)
  PROVE  FlagTrue'
<1>0. loc[r] \in Locals  BY DEF TypeOK
<1>1. pc[r] \in AnalyzePcs /\ pc'[r] \notin {"part", "land", "pin", "addMark"}
  BY DEF AnalyzeStep, AnalyzeList, AnalyzePrep, AnalyzeSetTime, AnalyzeSave, AnalyzeOut,
     AnalyzeFail, AnalyzeGet, AnalyzeFlag, AnalyzeEnd, End, AnalyzeSetTitle, AnalyzeMark,
     AnalyzeRename, ToolCall, AnalyzePcs, TypeOK
<1>2. ~Changed(r) /\ lock = "analyze" /\ \A q \in Procs : ~Changed(q)
  BY <1>1, NoneChanged, KindValues DEF Changed, AnalyzePcs, LockOwner
<1>3. CASE AnalyzeSave(r)
  <2>1. Get'.analyzed => Get.analyzed
    <3>1. CASE mem' = loc[r].draft
      <4>1. loc[r].draft # NoDraft
        BY <1>0, DraftAssumption DEF Locals
      <4>2. Get' = loc[r].draft
        BY <3>1, <4>1 DEF Get
      <4> QED  BY <1>3, <4>2 DEF AnalyzeSave, Analyzing
    <3>2. CASE UNCHANGED mem
      BY <3>2, SameMemory
    <3> QED  BY <1>3, <3>1, <3>2 DEF AnalyzeSave, SaveOk, SaveFails
  <2> QED  BY <1>1, <1>2, <1>3, <2>1, FlagFrame, SameStaged DEF AnalyzeSave
<1>4. CASE AnalyzeFlag(r)
  <2>1. covered' = {staged[n] : n \in loc[r].names} \ {Absent}
    BY <1>4 DEF Quiet, AnalyzeFlag, SaveFails
  <2>2. loc[r].names = Present /\ digest \subseteq Batch
    BY <1>4 DEF AnalyzeFlag, Analyzing, RunPcs
  <2>3. covered' = Batch
    BY <2>1, <2>2 DEF Batch, Present
  <2>4. UNCHANGED <<staged, digest, loc>>
    BY <1>4 DEF AnalyzeFlag
  <2>5. pc'[r] = "anaEnd"
    BY <1>4 DEF AnalyzeFlag, TypeOK
  <2> QED  BY <2>2, <2>3, <2>4, <2>5, SameStaged, OnlyItself DEF FlagTrue, Moves
<1>5. ASSUME NEW n \in Names, AnalyzeMark(r, n)  PROVE FlagTrue'
  <2>1. /\ pc[r] = "anaLoop" /\ UNCHANGED <<staged, mem, pc, covered>>
        /\ digest' = digest \cup ({staged[n]} \ {Absent})
    BY <1>5 DEF AnalyzeMark, ToolCall
  <2>2. {staged[n]} \ {Absent} \subseteq Batch
    BY DEF Batch, Present
  <2>3. Get.analyzed => Batch \subseteq covered
    BY <1>2 DEF FlagTrue
  <2> QED
    BY <2>1, <2>2, <2>3, SameStaged, SameMemory, OnlyItself DEF FlagTrue, Moves
<1>6. ASSUME NEW n \in Names, NEW m \in Names, AnalyzeRename(r, n, m)  PROVE FlagTrue'
  BY <1>1, <1>2, <1>6, FlagFrame, RenameKeeps, SameMemory DEF AnalyzeRename
<1>7. CASE AnalyzePrep(r)
  BY <1>1, <1>2, <1>7, FlagFrame, SameStaged, SameMemory DEF AnalyzePrep
<1>8. CASE UNCHANGED <<disk, mem, covered>>
  BY <1>1, <1>2, <1>8, FlagFrame, SameStaged, SameMemory
<1> QED
  BY <1>3, <1>4, <1>5, <1>6, <1>7, <1>8 DEF AnalyzeStep, AnalyzeList, AnalyzeSetTime,
     AnalyzeOut, AnalyzeFail, AnalyzeGet, AnalyzeEnd, AnalyzeSetTitle

LEMMA FlagPush ==
  ASSUME Quiet, TypeOK, LockOwner, FlagTrue, NEW r \in Procs, Moves(r), PushStep(r)
  PROVE  FlagTrue'
<1>1. /\ pc[r] \notin {"part", "land", "pin", "addMark"}
      /\ pc'[r] \notin {"part", "land", "pin", "addMark"}
  BY DEF PushStep, PushAcquire, PushBusy, PushGate, PushDigest, PushUploaded, PushRecord,
     PushFail, PushRemoved, PushTidy, Tidy, PushClear, Clear, PushEnd, End, PushUpload,
     PushRemove, TypeOK
<1>2. ~Changed(r)
  BY <1>1 DEF Changed
<1>3. CASE PushClear(r)
  BY <1>1, <1>3, FlagClear DEF PushClear, Clear, Get, ZeroDraft
<1>4. ASSUME NEW n \in Names, PushRemove(r, n)  PROVE FlagTrue'
  <2>1. Batch' \subseteq Batch
    BY <1>4, RemoveOne, SameStaged DEF PushRemove
  <2> QED  BY <1>1, <1>2, <1>4, <2>1, FlagFrame, SameMemory DEF PushRemove
<1>5. CASE PushTidy(r)
  BY <1>1, <1>2, <1>5, FlagFrame, SameStaged, SameMemory DEF PushTidy, Tidy
<1>6. CASE UNCHANGED <<disk, mem, covered>>
  BY <1>1, <1>2, <1>6, FlagFrame, SameStaged, SameMemory
<1> QED
  BY <1>3, <1>4, <1>5, <1>6 DEF PushStep, PushAcquire, PushBusy, PushGate, PushDigest,
     PushUploaded, PushRecord, PushFail, PushRemoved, PushEnd, PushUpload

LEMMA FlagArrive ==
  ASSUME Quiet, TypeOK, LockOwner, FlagTrue, NEW r \in Procs, Moves(r), Arrive(r)
  PROVE  FlagTrue'
<1>1. pc[r] = "idle" /\ pc'[r] \notin {"pin", "addMark"} /\ ~Changed(r)
  BY DEF Arrive, AddStart, DeleteStart, EditStart, AnalyzeStart, PushList, TypeOK, Changed
<1>2. UNCHANGED <<digest, mem, covered>>
  BY DEF Arrive, AddStart, DeleteStart, EditStart, AnalyzeStart, PushList
<1>3. Batch' \subseteq Batch
  BY SameStaged, RemoveOne DEF Arrive, AddStart, DeleteStart, EditStart, AnalyzeStart, PushList
<1> QED  BY <1>1, <1>2, <1>3, FlagFrame, SameMemory

LEMMA FlagMove ==
  ASSUME Quiet, TypeOK, LockOwner, NoEdits, FlagTrue, NEW r \in Procs, Moves(r), Analyzing(r)
  PROVE  FlagTrue'
<1>1. ~EditStep(r)
  BY DEF NoEdits, EditStep, EditGet, EditList, EditSave
<1> QED
  BY <1>1, FlagArrive, FlagAdd, FlagDelete, FlagAnalyze, FlagPush DEF Moves, Step

HandPcs  == {"pushUpload", "pushRecord", "pushRemove"}
PushZone == {"pushAcquire", "pushGate", "pushDigest"} \cup HandPcs

\* A push that is past the gate works on a batch that is flagged, and what it
\* has taken of it has been analyzed; it hands over something.
Pushing(r) ==
  /\ LLMConfigured =>
       /\ pc[r] \in {"pushDigest", "pushUpload", "pushRecord"} => Get.analyzed
       /\ pc[r] \in HandPcs => Uploaded(r) \cup loc[r].marks \subseteq covered
  /\ pc[r] \in PushZone \ {"pushRemove"} => loc[r].names # {}
  /\ pc[r] \in {"pushUpload", "pushRecord"} => Uploaded(r) \subseteq Batch
  /\ pc[r] = "pushRemove" => Uploaded(r) # {}

\* Only the push handler enters the zone.
LEMMA EntersPush ==
  ASSUME TypeOK, NEW r \in Procs, Moves(r), pc'[r] \in PushZone
  PROVE  PushStep(r) \/ PushList(r)
<1>1. CASE Arrive(r)
  BY <1>1 DEF PushZone, HandPcs, Arrive, AddStart, DeleteStart, EditStart, AnalyzeStart, TypeOK
<1>2. CASE AddStep(r) \/ DeleteStep(r)
  BY <1>2 DEF PushZone, HandPcs, AddStep, AddBadPart, AddFail, AddLand, AddLandFails,
     AddPin, AddPartsDone, AddMark, Mark, AddDrop, Drop, StageEnd, End, AddPart,
     DeleteStep, DeleteMark, DeleteDrop, DeleteTidy, Tidy, DeleteClear, Clear, TypeOK
<1>3. CASE EditStep(r)
  BY <1>3 DEF PushZone, HandPcs, EditStep, EditGet, EditList, EditSave, TypeOK
<1>4. CASE AnalyzeStep(r)
  BY <1>4 DEF PushZone, HandPcs, AnalyzeStep, AnalyzeList, AnalyzePrep, AnalyzeSetTime,
     AnalyzeSave, AnalyzeOut, AnalyzeFail, AnalyzeGet, AnalyzeFlag, AnalyzeEnd, End,
     AnalyzeSetTitle, AnalyzeMark, AnalyzeRename, ToolCall, TypeOK
<1> QED  BY <1>1, <1>2, <1>3, <1>4 DEF Moves, Step

\* A step that leaves the staged files, the draft and the uploads alone.
LEMMA PushingFrame ==
  ASSUME NEW r \in Procs, Pushing(r), UNCHANGED <<staged, mem, covered>>,
         loc'[r].names = loc[r].names, loc'[r].marks = loc[r].marks,
         loc'[r].uploaded = loc[r].uploaded,
         \/ pc'[r] = pc[r]
         \/ pc[r] = "pushAcquire" /\ pc'[r] = "pushGate"
         \/ pc[r] = "pushUpload" /\ pc'[r] = "pushRecord"
         \/ pc'[r] \notin PushZone
  PROVE  Pushing(r)'
<1>1. Get' = Get /\ Batch' = Batch /\ Uploaded(r)' = Uploaded(r)
  BY SameStaged, SameMemory DEF Uploaded
<1> QED  BY <1>1 DEF Pushing, PushZone, HandPcs

LEMMA PushingSelf ==
  ASSUME Quiet, TypeOK, LockOwner, UploadKept, FlagTrue, NEW r \in Procs, Pushing(r),
         PushStep(r)
  PROVE  Pushing(r)'
<1>0. loc[r] \in Locals  BY DEF TypeOK
<1>1. pc[r] \in PushPcs => \A q \in Procs : ~Changed(q)
  BY NoneChanged, KindValues DEF PushPcs, LockOwner
<1>2. CASE pc'[r] \notin PushZone
  BY <1>2 DEF Pushing, PushZone, HandPcs
<1>3. CASE PushAcquire(r)
  BY <1>3, PushingFrame DEF PushAcquire, TypeOK
<1>4. CASE PushGate(r) /\ pc'[r] \in PushZone
  <2>1. pc'[r] = "pushDigest" /\ (LLMConfigured => Get.analyzed)
    BY <1>4 DEF PushGate, TypeOK, PushZone, HandPcs
  <2>2. loc' = loc /\ Get' = Get /\ pc[r] = "pushGate"
    BY <1>4, SameMemory DEF PushGate
  <2> QED  BY <2>1, <2>2 DEF Pushing, PushZone, HandPcs
<1>5. CASE PushDigest(r)
  <2>1. /\ pc[r] = "pushDigest" /\ pc'[r] = "pushUpload" /\ UNCHANGED <<staged, mem, covered>>
        /\ loc'[r].marks = digest /\ loc'[r].names = loc[r].names
        /\ loc'[r].uploaded = loc[r].uploaded
    BY <1>0, <1>5 DEF Quiet, PushDigest, TypeOK, Locals
  <2>2. loc[r].uploaded = EmptyDir
    BY <2>1 DEF UploadKept
  <2>3. Uploaded(r)' = {}
    BY <2>1, <2>2 DEF Uploaded, EmptyDir
  <2>4. LLMConfigured => Get.analyzed /\ digest \subseteq covered
    BY <2>1 DEF Pushing, FlagTrue
  <2> QED  BY <2>1, <2>3, <2>4, SameMemory DEF Pushing, PushZone, HandPcs
<1>6. ASSUME NEW n \in Names, PushUpload(r, n)  PROVE Pushing(r)'
  <2>1. /\ pc[r] = "pushUpload" /\ pc' = pc /\ UNCHANGED <<staged, mem, covered>>
        /\ loc'[r].marks = loc[r].marks /\ loc'[r].names = loc[r].names
        /\ loc'[r].uploaded = [loc[r].uploaded EXCEPT ![n] = staged[n]]
        /\ n \in Present
    BY <1>0, <1>6 DEF PushUpload, TypeOK, Locals
  <2>2. loc[r].uploaded \in [Names -> Contents \cup {Absent}]
    BY <1>0 DEF Locals
  <2>3. Uploaded(r)' \subseteq Uploaded(r) \cup {staged[n]}
    BY <2>1, <2>2 DEF Uploaded
  <2>4. staged[n] \in Batch
    BY <2>1 DEF Batch
  <2>5. LLMConfigured => Batch \subseteq covered
    BY <1>1, <2>1 DEF Pushing, FlagTrue, PushPcs
  <2> QED
    BY <2>1, <2>3, <2>4, <2>5, SameStaged, SameMemory DEF Pushing, PushZone, HandPcs
<1>7. CASE PushUploaded(r)
  BY <1>7, PushingFrame DEF PushUploaded, TypeOK
<1>8. CASE PushRecord(r)
  <2>1. pc[r] = "pushRecord" /\ pc'[r] = "pushRemove" /\ UNCHANGED <<loc, covered>>
    BY <1>8 DEF PushRecord, TypeOK
  <2>2. PICK n \in loc[r].names : TRUE
    BY <2>1 DEF Pushing, PushZone, HandPcs
  <2>3. n \in Names /\ loc[r].uploaded[n] # Absent
    BY <1>0, <2>1, <2>2 DEF UploadKept, Locals
  <2>4. Uploaded(r) # {} /\ Uploaded(r)' = Uploaded(r)
    BY <2>1, <2>3 DEF Uploaded
  <2> QED  BY <2>1, <2>4 DEF Pushing, PushZone, HandPcs
<1>9. ASSUME NEW n \in Names, PushRemove(r, n)  PROVE Pushing(r)'
  <2>1. /\ pc[r] = "pushRemove" /\ pc' = pc /\ UNCHANGED covered
        /\ loc'[r].marks = loc[r].marks /\ loc'[r].uploaded = loc[r].uploaded
    BY <1>0, <1>9 DEF PushRemove, TypeOK, Locals
  <2>2. Uploaded(r)' = Uploaded(r)
    BY <2>1 DEF Uploaded
  <2> QED  BY <2>1, <2>2 DEF Pushing, PushZone, HandPcs
<1>10. CASE PushBusy(r) \/ PushFail(r) \/ PushRemoved(r) \/ PushTidy(r) \/ PushClear(r) \/ PushEnd(r)
  <2>1. pc'[r] \notin PushZone
    BY <1>10 DEF PushBusy, PushFail, PushRemoved, PushTidy, Tidy, PushClear, Clear,
       PushEnd, End, TypeOK, PushZone, HandPcs
  <2> QED  BY <1>2, <2>1
<1> QED
  BY <1>2, <1>3, <1>4, <1>5, <1>6, <1>7, <1>8, <1>9, <1>10 DEF PushStep

LEMMA PushingMove ==
  ASSUME Quiet, TypeOK, LockOwner, LockOwner', UploadKept, NoEdits, FlagTrue,
         NEW r \in Procs, Moves(r), \A q \in Procs : Pushing(q)
  PROVE  \A q \in Procs : Pushing(q)'
<1>1. Pushing(r)'
  <2>1. CASE pc'[r] \notin PushZone
    BY <2>1 DEF Pushing, PushZone, HandPcs
  <2>2. CASE PushList(r)
    <3>1. loc[r] \in Locals  BY DEF TypeOK
    <3>2. pc'[r] = "pushAcquire" /\ loc'[r].names = Present /\ Present # {}
      BY <2>2, <3>1 DEF PushList, TypeOK, Locals
    <3> QED  BY <3>2 DEF Pushing, PushZone, HandPcs
  <2>3. CASE PushStep(r)
    BY <2>3, PushingSelf
  <2> QED  BY <2>1, <2>2, <2>3, EntersPush
<1>2. ASSUME NEW q \in Procs \ {r}  PROVE Pushing(q)'
  <2>1. CASE Kind(pc[q]) # ""
    BY <2>1, HolderFrame, PushingFrame
  <2>2. CASE Kind(pc[q]) = ""
    <3>1. pc[q] \notin PushZone \ {"pushAcquire"}
      BY <2>2, KindValues DEF PushZone, HandPcs, PushPcs
    <3> QED  BY <3>1, OnlyItself DEF Moves, Pushing, PushZone, HandPcs
  <2> QED  BY <2>1, <2>2
<1> QED  BY <1>1, <1>2

\* The inductive invariant of the gate.
GateInv ==
  /\ NoEdits /\ FlagTrue
  /\ \A r \in Procs : Analyzing(r) /\ Pushing(r)

LEMMA GateNext ==
  ASSUME Quiet, TypeOK, LockOwner, UploadKept, GateInv, [Next]_vars
  PROVE  GateInv'
<1>1. CASE UNCHANGED vars
  <2>1. Get' = Get /\ Batch' = Batch /\ Present' = Present
    BY <1>1, SameStaged, SameMemory DEF vars
  <2>2. \A r \in Procs : Uploaded(r)' = Uploaded(r)
    BY <1>1 DEF vars, Uploaded
  <2>3. NoEdits' /\ FlagTrue'
    BY <1>1, <2>1 DEF vars, GateInv, NoEdits, FlagTrue, Changed
  <2>4. \A r \in Procs : Analyzing(r)' /\ Pushing(r)'
    BY <1>1, <2>1, <2>2 DEF vars, GateInv, Analyzing, Pushing
  <2> QED  BY <2>3, <2>4 DEF GateInv
<1>2. ASSUME NEW r \in Procs, Moves(r)  PROVE GateInv'
  <2>1. LockOwner'  BY OwnerNext
  <2> QED
    BY <1>2, <2>1, NoEditsMove, FlagMove, AnalyzingMove, PushingMove DEF GateInv
<1> QED  BY <1>1, <1>2, QuietMoves

THEOREM GateHolds ==
  ASSUME Quiet
  PROVE  Spec => []GateInv
<1>1. Init => GateInv
  <2>1. Init => ~Get.analyzed /\ \A r \in Procs : pc[r] = "idle"
    BY DEF Init, Get, ZeroDraft
  <2> QED
    BY <2>1 DEF GateInv, NoEdits, FlagTrue, Analyzing, Pushing, RunPcs, PushZone, HandPcs
<1>2. TypeOK /\ LockOwner /\ UploadKept /\ GateInv /\ [Next]_vars => GateInv'
  BY GateNext
<1> QED
  BY <1>1, <1>2, TypeCorrect, LockExclusive, KeptAlways, PTL DEF Spec

\* Without failures and edits the push gate does its job, for any number of
\* requests, files and goroutines: what is recorded has been analyzed.
THEOREM GateDoesItsJob ==
  ASSUME Quiet
  PROVE  Spec => []PushedAnalyzed
<1>1. GateInv => PushedAnalyzed
  BY DEF GateInv, Pushing, PushedAnalyzed, HandPcs
<1> QED  BY <1>1, GateHolds, PTL

-----------------------------------------------------------------------------
\* A draft exists while files are staged

\* Where files and draft may disagree: between the change of the one and the
\* change of the other.
Unsettled == {"land", "pin", "delMark", "delDrop", "delTidy", "delClear",
              "pushRemove", "pushTidy", "pushClear"}

Shrinking == {"delMark", "delDrop", "delTidy", "pushRemove", "pushTidy"}

\* What a goroutine inside the lock has left of the agreement.
Settling(r) ==
  /\ pc[r] \in RunPcs \cup {"pin"} => Present # {}
  /\ pc[r] \in Shrinking => (Present # {} => mem # NoDraft)
  /\ pc[r] \in ClearPcs => Present = {}

Agree == mem # NoDraft <=> Present # {}

DraftSettled ==
  /\ (\A r \in Procs : pc[r] \notin Unsettled) => Agree
  /\ \A r \in Procs : Settling(r)

\* The lock holder's own view is all there is to show.
LEMMA SettledBy ==
  ASSUME Quiet, TypeOK, LockOwner, LockOwner', NoEdits, DraftSettled,
         NEW r \in Procs, Moves(r),
         Kind(pc[r]) # "" \/ Kind(pc'[r]) # "",
         pc'[r] \notin Unsettled => Agree', Settling(r)'
  PROVE  DraftSettled'
<1>1. ASSUME NEW q \in Procs \ {r}  PROVE Settling(q)'
  <2>1. Kind(pc'[q]) = ""
    <3>1. CASE Kind(pc'[r]) # ""
      BY <3>1 DEF LockOwner
    <3>2. CASE Kind(pc[r]) # ""
      BY <3>2, OnlyItself DEF LockOwner, Moves
    <3> QED  BY <3>1, <3>2
  <2>2. pc'[q] \notin RunPcs \cup {"pin"} \cup Shrinking \cup ClearPcs
    BY <2>1, KindValues DEF RunPcs, Shrinking, ClearPcs, StagePcs, AnalyzePcs, PushPcs
  <2> QED  BY <2>2 DEF Settling
<1> QED  BY <1>1 DEF DraftSettled

\* Before a goroutine takes the lock, files and draft agree; so they do while
\* its holder has not changed them.
LEMMA AgreeFree ==
  ASSUME LockOwner, DraftSettled, lock = ""
  PROVE  Agree
  BY KindValues DEF LockOwner, DraftSettled, Unsettled, StagePcs, PushPcs

LEMMA AgreeHeld ==
  ASSUME LockOwner, DraftSettled, NEW r \in Procs, Kind(pc[r]) # "", pc[r] \notin Unsettled
  PROVE  Agree
<1>1. \A q \in Procs \ {r} : Kind(pc[q]) = ""
  BY DEF LockOwner
<1>2. \A q \in Procs : pc[q] \notin Unsettled
  BY <1>1, KindValues DEF Unsettled, StagePcs, PushPcs
<1> QED  BY <1>2 DEF DraftSettled

LEMMA AgreeSame ==
  ASSUME UNCHANGED <<staged, mem>>
  PROVE  Agree' <=> Agree
  BY SameStaged DEF Agree

LEMMA SettledArrive ==
  ASSUME Quiet, TypeOK, LockOwner, LockOwner', NoEdits, DraftSettled,
         NEW r \in Procs, Moves(r), Arrive(r)
  PROVE  DraftSettled'
<1>1. CASE (\E k \in 0 .. MaxParts : AddStart(r, k)) \/ AnalyzeStart(r)
  <2>1. /\ lock = "" /\ UNCHANGED <<staged, mem>> /\ pc'[r] \in {"part", "anaList"}
    BY <1>1 DEF AddStart, AnalyzeStart, TypeOK
  <2>2. Agree'
    BY <2>1, AgreeFree, AgreeSame
  <2> QED
    BY <2>1, <2>2, SettledBy, KindValues DEF Settling, RunPcs, Shrinking, ClearPcs,
       StagePcs, AnalyzePcs
<1>2. ASSUME NEW n \in Names, DeleteStart(r, n)  PROVE DraftSettled'
  <2>1. lock = "" /\ UNCHANGED mem
    BY <1>2 DEF DeleteStart
  <2>2. CASE n \in Present /\ pc'[r] = "delMark"
    <3>1. mem' # NoDraft
      BY <2>1, <2>2, AgreeFree DEF Agree
    <3> QED
      BY <2>1, <2>2, <3>1, SettledBy, KindValues DEF Settling, RunPcs, Shrinking, ClearPcs,
         StagePcs, Unsettled
  <2>3. CASE UNCHANGED staged /\ pc'[r] = "stageEnd"
    <3>1. Agree'
      BY <2>1, <2>3, AgreeFree, AgreeSame
    <3> QED
      BY <2>1, <2>3, <3>1, SettledBy, KindValues DEF Settling, RunPcs, Shrinking, ClearPcs,
         StagePcs
  <2> QED  BY <1>2, <2>2, <2>3 DEF DeleteStart, TypeOK
<1>3. CASE PushList(r)
  <2>1. /\ pc[r] = "idle" /\ pc'[r] = "pushAcquire" /\ UNCHANGED <<staged, mem>>
    BY <1>3 DEF PushList, TypeOK
  <2> QED
    BY <2>1, OnlyItself, SameStaged DEF DraftSettled, Settling, Agree, Unsettled,
       RunPcs, Shrinking, ClearPcs, Moves
<1> QED  BY <1>1, <1>2, <1>3 DEF Arrive, EditStart, Quiet

LEMMA SettledStage ==
  ASSUME Quiet, TypeOK, LockOwner, LockOwner', NoEdits, DraftSettled,
         NEW r \in Procs, Moves(r), AddStep(r) \/ DeleteStep(r)
  PROVE  DraftSettled'
<1> DEFINE Goal == (pc'[r] \notin Unsettled => Agree') /\ Settling(r)'
<1>0. loc[r] \in Locals /\ Settling(r)
  BY DEF TypeOK, DraftSettled
<1>1. pc[r] \in StagePcs
  BY DEF AddStep, AddBadPart, AddLand, AddLandFails, AddPin, AddPartsDone, AddMark, Mark,
     AddDrop, Drop, StageEnd, AddPart, DeleteStep, DeleteMark, DeleteDrop, DeleteTidy,
     Tidy, DeleteClear, Clear, StagePcs
<1>2. Kind(pc[r]) # ""
  BY <1>1, KindValues
<1> SUFFICES Goal
  BY <1>2, SettledBy
<1>3. CASE /\ UNCHANGED <<staged, mem>> /\ pc[r] \notin Unsettled
           /\ pc'[r] \in {"addMark", "addDrop", "stageEnd", "idle"}
  BY <1>2, <1>3, AgreeHeld, AgreeSame DEF Settling, RunPcs, Shrinking, ClearPcs
<1>4. CASE AddBadPart(r) \/ AddPartsDone(r) \/ AddDrop(r) \/ StageEnd(r)
  <2>1. /\ UNCHANGED <<staged, mem>> /\ pc[r] \notin Unsettled
        /\ pc'[r] \in {"addMark", "addDrop", "stageEnd", "idle"}
    BY <1>4 DEF AddBadPart, AddPartsDone, AddFail, AddDrop, Drop, StageEnd, End, TypeOK,
       Unsettled
  <2> QED  BY <1>3, <2>1
<1>5. ASSUME NEW n \in Names, NEW c \in Contents, AddPart(r, n, c)  PROVE Goal
  BY <1>5 DEF AddPart, Settling, RunPcs, Shrinking, ClearPcs, Unsettled, TypeOK
<1>6. CASE AddLand(r)
  <2>1. /\ loc[r].name \in Names /\ loc[r].content \in Contents /\ pc'[r] = "pin"
        /\ staged' = [staged EXCEPT ![loc[r].name] = loc[r].content]
    BY <1>6 DEF AddLand, TypeOK
  <2>2. Present' # {}
    BY <2>1, AbsentAssumption DEF TypeOK, Present
  <2> QED  BY <2>1, <2>2 DEF Settling, RunPcs, Shrinking, ClearPcs, Unsettled
<1>7. CASE AddLandFails(r)
  BY <1>7 DEF Quiet, AddLandFails
<1>8. CASE AddPin(r)
  <2>1. Present' # {} /\ pc'[r] = "part"
    BY <1>0, <1>8, SameStaged DEF AddPin, Settling, TypeOK
  <2>2. mem' # NoDraft
    BY <1>8, ZeroType, DraftAssumption DEF Quiet, AddPin, SaveOk, SaveFails
  <2> QED  BY <2>1, <2>2 DEF Agree, Settling, RunPcs, Shrinking, ClearPcs
<1>9. CASE AddMark(r) \/ DeleteMark(r)
  <2>1. mem' # NoDraft <=> mem # NoDraft
    <3>1. CASE UNCHANGED mem
      BY <3>1
    <3>2. CASE ~UNCHANGED mem
      <4>1. Get.analyzed /\ mem' = [Get EXCEPT !.analyzed = FALSE]
        BY <1>9, <3>2 DEF AddMark, DeleteMark, Mark, SaveOk, SaveFails
      <4>2. mem # NoDraft
        BY <4>1 DEF Get, ZeroDraft
      <4>3. mem' # NoDraft
        BY <4>1, GetType, DraftAssumption DEF Drafts
      <4> QED  BY <4>2, <4>3
    <3> QED  BY <3>1, <3>2
  <2>2. Present' = Present
    BY <1>9, SameStaged DEF AddMark, DeleteMark, Mark
  <2>3. CASE AddMark(r)
    <3>1. pc[r] = "addMark" /\ pc'[r] \in {"addDrop", "stageEnd"}
      BY <2>3 DEF AddMark, Mark, TypeOK
    <3>2. Agree
      BY <1>2, <3>1, AgreeHeld DEF Unsettled
    <3> QED  BY <2>1, <2>2, <3>1, <3>2 DEF Agree, Settling, RunPcs, Shrinking, ClearPcs
  <2>4. CASE DeleteMark(r)
    <3>1. pc[r] = "delMark" /\ pc'[r] \in {"delDrop", "delTidy"}
      BY <2>4 DEF DeleteMark, Mark, TypeOK
    <3> QED
      BY <1>0, <2>1, <2>2, <3>1 DEF Settling, RunPcs, Shrinking, ClearPcs, Unsettled
  <2> QED  BY <1>9, <2>3, <2>4
<1>10. CASE DeleteDrop(r)
  <2>1. UNCHANGED <<staged, mem>> /\ pc[r] = "delDrop" /\ pc'[r] = "delTidy"
    BY <1>10 DEF DeleteDrop, Drop, TypeOK
  <2> QED
    BY <1>0, <2>1, SameStaged DEF Settling, RunPcs, Shrinking, ClearPcs, Unsettled
<1>11. CASE DeleteTidy(r)
  <2>1. /\ UNCHANGED <<staged, mem>> /\ pc[r] = "delTidy"
        /\ IF Present = {} THEN pc'[r] = "delClear" ELSE pc'[r] = "stageEnd"
    BY <1>11 DEF Quiet, DeleteTidy, Tidy, TypeOK
  <2> QED
    BY <1>0, <2>1, SameStaged DEF Agree, Settling, RunPcs, Shrinking, ClearPcs, Unsettled
<1>12. CASE DeleteClear(r)
  <2>1. UNCHANGED staged /\ mem' = NoDraft /\ pc[r] = "delClear" /\ pc'[r] = "stageEnd"
    BY <1>12 DEF DeleteClear, Clear, TypeOK
  <2> QED
    BY <1>0, <2>1, SameStaged DEF Agree, Settling, RunPcs, Shrinking, ClearPcs
<1> QED
  BY <1>4, <1>5, <1>6, <1>7, <1>8, <1>9, <1>10, <1>11, <1>12 DEF AddStep, DeleteStep

LEMMA SettledAnalyze ==
  ASSUME Quiet, TypeOK, LockOwner, LockOwner', NoEdits, DraftSettled,
         NEW r \in Procs, Moves(r), AnalyzeStep(r)
  PROVE  DraftSettled'
<1>0. loc[r] \in Locals /\ Settling(r)
  BY DEF TypeOK, DraftSettled
<1>1. /\ pc[r] \in AnalyzePcs /\ pc'[r] \in AnalyzePcs \cup {"idle"}
      /\ pc'[r] \in RunPcs => pc[r] \in RunPcs \/ Present # {}
  BY DEF AnalyzeStep, AnalyzeList, AnalyzePrep, AnalyzeSetTime, AnalyzeSave, AnalyzeOut,
     AnalyzeFail, AnalyzeGet, AnalyzeFlag, AnalyzeEnd, End, AnalyzeSetTitle, AnalyzeMark,
     AnalyzeRename, ToolCall, AnalyzePcs, RunPcs, TypeOK
<1>2. Agree
  BY <1>1, AgreeHeld, KindValues DEF AnalyzePcs, Unsettled
<1>3. Present' = {} <=> Present = {}
  <2>1. ASSUME NEW n \in Names, NEW m \in Names, AnalyzeRename(r, n, m)
        PROVE  Present' = {} <=> Present = {}
    BY <2>1, RenameKeeps DEF AnalyzeRename
  <2>2. CASE UNCHANGED staged
    BY <2>2, SameStaged
  <2> QED
    BY <2>1, <2>2 DEF AnalyzeStep, AnalyzeList, AnalyzePrep, AnalyzeSetTime, AnalyzeSave,
       AnalyzeOut, AnalyzeFail, AnalyzeGet, AnalyzeFlag, AnalyzeEnd, AnalyzeSetTitle,
       AnalyzeMark
<1>4. mem' # NoDraft <=> mem # NoDraft
  <2>1. CASE AnalyzeSave(r) \/ AnalyzeFlag(r)
    <3>1. mem # NoDraft
      BY <1>0, <1>2, <2>1 DEF AnalyzeSave, AnalyzeFlag, Agree, Settling, RunPcs
    <3>2. mem' # NoDraft
      BY <1>0, <2>1, <3>1, DraftAssumption DEF AnalyzeSave, AnalyzeFlag, SaveOk, SaveFails,
         Locals
    <3> QED  BY <3>1, <3>2
  <2>2. CASE UNCHANGED mem
    BY <2>2
  <2> QED
    BY <2>1, <2>2 DEF AnalyzeStep, AnalyzeList, AnalyzePrep, AnalyzeSetTime,
       AnalyzeOut, AnalyzeFail, AnalyzeGet, AnalyzeEnd, AnalyzeSetTitle, AnalyzeMark,
       AnalyzeRename
<1>5. Agree'
  BY <1>2, <1>3, <1>4 DEF Agree
<1>6. Settling(r)'
  BY <1>0, <1>1, <1>3 DEF Settling, RunPcs, Shrinking, ClearPcs, AnalyzePcs
<1> QED  BY <1>1, <1>5, <1>6, SettledBy, KindValues

LEMMA SettledPush ==
  ASSUME Quiet, TypeOK, LockOwner, LockOwner', NoEdits, DraftSettled,
         NEW r \in Procs, Moves(r), PushStep(r)
  PROVE  DraftSettled'
<1> DEFINE Goal == (pc'[r] \notin Unsettled => Agree') /\ Settling(r)'
<1>0. loc[r] \in Locals /\ Settling(r)
  BY DEF TypeOK, DraftSettled
<1>1. CASE PushBusy(r)
  <2>1. /\ pc[r] = "pushAcquire" /\ pc'[r] = "idle" /\ UNCHANGED <<staged, mem>>
    BY <1>1 DEF PushBusy, TypeOK
  <2> QED
    BY <2>1, OnlyItself, SameStaged DEF DraftSettled, Settling, Agree, Unsettled,
       RunPcs, Shrinking, ClearPcs, Moves
<1>2. CASE PushAcquire(r)
  <2>1. /\ lock = "" /\ UNCHANGED <<staged, mem>> /\ pc'[r] = "pushGate"
    BY <1>2 DEF PushAcquire, TypeOK
  <2>2. Agree'
    BY <2>1, AgreeFree, AgreeSame
  <2> QED
    BY <2>1, <2>2, SettledBy, KindValues DEF Settling, RunPcs, Shrinking, ClearPcs, PushPcs
<1>3. CASE ~PushBusy(r) /\ ~PushAcquire(r)
  <2>1. pc[r] \in PushPcs
    BY <1>3 DEF PushStep, PushGate, PushDigest, PushUploaded, PushRecord, PushFail,
       PushRemoved, PushTidy, Tidy, PushClear, Clear, PushEnd, PushUpload, PushRemove,
       PushPcs
  <2>2. Kind(pc[r]) # ""
    BY <2>1, KindValues
  <2> SUFFICES Goal
    BY <2>2, SettledBy
  <2>3. pc[r] \notin Unsettled => Agree
    BY <2>2, AgreeHeld
  <2>4. CASE /\ UNCHANGED <<staged, mem>> /\ pc[r] \notin Unsettled
             /\ pc'[r] \in PushPcs \cup {"idle"} /\ pc'[r] \notin {"pushTidy", "pushClear"}
    <3>1. Agree'
      BY <2>3, <2>4, AgreeSame
    <3> QED
      BY <3>1, <2>4, SameStaged DEF Agree, Settling, RunPcs, Shrinking, ClearPcs, PushPcs
  <2>5. CASE \/ PushGate(r) \/ PushDigest(r) \/ PushUploaded(r) \/ PushRecord(r)
             \/ PushFail(r) \/ PushEnd(r) \/ \E n \in Names : PushUpload(r, n)
    <3>1. /\ UNCHANGED <<staged, mem>> /\ pc[r] \notin Unsettled
          /\ pc'[r] \in PushPcs \cup {"idle"} /\ pc'[r] \notin {"pushTidy", "pushClear"}
      BY <2>5 DEF PushGate, PushDigest, PushUploaded, PushRecord, PushFail, PushEnd, End,
         PushUpload, PushPcs, Unsettled, TypeOK
    <3> QED  BY <2>4, <3>1
  <2>6. ASSUME NEW n \in Names, PushRemove(r, n)  PROVE Goal
    <3>1. pc[r] = "pushRemove" /\ pc' = pc /\ UNCHANGED mem
      BY <2>6 DEF PushRemove
    <3>2. Present' \subseteq Present
      BY <2>6, RemoveOne, SameStaged DEF PushRemove
    <3> QED
      BY <1>0, <3>1, <3>2 DEF Settling, RunPcs, Shrinking, ClearPcs, Unsettled
  <2>7. CASE PushRemoved(r)
    <3>1. pc[r] = "pushRemove" /\ pc'[r] = "pushTidy" /\ UNCHANGED <<staged, mem>>
      BY <2>7 DEF PushRemoved, TypeOK
    <3> QED
      BY <1>0, <3>1, SameStaged DEF Settling, RunPcs, Shrinking, ClearPcs, Unsettled
  <2>8. CASE PushTidy(r)
    <3>1. /\ UNCHANGED <<staged, mem>> /\ pc[r] = "pushTidy"
          /\ IF Present = {} THEN pc'[r] = "pushClear" ELSE pc'[r] = "pushEnd"
      BY <2>8 DEF Quiet, PushTidy, Tidy, TypeOK
    <3> QED
      BY <1>0, <3>1, SameStaged DEF Agree, Settling, RunPcs, Shrinking, ClearPcs, Unsettled
  <2>9. CASE PushClear(r)
    <3>1. UNCHANGED staged /\ mem' = NoDraft /\ pc[r] = "pushClear" /\ pc'[r] = "pushEnd"
      BY <2>9 DEF PushClear, Clear, TypeOK
    <3> QED
      BY <1>0, <3>1, SameStaged DEF Agree, Settling, RunPcs, Shrinking, ClearPcs
  <2> QED
    BY <1>3, <2>5, <2>6, <2>7, <2>8, <2>9 DEF PushStep
<1> QED  BY <1>1, <1>2, <1>3

LEMMA SettledNext ==
  ASSUME Quiet, TypeOK, LockOwner, NoEdits, DraftSettled, [Next]_vars
  PROVE  DraftSettled'
<1>1. CASE UNCHANGED vars
  BY <1>1, SameStaged DEF vars, DraftSettled, Settling, Agree
<1>2. ASSUME NEW r \in Procs, Moves(r)  PROVE DraftSettled'
  <2>1. LockOwner'  BY OwnerNext
  <2>2. ~EditStep(r)
    BY DEF NoEdits, EditStep, EditGet, EditList, EditSave
  <2> QED
    BY <1>2, <2>1, <2>2, SettledArrive, SettledStage, SettledAnalyze, SettledPush
       DEF Moves, Step
<1> QED  BY <1>1, <1>2, QuietMoves

\* Without failures and edits, nobody who finds the workspace free finds files
\* without a draft, or a draft without files.
THEOREM DraftWithFiles ==
  ASSUME Quiet
  PROVE  Spec => []DraftIffStaged
<1>1. Init => DraftSettled
  BY DEF Init, DraftSettled, Settling, Agree, Present, EmptyDir, RunPcs, Shrinking, ClearPcs
<1>2. TypeOK /\ LockOwner /\ GateInv /\ DraftSettled /\ [Next]_vars => DraftSettled'
  BY SettledNext DEF GateInv
<1>3. LockOwner /\ DraftSettled => DraftIffStaged
  BY AgreeFree DEF DraftIffStaged, Agree
<1> QED
  BY <1>1, <1>2, <1>3, TypeCorrect, LockExclusive, GateHolds, PTL DEF Spec

-----------------------------------------------------------------------------
\* The workspace implements Gate

\* What Gate sees of the workspace besides Batch and covered.
Open   == Get.analyzed /\ lock # "stage"
Handed == UNION {Uploaded(r) : r \in {q \in Procs : pc[q] = "pushRemove"}}

LEMMA SeenAs == Promise!gate = <<Batch, covered, Open, Handed>>
  BY DEF Promise!gate, Open, Handed

\* One bundle at a time is handed over, and only under the lock.
LEMMA HandedNone == LockOwner /\ lock # "push" => Handed = {}
<1> SUFFICES ASSUME LockOwner, lock # "push"
             PROVE  \A r \in Procs : pc[r] # "pushRemove"
  BY DEF Handed
<1> QED  BY KindValues DEF LockOwner, PushPcs

LEMMA HandedNoneNext == LockOwner' /\ lock' # "push" => Handed' = {}
<1> SUFFICES ASSUME LockOwner', lock' # "push"
             PROVE  \A r \in Procs : pc'[r] # "pushRemove"
  BY DEF Handed
<1> QED  BY KindValues DEF LockOwner, PushPcs

LEMMA HandedBy ==
  ASSUME LockOwner, NEW r \in Procs, pc[r] \in PushPcs
  PROVE  Handed = IF pc[r] = "pushRemove" THEN Uploaded(r) ELSE {}
<1>1. \A q \in Procs \ {r} : pc[q] # "pushRemove"
  BY AloneInPush DEF PushPcs
<1> QED  BY <1>1 DEF Handed

LEMMA HandedByNext ==
  ASSUME LockOwner', NEW r \in Procs, pc'[r] \in PushPcs
  PROVE  Handed' = IF pc'[r] = "pushRemove" THEN Uploaded(r)' ELSE {}
<1>1. \A q \in Procs \ {r} : pc'[q] # "pushRemove"
  BY KindValues DEF LockOwner, PushPcs
<1> QED  BY <1>1 DEF Handed

\* A step nobody sees from outside.
LEMMA GateStays ==
  ASSUME Batch' = Batch, covered' = covered, Open' = Open, Handed' = Handed
  PROVE  UNCHANGED Promise!gate
  BY SeenAs DEF Promise!gate, Open, Handed

\* While an add or a delete holds the lock, anything may happen to the batch.
LEMMA GateChange ==
  ASSUME TypeOK', LockOwner, LockOwner', lock \in {"", "stage"}, lock' = "stage",
         UNCHANGED covered
  PROVE  Promise!Change
<1>1. Handed = {} /\ Handed' = {}
  BY HandedNone, HandedNoneNext
<1>2. Open' = FALSE
  BY DEF Open
<1>3. Batch' \in SUBSET Contents
  BY DEF TypeOK, Batch, Present
<1> QED  BY <1>1, <1>2, <1>3 DEF Promise!Change, Open, Handed

LEMMA GateArrive ==
  ASSUME Quiet, TypeOK, TypeOK', LockOwner, LockOwner', NEW r \in Procs, Arrive(r)
  PROVE  Promise!Next \/ UNCHANGED Promise!gate
<1>1. CASE (\E k \in 0 .. MaxParts : AddStart(r, k)) \/ \E n \in Names : DeleteStart(r, n)
  <2>1. lock = "" /\ lock' = "stage" /\ UNCHANGED covered
    BY <1>1 DEF AddStart, DeleteStart
  <2> QED  BY <2>1, GateChange DEF Promise!Next
<1>2. CASE AnalyzeStart(r)
  <2>1. lock = "" /\ lock' = "analyze" /\ UNCHANGED <<staged, mem, covered>>
    BY <1>2 DEF AnalyzeStart
  <2>2. Handed = {} /\ Handed' = {}
    BY <2>1, HandedNone, HandedNoneNext
  <2> QED  BY <2>1, <2>2, SameStaged, SameMemory, GateStays DEF Open
<1>3. CASE PushList(r)
  <2>1. /\ UNCHANGED <<staged, mem, lock, covered>> /\ pc[r] = "idle"
        /\ pc'[r] = "pushAcquire"
    BY <1>3 DEF PushList, TypeOK
  <2>2. \A q \in Procs : /\ pc'[q] = "pushRemove" <=> pc[q] = "pushRemove"
                         /\ pc[q] = "pushRemove" => loc'[q] = loc[q]
    BY <1>3, <2>1 DEF PushList, TypeOK
  <2>3. Handed' = Handed
    BY <2>2 DEF Handed, Uploaded
  <2> QED  BY <2>1, <2>3, SameStaged, SameMemory, GateStays DEF Open
<1> QED  BY <1>1, <1>2, <1>3 DEF Arrive, EditStart, Quiet

LEMMA GateStage ==
  ASSUME TypeOK, TypeOK', LockOwner, LockOwner', FlagTrue, NEW r \in Procs,
         AddStep(r) \/ DeleteStep(r)
  PROVE  Promise!Next \/ UNCHANGED Promise!gate
<1>1. pc[r] \in StagePcs /\ UNCHANGED covered
  BY DEF AddStep, AddBadPart, AddFail, AddLand, AddLandFails, AddPin, AddPartsDone,
     AddMark, Mark, AddDrop, Drop, StageEnd, AddPart, DeleteStep, DeleteMark, DeleteDrop,
     DeleteTidy, Tidy, DeleteClear, Clear, StagePcs
<1>2. lock = "stage"
  BY <1>1, KindValues DEF LockOwner
<1>3. CASE StageEnd(r)
  <2>1. lock' = "" /\ UNCHANGED <<staged, mem, covered>> /\ pc[r] = "stageEnd"
    BY <1>3 DEF StageEnd, End
  <2>2. Handed = {} /\ Handed' = {}
    BY <1>2, <2>1, HandedNone, HandedNoneNext
  <2>3. \A q \in Procs : ~Changed(q)
    BY <1>1, <2>1, KindValues DEF Changed, LockOwner, StagePcs
  <2>4. CASE Get.analyzed
    <3>1. Batch \subseteq covered
      BY <2>3, <2>4 DEF FlagTrue
    <3>2. Open' = TRUE
      BY <2>1, <2>4, SameMemory DEF Open
    <3>3. Promise!Reopen
      BY <2>1, <2>2, <3>1, <3>2, SameStaged DEF Promise!Reopen, Open, Handed
    <3> QED  BY <3>3 DEF Promise!Next
  <2>5. CASE ~Get.analyzed
    BY <2>1, <2>2, <2>5, SameStaged, SameMemory, GateStays DEF Open
  <2> QED  BY <2>4, <2>5
<1>4. CASE ~StageEnd(r)
  <2>1. lock' = lock
    BY <1>4 DEF AddStep, AddBadPart, AddFail, AddLand, AddLandFails, AddPin, AddPartsDone,
       AddMark, Mark, AddDrop, Drop, AddPart, DeleteStep, DeleteMark, DeleteDrop,
       DeleteTidy, Tidy, DeleteClear, Clear
  <2> QED  BY <1>1, <1>2, <2>1, GateChange DEF Promise!Next
<1> QED  BY <1>3, <1>4

LEMMA GateAnalyze ==
  ASSUME Quiet, TypeOK, LockOwner, LockOwner', NEW r \in Procs, AnalyzeStep(r), Analyzing(r)
  PROVE  Promise!Next \/ UNCHANGED Promise!gate
<1>0. loc[r] \in Locals /\ Get \in Drafts
  BY GetType DEF TypeOK
<1>1. pc[r] \in AnalyzePcs /\ lock' \in {"", lock}
  BY DEF AnalyzeStep, AnalyzeList, AnalyzePrep, AnalyzeSetTime, AnalyzeSave, AnalyzeOut,
     AnalyzeFail, AnalyzeGet, AnalyzeFlag, AnalyzeEnd, End, AnalyzeSetTitle, AnalyzeMark,
     AnalyzeRename, ToolCall, AnalyzePcs
<1>2. lock = "analyze"
  BY <1>1, KindValues DEF LockOwner
<1>3. Handed = {} /\ Handed' = {}
  BY <1>1, <1>2, HandedNone, HandedNoneNext
<1>4. CASE AnalyzeFlag(r)
  <2>1. covered' = {staged[n] : n \in loc[r].names} \ {Absent} /\ mem' = loc[r].draft
    BY <1>4 DEF Quiet, AnalyzeFlag, SaveFails, SaveOk
  <2>2. loc[r].names = Present /\ loc[r].draft.analyzed
    BY <1>4 DEF AnalyzeFlag, Analyzing, RunPcs
  <2>3. covered' = Batch /\ Batch' = Batch
    BY <1>4, <2>1, <2>2, SameStaged DEF AnalyzeFlag, Batch, Present
  <2>4. Open' = TRUE
    <3>1. mem' # NoDraft
      BY <1>0, <2>1, DraftAssumption DEF Locals
    <3>2. Get'.analyzed
      BY <2>1, <2>2, <3>1 DEF Get
    <3> QED  BY <1>1, <1>2, <3>2 DEF Open
  <2>5. Promise!Analyze
    BY <1>3, <2>3, <2>4 DEF Promise!Analyze, Open, Handed
  <2> QED  BY <2>5 DEF Promise!Next
<1>5. CASE ~AnalyzeFlag(r)
  <2>1. UNCHANGED covered
    BY <1>5 DEF AnalyzeStep, AnalyzeList, AnalyzePrep, AnalyzeSetTime, AnalyzeSave,
       AnalyzeOut, AnalyzeFail, AnalyzeGet, AnalyzeEnd, AnalyzeSetTitle, AnalyzeMark,
       AnalyzeRename
  <2>2. Batch' = Batch
    <3>1. ASSUME NEW n \in Names, NEW m \in Names, AnalyzeRename(r, n, m)
          PROVE  Batch' = Batch
      BY <3>1, RenameKeeps DEF AnalyzeRename
    <3>2. CASE UNCHANGED staged
      BY <3>2, SameStaged
    <3> QED
      BY <1>5, <3>1, <3>2 DEF AnalyzeStep, AnalyzeList, AnalyzePrep, AnalyzeSetTime,
         AnalyzeSave, AnalyzeOut, AnalyzeFail, AnalyzeGet, AnalyzeEnd, AnalyzeSetTitle,
         AnalyzeMark
  <2>3. Get'.analyzed = Get.analyzed
    <3>1. CASE AnalyzeSave(r) /\ mem' = loc[r].draft
      <4>1. mem' # NoDraft /\ loc[r].draft.analyzed = Get.analyzed
        BY <1>0, <3>1, DraftAssumption DEF AnalyzeSave, Analyzing, Locals
      <4> QED  BY <3>1, <4>1 DEF Get
    <3>2. CASE UNCHANGED mem
      BY <3>2, SameMemory
    <3> QED
      BY <1>5, <3>1, <3>2 DEF AnalyzeStep, AnalyzeList, AnalyzePrep, AnalyzeSetTime,
         AnalyzeSave, SaveOk, SaveFails, AnalyzeOut, AnalyzeFail, AnalyzeGet, AnalyzeEnd,
         AnalyzeSetTitle, AnalyzeMark, AnalyzeRename
  <2>4. Open' = Open
    BY <1>1, <1>2, <2>3 DEF Open
  <2> QED  BY <1>3, <2>1, <2>2, <2>4, GateStays
<1> QED  BY <1>4, <1>5

LEMMA GatePush ==
  ASSUME Quiet, LLMConfigured, TypeOK, LockOwner, LockOwner', UploadKept,
         NEW r \in Procs, PushStep(r), Pushing(r)
  PROVE  Promise!Next \/ UNCHANGED Promise!gate
<1>0. loc[r] \in Locals  BY DEF TypeOK
<1>1. CASE PushAcquire(r)
  <2>1. /\ lock = "" /\ lock' = "push" /\ UNCHANGED <<staged, mem, covered>>
        /\ pc'[r] = "pushGate"
    BY <1>1 DEF PushAcquire, TypeOK
  <2>2. Handed = {} /\ Handed' = {}
    BY <2>1, HandedNone, HandedByNext DEF PushPcs
  <2> QED  BY <2>1, <2>2, SameStaged, SameMemory, GateStays DEF Open
<1>2. CASE PushBusy(r)
  <2>1. UNCHANGED <<staged, mem, lock, covered>>
    BY <1>2 DEF PushBusy
  <2>2. \A q \in Procs : /\ pc'[q] = "pushRemove" <=> pc[q] = "pushRemove"
                         /\ pc[q] = "pushRemove" => loc'[q] = loc[q]
    BY <1>2 DEF PushBusy, TypeOK
  <2>3. Handed' = Handed
    BY <2>2 DEF Handed, Uploaded
  <2> QED  BY <2>1, <2>3, SameStaged, SameMemory, GateStays DEF Open
<1>3. CASE PushEnd(r)
  <2>1. /\ lock' = "" /\ UNCHANGED <<staged, mem, covered>> /\ pc[r] = "pushEnd"
    BY <1>3 DEF PushEnd, End
  <2>2. lock = "push" /\ Handed = {} /\ Handed' = {}
    BY <2>1, HandedBy, HandedNoneNext, KindValues DEF PushPcs, LockOwner
  <2> QED  BY <2>1, <2>2, SameStaged, SameMemory, GateStays DEF Open
<1>4. CASE ~PushAcquire(r) /\ ~PushBusy(r) /\ ~PushEnd(r)
  <2>1. pc[r] \in PushPcs /\ pc'[r] \in PushPcs /\ lock' = lock /\ covered' = covered
    BY <1>4 DEF PushStep, PushGate, PushDigest, PushUploaded, PushRecord, PushFail,
       PushRemoved, PushTidy, Tidy, PushClear, Clear, PushUpload, PushRemove, PushPcs,
       TypeOK
  <2>2. lock = "push"
    BY <2>1, KindValues DEF LockOwner
  <2>3. /\ Handed  = IF pc[r] = "pushRemove" THEN Uploaded(r) ELSE {}
        /\ Handed' = IF pc'[r] = "pushRemove" THEN Uploaded(r)' ELSE {}
    BY <2>1, HandedBy, HandedByNext
  <2>4. CASE /\ UNCHANGED <<staged, mem>>
             /\ pc[r] # "pushRemove" /\ pc'[r] # "pushRemove"
    BY <2>1, <2>3, <2>4, SameStaged, SameMemory, GateStays DEF Open
  <2>5. CASE PushRecord(r)
    <3>1. /\ pc[r] = "pushRecord" /\ pc'[r] = "pushRemove"
          /\ UNCHANGED <<staged, mem, loc>>
      BY <2>5 DEF PushRecord, TypeOK
    <3>2. Uploaded(r)' = Uploaded(r)
      BY <3>1 DEF Uploaded
    <3>3. PICK n \in loc[r].names : TRUE
      BY <3>1 DEF Pushing, PushZone, HandPcs
    <3>4. n \in Names /\ loc[r].uploaded[n] # Absent
      BY <1>0, <3>1, <3>3 DEF UploadKept, Locals
    <3>5. Uploaded(r) # {} /\ Uploaded(r) \subseteq Batch
      BY <3>1, <3>4 DEF Uploaded, Pushing
    <3>6. Get.analyzed
      BY <3>1 DEF Pushing
    <3>7. Handed = {} /\ Handed' = Uploaded(r)
      BY <2>3, <3>1, <3>2
    <3>8. Promise!Publish
      BY <2>1, <2>2, <3>1, <3>5, <3>6, <3>7, SameStaged, SameMemory
         DEF Promise!Publish, Open, Handed
    <3> QED  BY <3>8 DEF Promise!Next
  <2>6. ASSUME NEW n \in Names, PushRemove(r, n)
        PROVE  Promise!Next \/ UNCHANGED Promise!gate
    <3>1. /\ pc[r] = "pushRemove" /\ pc' = pc /\ UNCHANGED mem
          /\ loc'[r].uploaded = loc[r].uploaded
      BY <1>0, <2>6 DEF PushRemove, TypeOK, Locals
    <3>2. Uploaded(r)' = Uploaded(r) /\ Uploaded(r) # {}
      BY <3>1 DEF Uploaded, Pushing
    <3>3. Handed = Uploaded(r) /\ Handed' = Handed
      BY <2>3, <3>1, <3>2
    <3>4. Batch' \subseteq Batch /\ Batch \ Batch' \subseteq Uploaded(r)
      <4>1. CASE UNCHANGED staged
        BY <4>1, SameStaged
      <4>2. CASE staged' = [staged EXCEPT ![n] = Absent]
        <5>1. Batch' \subseteq Batch /\ Batch \ Batch' \subseteq {staged[n]}
          BY <4>2, RemoveOne
        <5>2. loc[r].uploaded[n] = staged[n] /\ staged[n] # Absent
          BY <2>6 DEF PushRemove, UploadKept
        <5> QED  BY <5>1, <5>2 DEF Uploaded
      <4> QED  BY <2>6, <4>1, <4>2 DEF PushRemove
    <3>5. Open' = Open
      BY <2>1, <3>1, SameMemory DEF Open
    <3>6. Promise!Remove
      BY <2>1, <3>2, <3>3, <3>4, <3>5 DEF Promise!Remove, Open, Handed
    <3> QED  BY <3>6 DEF Promise!Next
  <2>7. CASE PushRemoved(r)
    <3>1. pc[r] = "pushRemove" /\ pc'[r] = "pushTidy" /\ UNCHANGED <<staged, mem>>
      BY <2>7 DEF PushRemoved, TypeOK
    <3>2. Handed # {} /\ Handed' = {}
      BY <2>3, <3>1 DEF Pushing
    <3>3. Promise!Finish
      BY <2>1, <3>1, <3>2, SameStaged, SameMemory DEF Promise!Finish, Open, Handed
    <3> QED  BY <3>3 DEF Promise!Next
  <2>8. CASE PushClear(r)
    <3>1. pc[r] = "pushClear" /\ pc'[r] = "pushEnd" /\ UNCHANGED staged /\ mem' = NoDraft
      BY <2>8 DEF PushClear, Clear, TypeOK
    <3>2. Handed = {} /\ Handed' = {}
      BY <2>3, <3>1
    <3>3. Open' = FALSE
      BY <3>1 DEF Open, Get, ZeroDraft
    <3>4. Batch' = Batch /\ Batch \in SUBSET Contents
      BY <3>1, SameStaged DEF Batch, Present, TypeOK
    <3>5. Promise!Change
      BY <2>1, <3>2, <3>3, <3>4 DEF Promise!Change, Open, Handed
    <3> QED  BY <3>5 DEF Promise!Next
  <2>9. CASE \/ PushGate(r) \/ PushDigest(r) \/ PushUploaded(r) \/ PushFail(r)
             \/ PushTidy(r) \/ \E n \in Names : PushUpload(r, n)
    <3>1. /\ UNCHANGED <<staged, mem>>
          /\ pc[r] # "pushRemove" /\ pc'[r] # "pushRemove"
      BY <2>9 DEF PushGate, PushDigest, PushUploaded, PushFail, PushTidy, Tidy, PushUpload,
         TypeOK
    <3> QED  BY <2>4, <3>1
  <2> QED
    BY <1>4, <2>5, <2>6, <2>7, <2>8, <2>9 DEF PushStep
<1> QED  BY <1>1, <1>2, <1>3, <1>4

LEMMA GateStep ==
  ASSUME Quiet, LLMConfigured, TypeOK, LockOwner, UploadKept, GateInv, [Next]_vars
  PROVE  [Promise!Next]_(Promise!gate)
<1>1. CASE UNCHANGED vars
  <2>1. UNCHANGED <<Batch, covered, Open>>
    BY <1>1, SameStaged, SameMemory DEF vars, Open
  <2>2. Handed' = Handed
    BY <1>1 DEF vars, Handed, Uploaded
  <2> QED  BY <2>1, <2>2, GateStays
<1>2. ASSUME NEW r \in Procs, Moves(r)  PROVE Promise!Next \/ UNCHANGED Promise!gate
  <2>1. LockOwner' /\ TypeOK'  BY OwnerNext, TypeNext
  <2>2. ~EditStep(r)
    BY DEF GateInv, NoEdits, EditStep, EditGet, EditList, EditSave
  <2> QED
    BY <1>2, <2>1, <2>2, GateArrive, GateStage, GateAnalyze, GatePush
       DEF Moves, Step, GateInv
<1> QED  BY <1>1, <1>2, QuietMoves

\* Without failures and edits, and with the LLM configured, the workspace is
\* the gate of Gate: no interleaving of requests and jobs publishes a content
\* that the last successful analysis has not seen, or loses one.
THEOREM GateImplemented ==
  ASSUME Quiet, LLMConfigured
  PROVE  Spec => GateKept
<1>1. Init => Promise!Init
  <2>1. Init => Batch = {} /\ covered = {} /\ Open = FALSE /\ Handed = {}
    BY DEF Init, Batch, Present, EmptyDir, Open, Get, ZeroDraft, Handed
  <2> QED  BY <2>1 DEF Promise!Init, Open, Handed
<1>2. TypeOK /\ LockOwner /\ UploadKept /\ GateInv /\ [Next]_vars
        => [Promise!Next]_(Promise!gate)
  BY GateStep
<1> QED
  BY <1>1, <1>2, TypeCorrect, LockExclusive, KeptAlways, GateHolds, PTL
     DEF Spec, GateKept, Promise!Spec
=============================================================================
