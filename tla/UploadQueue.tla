---------------------------- MODULE UploadQueue ----------------------------
(***************************************************************************)
(* Staging from the upload page (upload.ts, upload.go): the page sends the *)
(* files that were picked one after the other and then says which of them  *)
(* failed.  Other pages and jobs take the workspace lock in between, the   *)
(* page learns of the lock from its events, and a connection may break on  *)
(* the way to the server or back.                                          *)
(***************************************************************************)
EXTENDS FiniteSets, Integers

CONSTANTS
  Picks,  \* the files that can be picked
  NoPick  \* no file

ASSUME PickAssumption == NoPick \notin Picks

VARIABLES
  holder,   \* the workspace lock: the file that is being staged, "other" or "free"
  known,    \* the lock is taken, as far as the page knows
  staging,  \* the page is working through its files
  fitting,  \* files that the page takes: not hidden, not a folder, below the limit
  waiting,  \* files that have not been sent
  sending,  \* the file whose answer the page is waiting for
  atServer, \* requests that the server has not answered: file -> its progress
  staged,   \* files that the page counts as staged
  failed,   \* files that it reports as failed
  landed,   \* files that have landed since they were picked
  gone      \* the page has left for the login

queueVars == <<holder, known, staging, fitting, waiting, sending, atServer, staged,
               failed, landed, gone>>

IsBusy == staging \/ known

QueueInit ==
  /\ holder = "free" /\ known = FALSE
  /\ staging = FALSE /\ gone = FALSE
  /\ fitting = {} /\ waiting = {} /\ sending = NoPick
  /\ atServer = [f \in Picks |-> "none"]
  /\ staged = {} /\ failed = {} /\ landed = {}

-----------------------------------------------------------------------------
\* The server

\* An analyze run, a push or the request of another page.
OthersWork ==
  /\ \/ holder = "free" /\ holder' = "other"
     \/ holder = "other" /\ holder' = "free"
  /\ UNCHANGED <<known, staging, fitting, waiting, sending, atServer, staged, failed, landed, gone>>

\* A lock event or a snapshot.
LearnLock ==
  /\ known' = (holder # "free") /\ ~gone
  /\ UNCHANGED <<holder, staging, fitting, waiting, sending, atServer, staged, failed, landed, gone>>

\* handleUploadAdd: acquire, or 409.
Arrive(f) ==
  /\ atServer[f] = "sent"
  /\ \/ /\ holder = "free" /\ holder' = f
        /\ atServer' = [atServer EXCEPT ![f] = "reading"]
     \/ /\ holder # "free" /\ holder' = holder
        /\ atServer' = [atServer EXCEPT ![f] = "refused"]
  /\ UNCHANGED <<known, staging, fitting, waiting, sending, staged, failed, landed, gone>>

\* The file lands, or the body is too large, broken off or cannot be saved.
Land(f) ==
  /\ atServer[f] = "reading"
  /\ \/ /\ landed' = landed \cup {f}
        /\ atServer' = [atServer EXCEPT ![f] = "ok"]
     \/ /\ landed' = landed
        /\ atServer' = [atServer EXCEPT ![f] = "refused"]
  /\ holder' = "free"
  /\ UNCHANGED <<known, staging, fitting, waiting, sending, staged, failed, gone>>

-----------------------------------------------------------------------------
\* The page

\* uploadFiles: what does not fit is left out, and said so.  A file whose lost
\* request is still at the server is not picked again before that ends.
Pick ==
  /\ ~IsBusy /\ ~gone
  /\ \E fit \in (SUBSET {f \in Picks : atServer[f] = "none"}) \ {{}} :
       fitting' = fit /\ waiting' = fit
  /\ staging' = TRUE
  /\ staged' = {} /\ failed' = {} /\ landed' = {}
  /\ UNCHANGED <<holder, known, sending, atServer, gone>>

\* next: the next file, or the end.
SendNext ==
  /\ staging /\ sending = NoPick /\ ~gone
  /\ \/ \E f \in waiting :
          /\ sending' = f /\ waiting' = waiting \ {f}
          /\ atServer' = [atServer EXCEPT ![f] = "sent"]
          /\ staging' = TRUE
     \/ /\ waiting = {} /\ staging' = FALSE
        /\ UNCHANGED <<waiting, sending, atServer>>
  /\ UNCHANGED <<holder, known, fitting, staged, failed, landed, gone>>

\* Seeded fault: an answer other than "too large" resolves the promise.
LoadAny ==
  /\ sending # NoPick /\ atServer[sending] \in {"ok", "refused"}
  /\ staged' = staged \cup {sending} /\ failed' = failed
  /\ atServer' = [atServer EXCEPT ![sending] = "none"]
  /\ sending' = NoPick
  /\ UNCHANGED <<holder, known, staging, fitting, waiting, landed, gone>>

\* xhr.onload.
Load ==
  /\ sending # NoPick /\ atServer[sending] \in {"ok", "refused"}
  /\ \/ /\ atServer[sending] = "ok"
        /\ staged' = staged \cup {sending} /\ failed' = failed
     \/ /\ atServer[sending] = "refused"
        /\ failed' = failed \cup {sending} /\ staged' = staged
  /\ atServer' = [atServer EXCEPT ![sending] = "none"]
  /\ sending' = NoPick
  /\ UNCHANGED <<holder, known, staging, fitting, waiting, landed, gone>>

\* Seeded fault: a broken connection leaves the promise open.
BreakOffPending ==
  /\ sending # NoPick
  /\ atServer[sending] \in {"sent", "ok", "refused"}
  /\ atServer' = [atServer EXCEPT ![sending] = "none"]
  /\ UNCHANGED <<holder, known, staging, fitting, waiting, sending, staged, failed, landed, gone>>

\* xhr.onerror: the connection breaks before the request arrives, while the
\* server is at it, which goes on for a while, or before its answer arrives.
BreakOff ==
  /\ sending # NoPick
  /\ failed' = failed \cup {sending}
  /\ atServer' = [atServer EXCEPT ![sending] = IF @ = "reading" THEN "lost" ELSE "none"]
  /\ sending' = NoPick
  /\ UNCHANGED <<holder, known, staging, fitting, waiting, staged, landed, gone>>

\* The server finishes a request whose page has given up on it.
LandLost(f) ==
  /\ atServer[f] = "lost"
  /\ landed' \in {landed, landed \cup {f}}
  /\ atServer' = [atServer EXCEPT ![f] = "none"] /\ holder' = "free"
  /\ UNCHANGED <<known, staging, fitting, waiting, sending, staged, failed, gone>>

\* The session has ended: the request is redirected and its file fails.  The
\* page follows, unless its user keeps it (beforeunload); then it goes on.
LoginNeeded ==
  /\ sending # NoPick /\ atServer[sending] = "sent"
  /\ failed' = failed \cup {sending} /\ gone' \in BOOLEAN
  /\ atServer' = [atServer EXCEPT ![sending] = "none"]
  /\ sending' = NoPick
  /\ UNCHANGED <<holder, known, staging, fitting, waiting, staged, landed>>

-----------------------------------------------------------------------------

ServerStep == \E f \in Picks : Arrive(f) \/ Land(f) \/ LandLost(f)
PageStep   == SendNext \/ Load

QueueNext ==
  OthersWork \/ LearnLock \/ ServerStep \/ Pick \/ PageStep \/ BreakOff \/ LoginNeeded

\* The server answers what it has read, and the page goes on when it has an
\* answer.
QueueSpec ==
  QueueInit /\ [][QueueNext]_queueVars /\ WF_queueVars(ServerStep) /\ WF_queueVars(PageStep)

-----------------------------------------------------------------------------
\* Properties

QueueTypeOK ==
  /\ holder \in Picks \cup {"other", "free"}
  /\ {known, staging, gone} \subseteq BOOLEAN
  /\ waiting \subseteq fitting /\ fitting \subseteq Picks
  /\ sending \in Picks \cup {NoPick}
  /\ atServer \in [Picks -> {"none", "sent", "reading", "ok", "refused", "lost"}]
  /\ staged \cup failed \cup landed \subseteq Picks

\* When the page says that it is done, every file that it took is counted as
\* staged or named as failed, none of them as both, and those counted as staged
\* have landed, whoever held the lock in between and wherever a connection broke
\* (upload.ts:415).
QueueReport ==
  /\ staged \subseteq landed
  /\ ~staging => staged \cup failed = fitting /\ staged \cap failed = {}

\* The page comes to an end with its files: it is never left staging, with every
\* button of it disabled (upload.ts:434).
QueueEnds == staging ~> ~staging \/ gone

=============================================================================
