------------------------------ MODULE EventHub ------------------------------
(***************************************************************************)
(* GET /upload/events: the event hub that tells the upload pages what the  *)
(* workspace looks like (events.go), the goroutines that publish to it     *)
(* (upload.go, analyze.go, push.go) and the page that follows it           *)
(* (web/src/entries/upload.ts).                                            *)
(*                                                                         *)
(* A goroutine is the list of its calls into the hub and of its changes to *)
(* the workspace, in order.  Each call is two steps, as in the code: a     *)
(* locked section (or a read), then a broadcast of what it found.  Files   *)
(* and draft are versions: what matters is whether a page has the last.    *)
(***************************************************************************)
EXTENDS Integers, Sequences

CONSTANTS
  Workers,   \* request goroutines, each with the job it starts
  Pages,     \* open upload pages, one event stream each
  None,      \* no event waits to be broadcast
  Handlers,  \* the kinds of request the goroutines serve
  BufSize,   \* eventsChanSize
  MaxDrops,  \* bound: connections lost per page
  ReadErrors \* whether a listing of the staging directory may fail

\* A listing of the staged files: the version that was listed, and whether it
\* was read.  One that failed is sent as no files at all; its version says only
\* when it was made.
Listing == Nat \X BOOLEAN

\* What is broadcast: a topic and what is said of it.
Events ==
  {<<"lock", l>> : l \in {"", "stage", "analyze", "push"}}
    \cup {<<"job", s>> : s \in {"running", "done", "error"}}
    \cup ({"files"} \X Listing)
    \cup ({"state"} \X Nat)

ASSUME NoneAssumption == None \notin Events
ASSUME BufferAssumption == BufSize \in Nat \ {0} /\ MaxDrops \in Nat
ASSUME HandlersAssumption ==
  Handlers \subseteq {"stage", "edit", "analyze", "push"}
ASSUME ReadAssumption == ReadErrors \in BOOLEAN

VARIABLES
  lock,    \* eventHub.lock
  job,     \* eventHub.job: nothing, or what the last emit said of it
  subs,    \* eventHub.subs
  chan,    \* each page's channel
  closed,  \* channels broadcast has closed
  files,   \* version of the staged files
  state,   \* version of the draft state
  todo,    \* what each goroutine has still to do
  out,     \* the event it is about to broadcast
  stream,  \* where the page's stream handler stands
  snap,    \* the snapshot it is taking
  page,    \* what the page shows
  drops    \* connections lost so far

hub    == <<lock, job, subs, chan, closed>>
truth  == <<files, state>>
worker == <<todo, out>>
client == <<stream, snap, page, drops>>
vars   == <<hub, truth, worker, client>>

-----------------------------------------------------------------------------
\* The goroutines.  <<"change", x>> stands for the write of x itself.

\* A call or a change, and what it is about.
Subjects == {"stage", "analyze", "push", "files", "state", "running", "bytes", "done", "error"}
Calls == {"acquire", "release", "check", "change", "emit", "job"} \X Subjects

Files == << <<"change", "files">>, <<"emit", "files">> >>
Draft == << <<"change", "state">>, <<"emit", "state">> >>

Within(kind, body) == << <<"acquire", kind>> >> \o body \o << <<"release", kind>> >>
Job(status) == << <<"job", status>> >>

\* Seeded fault: the page is told of the files before they change.
StageScriptsEarly ==
  { Within("stage", << <<"emit", "files">>, <<"change", "files">>, <<"change", "state">>,
                       <<"emit", "state">> >>) }

\* POST and DELETE /upload/files: refused, or files and draft change.
StageScripts ==
  { Within("stage", body) : body \in
      { << >>,
        << <<"change", "files">>, <<"change", "state">>,
           <<"emit", "files">>, <<"emit", "state">> >> } }

\* PUT /upload/state: no lock is taken; nothing is saved of an empty workspace.
EditScripts == { << <<"check", "state">> >> \o body : body \in {<< >>, Draft} }

\* POST /upload/analyze: refused; failed after set_title and rename_file; or
\* a success, which saves the flag.
AnalyzeScripts ==
  { Within("analyze", body) : body \in
      { << >>,
        Job("running") \o Draft \o Files \o Job("error"),
        Job("running") \o Files \o Draft \o Job("done") } }

\* Seeded fault: an emptied workspace loses its draft and the page is not told.
PushScriptsSilent ==
  { Within("push", Job("running") \o << <<"change", "files">>, <<"change", "state">>,
                                        <<"emit", "files">> >> \o Job("done")) }

\* POST /upload/push: refused at the gate; failed; or a success.
PushScripts ==
  { Within("push", body) : body \in
      { << >>,
        Job("running") \o Job("bytes") \o Job("error") \o << <<"emit", "files">> >>,
        Job("running") \o Job("bytes")
          \o << <<"change", "files">>, <<"change", "state">>, <<"emit", "files">> >>
          \o Job("done") \o << <<"emit", "state">> >> } }

Scripts ==
  UNION { CASE h = "stage"   -> StageScripts
            [] h = "edit"    -> EditScripts
            [] h = "analyze" -> AnalyzeScripts
            [] h = "push"    -> PushScripts : h \in Handlers }

-----------------------------------------------------------------------------
\* One call of a goroutine

\* w is about to do x (and has nothing left to broadcast).
At(w, op, x) == out[w] = None /\ todo[w] # << >> /\ Head(todo[w]) = <<op, x>>

Done(w) == todo' = [todo EXCEPT ![w] = Tail(@)]
Quit(w) == todo' = [todo EXCEPT ![w] = << >>]
Tell(w, event, x) == out' = [out EXCEPT ![w] = <<event, x>>]

\* acquire: a new operation supersedes the last job's result.
Acquire(w, kind) ==
  /\ At(w, "acquire", kind)
  /\ lock = ""
  /\ lock' = kind
  /\ job' = "none"
  /\ Tell(w, "lock", kind)
  /\ Done(w)
  /\ UNCHANGED <<subs, chan, closed, truth, client>>

\* acquire fails, or busyForState holds: 409.
Busy(w) ==
  /\ \/ \E kind \in {"stage", "analyze", "push"} : At(w, "acquire", kind) /\ lock # ""
     \/ At(w, "check", "state") /\ lock \in {"analyze", "push"}
  /\ Quit(w)
  /\ UNCHANGED <<hub, truth, out, client>>

Check(w) ==
  /\ At(w, "check", "state")
  /\ lock \notin {"analyze", "push"}
  /\ Done(w)
  /\ UNCHANGED <<hub, truth, out, client>>

Release(w) ==
  /\ At(w, "release", lock)
  /\ lock' = ""
  /\ Tell(w, "lock", "")
  /\ Done(w)
  /\ UNCHANGED <<job, subs, chan, closed, truth, client>>

\* The workspace itself changes.
Change(w) ==
  /\ \/ At(w, "change", "files") /\ files' = files + 1 /\ UNCHANGED state
     \/ At(w, "change", "state") /\ state' = state + 1 /\ UNCHANGED files
  /\ Done(w)
  /\ UNCHANGED <<hub, out, client>>

\* What a listing of a version may be: an error degrades to an empty one.
workspaceFiles(version) == {version} \X (IF ReadErrors THEN BOOLEAN ELSE {TRUE})

\* emitFiles, emitState: what is read now is broadcast later.
Emit(w) ==
  /\ \/ At(w, "emit", "files") /\ \E found \in workspaceFiles(files) : Tell(w, "files", found)
     \/ At(w, "emit", "state") /\ Tell(w, "state", state)
  /\ Done(w)
  /\ UNCHANGED <<hub, truth, client>>

\* emitProgress, emitDone, emitFail: setJob, then a broadcast; the progress of
\* bytes is throttled and may be kept back.
EmitJob(w, status) ==
  /\ At(w, "job", status)
  /\ job' = IF status = "bytes" THEN "running" ELSE status
  /\ Tell(w, "job", job') \/ (status = "bytes" /\ UNCHANGED out)
  /\ Done(w)
  /\ UNCHANGED <<lock, subs, chan, closed, truth, client>>

\* Seeded faults: an evicted subscriber stays registered, or the event is
\* skipped for a subscriber whose buffer is full.
BroadcastKeeps(w) ==
  /\ out[w] # None
  /\ LET full == {c \in subs : Len(chan[c]) >= BufSize} IN
       /\ closed' = closed \cup full
       /\ chan' = [c \in Pages |-> IF c \in subs \ full
                                   THEN Append(chan[c], out[w]) ELSE chan[c]]
  /\ out' = [out EXCEPT ![w] = None]
  /\ UNCHANGED <<lock, job, subs, truth, todo, client>>

BroadcastSkips(w) ==
  /\ out[w] # None
  /\ chan' = [c \in Pages |-> IF c \in subs /\ Len(chan[c]) < BufSize
                              THEN Append(chan[c], out[w]) ELSE chan[c]]
  /\ out' = [out EXCEPT ![w] = None]
  /\ UNCHANGED <<lock, job, subs, closed, truth, todo, client>>

\* broadcast: a subscriber whose buffer is full is evicted.
Broadcast(w) ==
  /\ out[w] # None
  /\ LET full == {c \in subs : Len(chan[c]) >= BufSize} IN
       /\ subs' = subs \ full
       /\ closed' = closed \cup full
       /\ chan' = [c \in Pages |-> IF c \in subs \ full
                                   THEN Append(chan[c], out[w]) ELSE chan[c]]
  /\ out' = [out EXCEPT ![w] = None]
  /\ UNCHANGED <<lock, job, truth, todo, client>>

-----------------------------------------------------------------------------
\* One stream: the handler subscribes before it takes the snapshot

Move(c, s) == stream' = [stream EXCEPT ![c] = s]

\* The page's EventSource (re)connects: subscribe.
Connect(c) ==
  /\ stream[c] = "off"
  /\ subs' = subs \cup {c}
  /\ closed' = closed \ {c}
  /\ chan' = [chan EXCEPT ![c] = << >>]
  /\ Move(c, "listing")
  /\ UNCHANGED <<lock, job, truth, worker, snap, page, drops>>

\* snapshot: the files, then the draft, then lock and job under the mutex.
SnapFiles(c) ==
  /\ stream[c] = "listing"
  /\ \E found \in workspaceFiles(files) : snap' = [snap EXCEPT ![c].files = found]
  /\ Move(c, "reading")
  /\ UNCHANGED <<hub, truth, worker, page, drops>>

SnapState(c) ==
  /\ stream[c] = "reading"
  /\ snap' = [snap EXCEPT ![c].state = state]
  /\ Move(c, "locking")
  /\ UNCHANGED <<hub, truth, worker, page, drops>>

\* What the page draws for the lock and job of a snapshot.  A job record does
\* not say that it is over: as long as the lock is held it is drawn as running.
Drawn(shown) ==
  CASE job = "none" -> IF lock = "stage" THEN "staging" ELSE shown
    [] job = "done" /\ lock # "" -> "running"
    [] OTHER -> job

SnapLock(c) ==
  /\ stream[c] = "locking"
  /\ page' = [page EXCEPT ![c] = [lock  |-> lock,
                                  files |-> snap[c].files,
                                  state |-> snap[c].state,
                                  shown |-> Drawn(@.shown)]]
  /\ Move(c, "open")
  /\ UNCHANGED <<hub, truth, worker, snap, drops>>

\* What the page makes of one event.
Applied(p, e) ==
  CASE e[1] = "files" -> [p EXCEPT !.files = e[2]]
    [] e[1] = "state" -> [p EXCEPT !.state = e[2]]
    [] e[1] = "job"   -> [p EXCEPT !.shown = e[2]]
    [] e[1] = "lock"  ->
         [p EXCEPT !.lock  = e[2],
                   !.shown = IF e[2] = "stage" THEN "staging"
                             ELSE IF e[2] = "" /\ @ = "staging" THEN "none" ELSE @]

\* The handler writes the next event; a closed channel still yields its buffer.
Deliver(c) ==
  /\ stream[c] = "open"
  /\ chan[c] # << >>
  /\ page' = [page EXCEPT ![c] = Applied(@, Head(chan[c]))]
  /\ chan' = [chan EXCEPT ![c] = Tail(@)]
  /\ UNCHANGED <<lock, job, subs, closed, truth, worker, stream, snap, drops>>

\* The handler returns: its channel is closed and drained, or (Drop) the
\* connection is gone.  It unsubscribes.
Leave(c) ==
  /\ subs' = subs \ {c}
  /\ Move(c, "off")
  /\ UNCHANGED <<lock, job, chan, closed, truth, worker, snap, page>>

\* Seeded fault: the handler does not notice that its channel was closed.
EndEvictedSpins(c) ==
  /\ stream[c] = "open"
  /\ c \in closed
  /\ chan[c] = << >>
  /\ UNCHANGED vars

EndEvicted(c) ==
  /\ stream[c] = "open"
  /\ c \in closed
  /\ chan[c] = << >>
  /\ Leave(c)
  /\ UNCHANGED drops

Drop(c) ==
  /\ stream[c] \in {"locking", "open"}
  /\ drops[c] < MaxDrops
  /\ drops' = [drops EXCEPT ![c] = @ + 1]
  /\ Leave(c)

-----------------------------------------------------------------------------
Blank == [lock |-> "", files |-> <<0, TRUE>>, state |-> 0, shown |-> "none"]

Init ==
  /\ lock = "" /\ job = "none" /\ subs = {} /\ closed = {}
  /\ chan = [c \in Pages |-> << >>]
  /\ files = 0 /\ state = 0
  /\ todo \in [Workers -> Scripts]
  /\ out = [w \in Workers |-> None]
  /\ stream = [c \in Pages |-> "off"]
  /\ snap = [c \in Pages |-> [files |-> <<0, TRUE>>, state |-> 0]]
  /\ page = [c \in Pages |-> Blank]
  /\ drops = [c \in Pages |-> 0]

Work(w) ==
  \/ \E kind \in {"stage", "analyze", "push"} : Acquire(w, kind)
  \/ Busy(w)
  \/ Check(w)
  \/ Release(w)
  \/ Change(w)
  \/ Emit(w)
  \/ \E status \in {"running", "bytes", "done", "error"} : EmitJob(w, status)
  \/ Broadcast(w)

Serve(c) ==
  Connect(c) \/ SnapFiles(c) \/ SnapState(c) \/ SnapLock(c) \/ Deliver(c) \/ EndEvicted(c)

Next == (\E w \in Workers : Work(w)) \/ (\E c \in Pages : Serve(c) \/ Drop(c))

Spec == Init /\ [][Next]_vars

\* Goroutines are scheduled; an EventSource reconnects and its socket drains.
Fairness == (\A w \in Workers : WF_vars(Work(w))) /\ (\A c \in Pages : WF_vars(Serve(c)))
FairSpec == Spec /\ Fairness

-----------------------------------------------------------------------------
\* Properties

TypeOK ==
  /\ lock \in {"", "stage", "analyze", "push"}
  /\ job \in {"none", "running", "done", "error"}
  /\ subs \subseteq Pages /\ closed \subseteq Pages
  /\ chan \in [Pages -> Seq(Events)]
  /\ files \in Nat /\ state \in Nat
  /\ todo \in [Workers -> Seq(Calls)]
  /\ out \in [Workers -> Events \cup {None}]
  /\ stream \in [Pages -> {"off", "listing", "reading", "locking", "open"}]
  /\ snap \in [Pages -> [files : Listing, state : Nat]]
  /\ page \in [Pages -> [lock  : {"", "stage", "analyze", "push"},
                         files : Listing, state : Nat,
                         shown : {"none", "staging", "running", "done", "error"}]]
  /\ drops \in [Pages -> 0 .. MaxDrops]

\* A broadcast only ever sends on an open channel with room (a send on a closed
\* one would panic), and only to a stream that somebody reads.
SendsSafe ==
  /\ subs \cap closed = {}
  /\ \A c \in Pages : Len(chan[c]) <= BufSize
  /\ \A c \in subs : stream[c] # "off"

\* No goroutine has anything left to do or to say.
Quiet == \A w \in Workers : todo[w] = << >> /\ out[w] = None

\* The page's stream is up and has delivered everything.
Settled(c) == Quiet /\ stream[c] = "open" /\ c \notin closed /\ chan[c] = << >>

\* However snapshots, broadcasts, evictions and reconnects interleave, a page
\* that has caught up shows the lock as it is.
LockShown == \A c \in Pages : Settled(c) => page[c].lock = lock

\* And a listing of the staged files made after they last changed, never an
\* older one: the files as they are, unless that very listing failed.
FilesShown ==
  \A c \in Pages : Settled(c) =>
    /\ page[c].files[1] = files
    /\ page[c].files[2] \/ ReadErrors

\* And the draft, whose Analyzed flag opens the push button.
StateShown == \A c \in Pages : Settled(c) => page[c].state = state

\* A page that has caught up shows no job as running when none is.
JobShown == \A c \in Pages : Settled(c) => page[c].shown # "running"

\* An evicted or dropped page always comes back and catches up.
CatchesUp == <>[](\A c \in Pages : Settled(c))

=============================================================================
