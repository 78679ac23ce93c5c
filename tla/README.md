# filestor in TLA+

filestor is one Go process that serves a page on which files are staged, analyzed by a
language model and pushed to an S3 bucket as a *bundle*. This directory holds TLA+ models of
its stateful parts, TLC configurations that check them on small instances, and proofs checked
by TLAPS. Paths and line numbers below refer to the repository.

    tlc -workers 2 -config WorkspaceGate.cfg MCWorkspace.tla     # one run
    tlapm Workspace_proofs.tla      # and the other *_proofs modules

## 1. The system

One process, many goroutines: one per HTTP request, plus one background job per accepted
analyze or push. There is one workspace directory and one bucket.

| part | code | state it keeps | operations |
|---|---|---|---|
| staging workspace | `upload.go` | staged files on disk; `.filestor/state.json` and its copy `workspaceStateStore`; `.filestor/digest` | add, delete, list, PUT state, page |
| workspace lock | `events.go` | `eventHub.lock`: free, stage, analyze, push | `acquire`, `release`, `busyForState` |
| event hub | `events.go` | subscribers, their bounded channels, the last job record | subscribe, snapshot, broadcast, evict |
| upload page | `web/src/entries/upload.ts` | what the page shows; its upload queue | SSE listeners, `applyLock`, `renderJob`, upload, draft save |
| analyze job | `analyze.go` | chat history, budgets, entries and their converted forms, digest marks | rounds, tools, wrap-up |
| push job | `push.go` | none between requests | handler, upload, vectors, meta, index, removal |
| bundle index | `bundle.go` | month lists in memory, broken months; `index/YYYY/YYYY-MM.json` in the bucket | load at start, append, get, year |
| object store | `s3.go` | the bucket | Put, Get (capped), ListKeys, List, sign |
| embeddings, vectors | `embed.go`, `vectors.go` | the vector store | one request per mark; one write of all vectors |
| conversion | `convert.go` | a scratch directory per form | ladders of external tools under one deadline per file |
| paging of `read_file` | `analyze.go` | none | `pagedText`, offset and limit chosen by the model |
| calendar, bundle page | `browse.go`, `detail.go` | none | pure functions of the index or of a listing |
| names and titles | `push.go`, `upload.go` | none | `sanitizePushTitle`, `sanitizeWorkspaceName` |
| sessions | `auth.go`, `server.go` | a signed cookie in the browser | login, logout, `requireAuth`, redirects |
| configuration, assets, start and stop | `config.go`, `web_*.go`, `main.go` | none | validate, serve, shutdown |

How they interact:

* Add, delete, analyze and push take the workspace lock or answer 409. PUT /upload/state only
  *looks* at it (409 during analyze and push) and then works without it.
* An analyze job writes the draft (`set_title`, `set_datetime`), renames staged files, writes
  digest marks, and at its end sets `analyzed` in the draft. A push is refused while the LLM is
  configured and `analyzed` is not set; add and delete clear it.
* A push job reads the workspace, writes the bucket in a fixed order (files, marks, vectors,
  `.meta.json`, month file), then updates the index in memory and removes the staged files.
* Every change is broadcast to the pages, outside the section that made it.

What is hard here: read-modify-write of the draft by two goroutines; a listing taken before the
lock; a stop between any two file system or bucket calls; writes that fail, or land although
their answer is lost; a month file rewritten from memory; events sent after the locked section
that caused them, to pages that are too slow or come back at a bad moment; a conversation whose
shape and length must hold whatever the model answers. `PROJECT.json` lists each such hazard at
its line with the properties that watch it.

What makes each part correct:

* workspace: one operation at a time; nothing staged is lost except by the user or a recorded
  push; `analyzed` speaks of the batch that is staged; a restart finds the draft that was shown;
  every operation ends.
* push and index: what a reader can find is complete; what was confirmed stays recorded and
  shown; removing staged copies loses nothing; month files only grow; every push ends.
* events: a page that has caught up shows the truth, and it always catches up.
* analyze: every request to the model is well-formed and bounded; the run ends; a success has
  its title saved; every form follows its file through renames; a model that reads on gets every
  line of a text once; a converted form is within its limits and comes from a run that succeeded.
* pages: a listing has every key once; the calendar has every day once and its links lead to the
  months beside it; what the page shows of a title or a name is what its requests act on; a page
  is shown to logged-in browsers only, and redirects end; the queue of files ends with a true
  count.

## 2. Modules

| module | models | checked by | theorems |
|---|---|---|---|
| `Workspace` | staged files, draft, digest, lock, every request and job as workspace steps | `MCWorkspace` | `Workspace_proofs` |
| `Publish` | push jobs, bucket, month files, index in memory | `MCPublish` | `Publish_proofs` |
| `Archive` | abstract: what pushing promises the user | refined by `Publish` | `Publish_proofs` |
| `EventHub` | lock and job events, hub, streams, pages | `MCEventHub` | `EventHub_proofs` |
| `Gate` | abstract: what analysis and push promise of the staged batch | refined by `Workspace` | `Workspace_proofs` |
| `AnalyzeChat` | the conversation of an analyze run | `MCAnalyze` | `AnalyzeChat_proofs` |
| `AnalyzeForms` | names, converted forms, image marks of a run | `MCAnalyze` | `AnalyzeRun_proofs` |
| `Paging` | the pages of `read_file` | `MCAnalyze` | `AnalyzeRun_proofs` |
| `Conversion` | `prepEntry` and the ladders of external tools | `MCAnalyze` | `AnalyzeRun_proofs` |
| `Listing` | paging through the keys of the bucket | `MCPages` | `Pages_proofs` |
| `Calendar` | the browse page: request, month, grid, groups, links | `MCPages` | `Calendar_proofs` |
| `Titles` | the way of a title and of a file name through the sanitizers | `MCPages` | `Pages_proofs` |
| `Sessions` | login, logout, redirects and the session cookie | `MCPages` | `Pages_proofs` |
| `UploadQueue` | the queue of files of the upload page | `MCPages` | `Pages_proofs` |

`Induction` holds what the proofs need of numbers: induction and recursion (section 4).

`MCAnalyze` and `MCPages` check several modules in one run. Their parts share no state in the
code, so they are run as a sum and not as a product: one part moves, the others stand still in
an idle state, and every property is checked of the part it belongs to.

### Workspace

A process `r` is a goroutine that serves a request and then, when the request starts one, its
background job. `pc[r]` is where it stands and `loc[r]` its local variables. One action is one
file system call or one locked section, so other goroutines run, and the server may stop,
between any two of them. The sections under the store's own mutex that touch the disk twice
(`markUnanalyzed`, `clear`) are two actions; `MutexFree` keeps the one lock-free reader and
writer, PUT /upload/state, out in between.

* `staged` is the directory (name to content), `file` is `state.json`, `mem` the store's copy,
  `digest` the contents the marks were taken from.
* A draft is a title and the flag. Its time follows the same path as the title and is folded
  into it; `set_datetime` saves the draft it read.
* Tools without an effect on the workspace (`read_file`, `load_media`) are not actions, and a
  failing LLM call is possible in any round. The wrap-up round allows any calls but renames.
* `DiskErrors` lets any write, removal or reading of the workspace fail: a listing that fails clears
  nothing, marks that cannot be read are pushed as none, and a `state.json` that cannot be read at a
  restart is taken for an absent one.
* The bucket is not in this module: the steps from the digest upload to the index write are
  one `PushRecord` (or `PushFail`), because none of them touches the workspace. `Publish`
  opens them up.
* `covered` is a history variable: the batch a successful run had when it saved the flag.

`Gate` tells the same without names, drafts, locks and goroutines: an add or a delete closes the
gate, a successful analysis opens it for exactly the batch it has seen, a bundle is recorded of
staged contents while the gate is open, and only recorded contents leave. `Workspace` is mapped to
it by its own `Promise`: the gate is open while the flag is set and no add or delete holds the
lock, and `out` is what a push has uploaded and not yet removed.

### Publish and Archive

An id is one POST /upload/push: the handler draws a fresh UUID per request, so the id names the
request, its job and its bundle. Each call to the bucket is an action with three outcomes
(`Landed`, `Refused`): it lands, it is refused, or it lands and the caller hears of a failure.
`Restart` may happen at any step and loads the index: any set of month files may be unreadable,
those past `getMaxBytes` (`MaxEntries`) always are, and the listing itself may fail. A call that
is under way when the server stops has landed or not by the time the next start loads the
index; one that reaches the bucket later still is not modelled.

`Archive` says what a user is promised: a staged content stays pending until a recorded bundle
holds it, a push is confirmed only when its bundle is recorded, and a confirmed bundle never
changes. `Publish` is mapped to it by `Promise`: `pending` is the staged set, a bundle is
recorded when its month file lists it, `confirmed` are the pushes reported as done. Bundles
nobody was told of (a lost answer) may leave the month file with the next rewrite; `Archive`
allows that only as long as their files are not lost.

### EventHub

A goroutine is a script: the sequence of its calls into the hub and of its own changes, taken
from the handlers (`StageScripts`, `EditScripts`, `AnalyzeScripts`, `PushScripts`). `acquire`,
`release`, `emitFiles`, `emitState`, `emitProgress`, `emitDone` and `emitFail` are two steps as
in the code: a locked section or a read, then the broadcast of what was found. The draft and the
staged files are versions, since only their age matters; a listing of the files (`workspaceFiles`)
is a version and whether it could be read, because one that fails is broadcast or put in a snapshot
as an empty list (`ReadErrors`). A stream subscribes, takes the snapshot in three reads, writes it,
then delivers events until it is evicted or its connection breaks; the page applies what it gets as
`upload.ts` does. Left out: heartbeats, the rule that a focused input keeps its text, the page's
`staging` flag for its own uploads, and failing disk writes. One effect of the last is thereby
missed: when a staged file is replaced and its rename fails after the removal (`upload.go:194-195`),
no event follows unless an earlier part has landed, and the pages show the old file until the next one.

### AnalyzeChat, AnalyzeForms, Paging, Conversion

`AnalyzeChat` is `run`, `chatMessage`, `runTool`, `trimImageMessages` and `finalize`: the
history is a sequence of roles, the model answers with any number of calls up to
`MaxPerReply`, any tool, any text, and any request may fail. `AnalyzeForms` is the naming side:
conversions that yield any of the forms their kind allows, `rename_file` with `renameDerived`,
the two lookups and `mark_image`. A name is a sequence, so `a.pdf.txt` is `Append(a.pdf, txt)`
and may also be the name of a staged file. One suffix stands for all images of a file (pages,
frames, the normalized image).

`Paging` is `pagedText`: a text is a sequence of line feeds and other bytes, and a model that asks
for any offset and any limits goes on at the line that the last reply names. A line that does not
fit a reply is cut where a character ends, which may be anywhere before the limit.

`Conversion` is one file of `prepEntry`. A ladder is a list of tools with the scratch file each of
them writes; `at` is its rung, `drawn` the page files of the two renderers and `raw` the pages or frames
that are still to be looked at. A tool may be missing, fail, leave output behind although it
failed, or succeed without output; after the deadline every run fails. Of an output only a size
class is kept (empty, blank, fit, too big) and whether the run that wrote it succeeded.

The tools know no limit: a run leaves any number of pages or frames of any size (`Drawings`), and what
it draws may replace pages of an earlier run or stand beside them, since pdftoppm numbers the pages of a
longer document with more digits (`Globbed`). The limits are kept by what the code does with the output:
`FirstOf` cuts the list of pages (`convert.go:470`) and of frames, `SkipFrame` passes over a frame that is
empty or too big, `ShrinkPage` is one step of magick and the check of its size, `Capped` cuts a text
(and may leave white space). The write of a form may fail (`Written`), and then there is no form.

### Listing, Calendar, Titles

`Listing` is the loop of `handleDetail` and of the loader of the index around `List` and
`ListKeys`. A key is its position in the order of the bucket, `.digest/` is one common prefix, and a
call resumes after the last *object* it was given. `Calendar` answers one request of `handleBrowse`:
dates are day numbers, months are counted from `FirstYear`, and `Gaps` are dates without a midnight
in the server's zone, which `time.Date` moves to the day before west of Greenwich. Three assumptions keep
the bounds of the model apart from its arithmetic: the dates are finitely many, none is in the first of the
months (which has none before it), and none is the marker of a missing parameter. `Titles` follows a
title from the page or from `set_title` to the id of a bundle, and a name from the add form to the
request that deletes it; a text is a sequence over classes of characters.

### Sessions, UploadQueue

`Sessions` is one browser that follows redirects, with the clock in half seconds because the cookie
keeps whole ones; a restart may bring other credentials, and the browser may keep a cookie longer
than `MaxAge` says or drop it early. The signature is taken to be unforgeable: a cookie carries the
number of the credentials it was signed with. `login` is a history variable.

`UploadQueue` is `uploadFiles` and `uploadOne` against `handleUploadAdd`: the page sends one file at a
time, others take the workspace lock in between, and a connection may break before the request
arrives, while the server works on it (it goes on), or before its answer arrives. `landed` is a
history variable: the files that were staged since they were picked.

## 3. Runs

| run | what it asks | bounds |
|---|---|---|
| `workspace_faults` | lock ownership, nothing lost, restart keeps the draft, with every request, restarts, failing writes and readings | 2 goroutines, 2 names, 2 contents, 2 titles, 2 parts, 2 tool calls |
| `workspace_gate` | the push gate is sound without PUT state, restarts and failing writes: refinement of `Gate` | same |
| `workspace_live` | every request and job ends | 2 goroutines, 1 name, 1 content, failing writes |
| `publish_faults` | completeness, durability, single flight, refinement of `Archive` | 3 pushes, 2 months, 2 files, month files of 2 entries |
| `publish_index` | month files only grow and match memory when a failed write wrote nothing; every push ends | 2 pushes, 2 months, 2 files, month files of 1 entry |
| `events_order` | safe sends; lock and files shown correctly | 2 goroutines of any kind, 1 page, buffer 2, 1 dropped connection, failing listings |
| `events_live` | the page always catches up, and shows the draft | 2 goroutines that stage or push, buffer 1, 1 dropped connection |
| `analyze_run` | conversation: request shape, image bound, budget, title, termination | 4 rounds, 5 calls, 2 per reply, 1 image kept |
| | names: forms follow renames, marks are counted right | 2 files, 6 possible names, 2 marks |
| | paging: every line once and whole, within the limit, and it ends | texts up to 7 bytes of which 6 can be read, replies of 3, limits 0, 1, 3, 9 |
| | conversion: forms bounded, text genuine, every installed tool tried | every class of file and set of tools, limits of 2 pages and 1 frame, 2 drawn by a run |
| `pages` | a listing has every key once | every subset of 6 keys beside the common prefix, pages of 2 |
| | the calendar is exact | 48 months, 4 dates around the ends of months and years, 2 bundles |
| | sanitizing twice changes nothing | texts up to 5 characters, titles of 3 |
| | pages only after a login; redirects end | 4 half seconds a session, 7 in all, 2 credentials |
| | the queue ends with a true report | 3 files |
| `workspace_edit_flag` | refuted: adding or deleting staged files clears the flag | as `workspace_gate` plus PUT state |
| `workspace_listing` | refuted: a push uploads every staged file | as `workspace_gate` |
| `publish_listing` | refuted: a confirmed push stays recorded | as `publish_faults`, only the listing fails |

Why these bounds are enough. Workspace operations exclude each other, so the interesting
interleavings are one lock holder and one goroutine without the lock (PUT state, a push that
has listed, the other of two contenders): two goroutines show all of them, and each goroutine
serves any number of requests in sequence. Two names and two contents allow a replacement, a
rename, a partial batch and a duplicate content. In `Publish` three pushes reach the third
rewrite of a month after a lost answer, and a month file past its size limit. A buffer of one
or two is filled by any script; one broken connection at any point covers a reconnect in every
phase, since the page keeps nothing from before. Four rounds hold a first, a middle, a last
round and the nudge; five calls make the call budget and the round budget end a run either way.
A text of seven bytes has lines shorter and longer than a reply of three, an end with and without
a line feed, and a part that cannot be read. Six keys and the prefix in pages of two put the common prefix and
the meta first, last and alone on a page. Four years hold a leap year, months that begin on every
weekday and one of exactly four weeks. A session of two seconds in half seconds shows every
rounding of its end, before and after a change of the credentials. Three files are a first, a
middle and a last one. A run that draws two frames is over the limit of one, and two pages of a run that
failed beside two of the next are over the limit of two: without the cut of `FirstOf` both limits are
broken.

What some properties do not say. `NothingLost` allows any loss under the staging lock, which is where the
user deletes; a staged file that is removed and whose replacement cannot be renamed into place is lost
there as well, by the order of the code (`upload.go:194`), and no property forbids it. `StateShown` is
checked without edits, which refute it (below). `FilesShown` says that a page that has caught up shows a
listing made after the files last changed; if that very listing failed the page shows no files, and does
so until the next event or connection. `MarksCounted` is about the number of marks and not about which
picture they are on (`MarkedOnce`, below). `PushEnds` and `RequestEnds` assume that calls to the bucket
end.

Type invariants are theorems: those of `Workspace`, `Publish`, `EventHub` and `Listing` are not checked
again, that of `UploadQueue` is part of its proved invariant, and `analyze_run` checks those of its parts
together (`TypesOK`).

`CHECK_DEADLOCK FALSE` stands where the system really stops: pushes are not issued for ever
(`Publish`), scripts run out (`EventHub`), one analyze run is over (`MCAnalyze`), and so are a
listing, a request or a bounded clock (`MCPages`). In `Workspace` a request can always arrive and
deadlock is checked.

Symmetry over interchangeable values is declared in the MC modules and used only in runs
without a liveness property. `events_order` compares states by a view (`MCEventHub!View`) that leaves
out what a connection has left behind and nothing reads before it is overwritten.

### Fairness

* Goroutines are scheduled preemptively by the Go runtime: weak fairness of each goroutine's
  step. Requests (`Arrive`, `Request`, `Stage`, the start of a script's handler), restarts and
  broken connections have none.
* `sync.Mutex` hands a starved waiter the lock after a millisecond: strong fairness for
  `EditStep`, the one step that may find the store's mutex taken again and again.
* LLM requests have a timeout each and the run has one as well, so an answer or an error always
  comes. `s3Store.Put` has no timeout (`s3.go:193`) and the add handler reads its body under the
  lock (`upload.go:416`): that a bucket call and a client's upload come to an end is an
  **assumption** of `workspace_live` and `publish_index`. If it fails, the lock stays taken.
* In `analyze_run` the steps of the conversation and of `read_file` are taken: every request to the
  model has a timeout and the reader is the loop of the run. In `pages` the server answers
  (`Answer`, `ServerStep`) and the page goes on when it has an answer (`PageStep`); nothing is
  assumed of users, other goroutines, broken connections, restarts or the clock.
* In `events_live` the browser reconnects (EventSource does, by its standard) and reads what it
  is sent.

### What the refuted properties show

1. `workspace_edit_flag`: PUT /upload/state copies the whole draft (`upload.go:516`) and saves it
   later (`:533`) without the lock. An add between the two clears the flag, the save brings it
   back, and a file no run has seen passes the push gate.
2. `workspace_listing`: the push handler lists at `push.go:100` and locks at `:110`. What is added
   and analyzed in between is not pushed, although the push was allowed on its account.
   `analyze.go:301` explains why the analyze handler does it the other way round.
3. `publish_listing`: when `ListKeys` fails at startup, `NewServer` logs it (`server.go:27`) and
   serves with an empty index in which *no* month is broken. The next push rewrites its month
   file with its own entry alone, which is what `bundle.go:135` says can never happen.

More disagreements are stated in the modules and not kept as runs. To see one, give TLC the
named property with the constants of a run above, changed as said:

| property | change | what the code does |
|---|---|---|
| `Workspace!DraftIffStaged` | `workspace_gate` with `"edit"` in Requests | the lock-free save revives a draft that the last delete has cleared |
| `Workspace!NoEditDuringJob` | same | the save lands inside a job that began after the look at the lock |
| `Workspace!FlagCovered` | `workspace_gate` with Crashes, or with DiskErrors | a stop after a file landed, or a failed write of the cleared flag, leaves the flag set |
| `Workspace!DigestOfStaged` | `workspace_gate` | marks of a *failed* run survive an add or delete, as the flag was clear already (`upload.go:355`) |
| `Publish!NoOrphan` | `publish_faults` | `.meta.json` lands before the index write is refused: the failed push leaves a bundle whose page opens |
| `EventHub!StateShown` | `events_order` | PUT state may broadcast an older draft after a newer one |
| `EventHub!JobShown` | `events_order` with one goroutine | a page connecting between `emitDone` and `release` draws the finished job as running |
| `AnalyzeForms!FormsReachable` | `analyze_run` | a staged file named like another file's form hides that form |
| `Conversion!PagesGenuine` | `analyze_run` | `renderPDFPages` is promised a fresh subdirectory (`convert.go:369`) but may be called twice with the same one: pages that a failed run left behind join those of the next |
| `Calendar!BrowseExact` | `pages` with a date in `Gaps` that is the first of a month | the grid and the links of a month that begins without a midnight show the month before (for example October 2017 in America/Asuncion) |
| `Titles!NameKept` without its last disjunct | `pages` | a name is trimmed before its directory is taken off: `a\ b` is staged as a name with a blank in front, and the delete request asks for one without |
| `AnalyzeForms!MarkedOnce` | `analyze_run` | marks are remembered by name: two pictures may share one, and a rename gives one picture two |

With `RenameErrors = TRUE` `FormsFollow` fails as well, which `renameDerived` documents as best
effort.

## 4. Proofs

`Workspace_proofs` proves, for any sets of goroutines, names, contents and titles, any bounds,
and with restarts, failing writes and PUT state allowed or not, from the named assumptions of
`Workspace` alone:

* `TypeCorrect`: `Spec => []TypeOK`.
* `LockExclusive`: `Spec => []LockOwner`. Every action either leaves the lock and the kind of its
  process alone, takes a free lock, or releases the lock its process held.
* `NothingIsLost`: `Spec => NothingLost`. `NothingLost` is an action property, and a removal by a
  push is harmless only because of what happened before it: the inductive invariant adds that a
  push that has reached the record or the removal has uploaded every file it still has to
  remove, with the content the file has now. That in turn needs `LockOwner`: nobody else changes
  the workspace in the meantime.
* `DraftSurvives` (`RestartKeepsDraft`): memory and `state.json` part only in the section of a clear,
  whatever fails meanwhile.

Three more theorems of `Workspace_proofs` are about the push gate and rest on the assumption `Quiet`: no
restarts, no failing writes and no PUT /upload/state. None of the three can be left out: with any one of
them TLC refutes `PushedAnalyzed` and `DraftIffStaged` (a stop or a failed write between a file and the
cleared flag, and the lock-free save of section 3), so this is what the gate of the code promises and no
more.

* `GateDoesItsJob` (`PushedAnalyzed`), from the inductive invariant `GateInv`. `FlagTrue` says that the
  flag speaks of the staged files and of the digest, unless an upload that has changed a file is about to
  clear it; `Analyzing` says that a running analysis knows every staged file, that the marks are of staged contents,
  and that its last save sets the flag; `Pushing` that a push past the gate works on a flagged batch, that
  what it has taken was analyzed, and that it hands over at least one file. Each part is disturbed by
  steps of the lock holder only, so there is one lemma per part and kind of step, and `LockOwner` does
  the rest.
* `DraftWithFiles` (`DraftIffStaged`): `DraftSettled` adds what each place inside the lock has left of the
  agreement between draft and files (`Settling`): whoever shrinks the batch to nothing clears the draft
  before it lets go of the lock.
* `GateImplemented` (`GateKept`), if also the LLM is configured: an add or a delete maps to a closing of the
  gate, the save of the flag to an opening for exactly the batch that is staged, the record of a push to
  a record, a removal to a removal, and everything else to a stutter.

`Publish_proofs` proves, for any sets of pushes, months and files and any size of a month file,
with restarts, refused writes, lost answers, disk and read errors allowed or not:

* `TypeCorrect` and `OneAtATime` (`SingleFlight`).
* `CompleteAlways`: `PublishedComplete` and `ShownRecorded`. Neither is inductive: that a new
  `.meta.json` finds its objects and vectors in place depends on where its job stands. `Order` says
  which writes have landed at each place of a job, and `SingleFlight` is what keeps a step of one job
  from disturbing the place of another.
* `DoneIsForGood`, `DoneIsShown`, `FilesKept`: `NothingForgotten`, `DoneShown` and `FileKept`, if the
  listing of the index never fails at startup (`~ ListErrors`). `publish_listing` shows that they fail
  without it. A bundle is `Safe` when its month file lists it *and* memory does too or the month is
  broken; every step keeps a safe bundle safe (`SafeStays`; the assumption is used at its restart
  step alone), and a job removes files and answers "done" only for a safe one (`Promised`).
* `Implements`: `ArchiveKept`, under the same assumption. `AllFilled` adds that a running job's bundle is
  not empty, is made of staged contents, and is not in the index before its index write; then the
  index write is a `Record`, a removal a `Drop` or a stutter, the end a `Confirm`, and everything else
  stutters.
* `SyncBetweenPushes` (`InSync`) and `MonthsGrow` (`IndexGrows`), if moreover a failed write wrote nothing
  (`~ LostAcks`): memory and file differ at most by the entry of the job between the two writes of
  `append`. With lost answers an unconfirmed entry may leave the file again.

`EventHub_proofs` proves, for any goroutines, pages, kinds of requests, size of the buffer and number
of broken connections:

* `TypeCorrect` and `SendsAlwaysSafe` (`SendsSafe`), from `HubInv`, which adds that a stream that is up
  is subscribed or has been evicted.
* `LockShownAlways`, `FilesShownAlways`, and `StateShownUnedited` if no request edits the draft
  (`"edit" \notin Handlers`; `StateShown` fails otherwise). The invariant `PageInv` says that for each
  topic either what a subscribed page will show after its channel is true, or the topic will be
  announced again (`Pending`): a broadcast is on its way, or a goroutine inside the lock has still to
  announce it. That takes the form of the scripts (`Framed`, `Told`, `Locked`: what is changed is
  announced later and under the same lock), that at most one goroutine is inside (`LockHeld`), and
  that what is about to be said is still true (`SaysTrue`), a listing being true when it is of the files
  as they are and could be read, or `ReadErrors` are allowed. The lock is different, since releasing it
  and saying so are two steps: an older "free" may be broadcast after a newer "taken", and what saves
  the page is that the holder will say "free" again.

`Pages_proofs` proves of four of the parts behind the pages:

* `ListedOnceAlways` (`ListedOnce`) for any set of keys, any page size of at least two and any place of the
  meta and of the prefix. The invariant `Progress` says that exactly the keys up to the marker have been
  listed; the lemma that a full page of two holds at least one object is where the bound on the page size
  is needed.
* `PagesNeedLogin` (`PagesAfterLogin`) for any length of a session (a whole number of seconds) and any clock:
  `CookieOfLogin` says that a cookie the browser still has is the one of the login it is in, and
  `UnixOrdered` that rounding both times down cannot lengthen a session.
* `ReportTrue` (`QueueReport`) for any number of files: `OneInFlight` says that only the file whose answer the
  page waits for can still be answered, `Accounted` that every file the page took is waiting, on its way,
  staged or failed, and in one of these only.
* `TextsAreStable` (`TextsStable`) for texts of any length and any limits. `TitlesClean` and `NamesClean` say
  what a text is once it has been through a sanitizer: a title is not too long, has no dash or dot at an
  end and no two dashes in a row; a name has no separator and no dot in front. The lemmas are that such a text comes
  out as it went in (`PushTitleSame`, `WorkspaceNameSame`) and that every text comes out as such a one
  (`PushTitleClean`, `WorkspaceNameClean`; for a title from a text that is cut in the middle and trimmed
  again). `FoldedBy` tells the loop over the runes of a title as one step for each position (`Put`).

`Calendar_proofs` proves `BrowseIsExact` (`BrowseExact`) for any first year, number of years, dates and
bundles, if every date has a midnight (`Gaps = {}`). Of a month with a gap `BrowseExact` is false, as the
table of section 3 says, so there the hypothesis is what the code needs of its time zone. The invariant is
that a page is the answer to the request that is there; the work is in what that answer is:

* `LengthIs`: a month has 28 to 31 days, by the rule of leap years. From it follow that the first days of the
  months are ordered (`FirstOrdered`), that every date is in exactly one month (`MonthIs`, `MonthOnly`), and
  what `AddDate` does at the ends of a month (`Beside`).
* `RequestMeans`: the first of the month that is meant is shown, and the day selected is in it.
* `WeeksAre`: the loop over the days is told by position, cell by cell (`CellAt`), so that no fold is left
  in the property; `CellsCount` counts the cells by a bijection with the days.
* `YearBundlesAre`: a finite set of bundles has an order, so that the sorted sequence is one. `GroupsAre` is
  the loop over it: since dates never go back, a bundle joins the last group or begins one (`GatherNext`),
  and either way it comes first in what the groups hold, the last group first (`FlattenInto`,
  `FlattenBefore`).

`AnalyzeChat_proofs` proves, for any limits, titles and answers of the model:

* `ChatTypeCorrect`: types, with `CallsLeft` (a round begins only while calls are left, so it ends less
  than one reply over the budget) and `TitleSaved`; `SuccessIsTitled` (`SuccessTitled`) follows from it.
* `RequestsAreAccepted` (`RequestsAccepted`), from `HistoryInv`. `Waits` says of the history in the middle of
  a round that every tool message replies to the answer before it and that exactly `pending` replies are
  still missing; `NewestKept` that no image stands before one that was omitted. What
  `trimImageMessages` keeps and counts is a lemma of its own.
* `BudgetHolds` (`BudgetKept`): `AnswersCounted` counts the answers by the place the run has come to.

`AnalyzeRun_proofs` proves, for any files, names, texts, tools and limits:

* `MarksAreCounted` (`MarksCounted`), whether or not renames fail, and `FormsAlwaysFollow` (`FormsFollow`) if
  they do not (`~ RenameErrors`; `renameDerived` promises no more). `FormsInv` says that files have one name
  each, that a file still to be converted has no forms, and that lookup and directory agree; that a form
  belongs to one name (`FormOfOne`) is why a rename cannot move the forms of another file.
* `FormsAreBounded` (`OutputBounded`), `TextIsGenuine` (`TextGenuine`) and `LaddersAreTried` (`LadderTried`), from
  `ConvInv`. `LadderClimbed` says that the tools run for a form are those installed of the rungs left
  behind; for images a rung skips the rest of its group, and the lemma `ElseTools` is that the group is one
  tool. `ScratchFresh` says that no rung ahead has left anything under its name, which is what makes an
  output file that is there after a run the output of that run. `PicturesFew` bounds the pictures made and
  those still to be looked at together, for runs that leave any number of them: the bound comes from the
  cut (`FirstOfIs`), and the sizes from the checks before a picture or a text is kept.
* `PagesAreTiled` (`PagesTile`) for texts of any length. `LinesTyped` and `LinesCounted` are about the lines of
  a text: they are ordered, and as many as `CountTextLines` counts. `FittedIs` says that a page can always
  be cut to size. `ReadRight` says that the offset is the line after the last one given, and that no line
  beyond the last was given.
* `RunTypeCorrect` (`TypesOK`): the parts keep to their types side by side, again if renames do not fail; a
  form that could not be renamed can be marked after it is gone.

The library's theorems of induction and recursion take an operator as a parameter and cannot be used with
these provers. `Induction` has them in another form. `LeastOf` says that a nonempty set of numbers has a
least element, which follows from the well-foundedness of strict inclusion on finite sets; `NatInduct` and
`UptoInduct` are induction over a *set*, that of the numbers a statement is true of; `Recursion` says that a
loop whose steps are functions on one set of states has a run. A recursive function of the model is a
choice among the solutions of an equation: `Recursion` gives one solution, and `UptoInduct` shows that the
one chosen agrees with it.

What is only model-checked is liveness under fairness (`RequestEnds`, `PushEnds`, `CatchesUp`, `RunEnds`,
`PagesEnd`, `VisitEnds`, `QueueEnds`): the prover does not handle it. Every safety property that a passing
run checks is stated by a theorem.

## 5. Not modelled

* `config.go`: reads and validates a file once, before anything runs. `web_static.go`, `web_tmpl.go`:
  embedded files looked up by name. Neither has state or an order of steps to get wrong.
* Orderly shutdown (`main.go`): it waits for requests and not for jobs, so to the workspace and to the
  bucket it is a stop at some step, which `Restart` is. It waits without a timeout (`srv.Shutdown` gets a
  background context), so an open event stream keeps it waiting for as long as the page is open, and jobs
  go on meanwhile: no step of theirs depends on it.
* Request signing of the vector store and of presigned URLs, payloads of embeddings: formatting of
  requests, without state. Whether the write of the vectors lands is in `Publish`.
* What an external tool makes of a file, and what the model answers: nondeterministic choices.
* The debounced draft save, the rule that a focused input keeps its text, drag and drop: the page keeps
  no version of the draft and ignores the answer of its save, so two pages that type at once, or a save
  that is overtaken by the next, leave whatever arrives last. The code promises no more, and there is
  nothing to hold it to.
* Heartbeats of the event stream, icons, sizes, preview kinds and previews: layout.

## 6. Plan

Order of work, the most important behaviour first; all of it is done.

1. `Workspace`: lock, staging, draft, flag, jobs as workspace steps; its invariants and runs.
2. `Workspace_proofs`: types, mutual exclusion, nothing lost.
3. `Publish` with `Archive`: bucket order, index, restarts; the refinement.
4. `EventHub`: what a page may believe.
5. `AnalyzeChat`, `AnalyzeForms`.
6. `Publish_proofs`: types, the safety properties of the push job and the index, the step simulation
   of `Archive`.
7. `Gate` and the refinement by `Workspace`.
8. `Paging` and `Conversion`, checked with the other parts of an analyze run.
9. `Listing`, `Calendar`, `Titles`, `Sessions`, `UploadQueue`; the theorems about all but `Calendar` and
   `Titles` in `Pages_proofs`.
10. `EventHub_proofs`.
11. `Workspace_proofs` continued: the draft through restarts, and the push gate up to the refinement of
    `Gate`.
12. `AnalyzeChat_proofs` and `AnalyzeRun_proofs`: the invariants of the four parts of an analyze run.
13. `Induction`, and with it `Titles` in `Pages_proofs`: a text that has been sanitized stays as it is.
14. `Calendar_proofs`: the months, the grid, the groups and the links.
