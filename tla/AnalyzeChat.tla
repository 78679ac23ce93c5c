----------------------------- MODULE AnalyzeChat -----------------------------
(***************************************************************************)
(* The conversation of one analyze run with the language model             *)
(* (analyze.go): rounds of a request, the model's tool calls and their     *)
(* replies, under a budget of rounds and calls, and the forced wrap-up of  *)
(* a run that has no title yet.                                            *)
(*                                                                         *)
(* The model is free to answer anything: any number of calls of any tool,  *)
(* in any order, or plain text.  What the tools do to the staged files and *)
(* the digest is the subject of Workspace and AnalyzeForms.                *)
(***************************************************************************)
EXTENDS FiniteSets, Integers, Sequences

CONSTANTS
  MaxRounds,     \* rounds of the run (analyzeBudget)
  MaxToolCalls,  \* tool calls of the run (analyzeBudget)
  MaxImages,     \* analyzeMaxImages: image messages kept in the history
  MaxPerReply,   \* bound: tool calls in one answer of the model
  Titles,        \* titles that survive sanitizePushTitle
  NoTitle,       \* the empty title
  SaveErrors     \* saving the draft may fail

ASSUME BudgetAssumption ==
  /\ MaxRounds \in Nat \ {0} /\ MaxToolCalls \in Nat \ {0}
  /\ MaxImages \in Nat /\ MaxPerReply \in Nat
ASSUME TitlesAssumption == NoTitle \notin Titles /\ SaveErrors \in BOOLEAN

VARIABLES
  pc,        \* "ask", "tools", "wrap", "wrapTools", "done", "failed"
  messages,  \* the history: roles, with the number of calls of an answer
  round,     \* the round of the loop
  calls,     \* toolCalls
  pending,   \* calls of the current answer that have not run yet
  extra,     \* image messages kept back until all replies are in
  text,      \* the title in the current answer's plain text, or NoTitle
  title,     \* analyzeAgent.title
  draft,     \* the title in the draft state
  finished   \* the finish tool was called

vars == <<pc, messages, round, calls, pending, extra, text, title, draft, finished>>

-----------------------------------------------------------------------------
\* Messages: an image or its placeholder is a user message as well.

System       == [role |-> "system", calls |-> 0]
User         == [role |-> "user", calls |-> 0]
Image        == [role |-> "image", calls |-> 0]
Omitted      == [role |-> "omitted", calls |-> 0]
Tool         == [role |-> "tool", calls |-> 0]
Assistant(n) == [role |-> "assistant", calls |-> n]

Message == {System, User, Image, Omitted, Tool} \cup {Assistant(n) : n \in 0 .. MaxPerReply}

\* How many images of s stand at i or later.
ImagesFrom(s, i) == Cardinality({j \in i .. Len(s) : s[j] = Image})

\* Seeded fault: an image is counted after it was judged.
TrimmedLate(s) ==
  [i \in 1 .. Len(s) |->
     IF s[i] = Image /\ ImagesFrom(s, i) > MaxImages + 1 THEN Omitted ELSE s[i]]

\* trimImageMessages: all but the newest images are replaced.
Trimmed(s) ==
  [i \in 1 .. Len(s) |-> IF s[i] = Image /\ ImagesFrom(s, i) > MaxImages THEN Omitted ELSE s[i]]

-----------------------------------------------------------------------------
\* chatMessage: the answer joins the history, or the run fails (a transport
\* error, an HTTP status, an empty answer, the timeout of the run).

Answer(next) ==
  /\ \E n \in 0 .. MaxPerReply :
       /\ messages' = Append(messages, Assistant(n))
       /\ pending' = n
  /\ text' \in Titles \cup {NoTitle}
  /\ pc' = next
  /\ UNCHANGED <<round, calls, extra, title, draft, finished>>

ChatFails ==
  /\ pc \in {"ask", "wrap"}
  /\ pc' = "failed"
  /\ UNCHANGED <<messages, round, calls, pending, extra, text, title, draft, finished>>

Ask     == pc = "ask" /\ Answer("tools")
WrapAsk == pc = "wrap" /\ Answer("wrapTools")

-----------------------------------------------------------------------------
\* runTool: one call, one reply

Call ==
  /\ pc \in {"tools", "wrapTools"}
  /\ pending > 0
  /\ pending' = pending - 1
  /\ calls' = IF pc = "tools" THEN calls + 1 ELSE calls
  /\ messages' = Append(messages, Tool)
  /\ UNCHANGED <<pc, round, text>>

\* A tool whose reply is all there is to it, errors included.
PlainTool == Call /\ UNCHANGED <<extra, title, draft, finished>>

\* Seeded fault: the image is put right behind its reply.
MediaToolInline ==
  /\ pc = "tools"
  /\ pending > 0
  /\ pending' = pending - 1
  /\ calls' = calls + 1
  /\ messages' = messages \o <<Tool, Image>>
  /\ UNCHANGED <<pc, round, text, extra, title, draft, finished>>

\* load_media: refused once reading is closed.
MediaTool ==
  /\ Call
  /\ pc = "tools"
  /\ extra' = Append(extra, Image)
  /\ UNCHANGED <<title, draft, finished>>

FinishTool == Call /\ finished' = TRUE /\ UNCHANGED <<extra, title, draft>>

\* Seeded fault: the agent takes the title before the draft is saved.
SetTitleFirst(t) == title' = t /\ draft' \in {t, draft}

\* setTitle: the agent's title follows the saved draft.
SetTitle(t) == draft' = t /\ title' = t

TitleTool(t) == Call /\ SetTitle(t) /\ UNCHANGED <<extra, finished>>

-----------------------------------------------------------------------------
\* The end of a round

\* The loop is over: with a title the run has succeeded, without one reading
\* is closed and a wrap-up is demanded.
LeaveLoop(history) ==
  /\ IF title # NoTitle
       THEN pc' = "done" /\ messages' = history
       ELSE pc' = "wrap" /\ messages' = Append(history, User)
  /\ UNCHANGED round

\* A model that called no tool is told to go on or to finish.
Nudged(history) ==
  IF messages[Len(messages)].role = "assistant" THEN Append(history, User) ELSE history

\* Seeded fault: one round more after the budget of calls.
EndRoundStrict ==
  /\ pc = "tools" /\ pending = 0
  /\ extra' = << >>
  /\ LET history == Trimmed(messages \o extra)
         nudged  == Nudged(history) IN
       \/ /\ finished \/ calls > MaxToolCalls
          /\ LeaveLoop(history)
       \/ /\ ~finished /\ calls <= MaxToolCalls /\ round + 1 = MaxRounds
          /\ LeaveLoop(nudged)
       \/ /\ ~finished /\ calls <= MaxToolCalls /\ round + 1 < MaxRounds
          /\ round' = round + 1 /\ messages' = nudged /\ pc' = "ask"
  /\ UNCHANGED <<calls, pending, text, title, draft, finished>>

EndRound ==
  /\ pc = "tools" /\ pending = 0
  /\ extra' = << >>
  /\ LET history == Trimmed(messages \o extra)
         nudged  == Nudged(history) IN
       \/ /\ finished \/ calls >= MaxToolCalls
          /\ LeaveLoop(history)
       \/ /\ ~finished /\ calls < MaxToolCalls /\ round + 1 = MaxRounds
          /\ LeaveLoop(nudged)
       \/ /\ ~finished /\ calls < MaxToolCalls /\ round + 1 < MaxRounds
          /\ round' = round + 1 /\ messages' = nudged /\ pc' = "ask"
  /\ UNCHANGED <<calls, pending, text, title, draft, finished>>

\* Seeded fault: an answer without any title is not handled.
EndWrapUnhandled ==
  /\ pc = "wrapTools" /\ pending = 0
  /\ \/ title # NoTitle /\ pc' = "done" /\ UNCHANGED <<title, draft>>
     \/ title = NoTitle /\ text # NoTitle /\ SetTitle(text) /\ pc' = "done"
     \/ /\ title = NoTitle /\ text # NoTitle /\ SaveErrors
        /\ pc' = "failed" /\ UNCHANGED <<title, draft>>
  /\ messages' = messages \o extra
  /\ extra' = << >>
  /\ UNCHANGED <<round, calls, pending, text, finished>>

\* finalize: the title was set by a call, or the first line of the text is
\* taken, or there is none.
EndWrap ==
  /\ pc = "wrapTools" /\ pending = 0
  /\ \/ title # NoTitle /\ pc' = "done" /\ UNCHANGED <<title, draft>>
     \/ title = NoTitle /\ text # NoTitle /\ SetTitle(text) /\ pc' = "done"
     \/ /\ title = NoTitle /\ (text = NoTitle \/ SaveErrors)
        /\ pc' = "failed" /\ UNCHANGED <<title, draft>>
  /\ messages' = messages \o extra
  /\ extra' = << >>
  /\ UNCHANGED <<round, calls, pending, text, finished>>

-----------------------------------------------------------------------------
\* The draft may carry a title from before the run: the agent does not read it.
Init ==
  /\ pc = "ask"
  /\ messages = <<System, User>>
  /\ round = 0 /\ calls = 0 /\ pending = 0
  /\ extra = << >>
  /\ text = NoTitle /\ title = NoTitle
  /\ draft \in Titles \cup {NoTitle}
  /\ finished = FALSE

Next ==
  \/ Ask \/ WrapAsk \/ ChatFails
  \/ PlainTool \/ MediaTool \/ FinishTool
  \/ \E t \in Titles : TitleTool(t)
  \/ EndRound \/ EndWrap

Spec == Init /\ [][Next]_vars

\* Every request to the model ends (analyzeHTTPTimeout) and the job goes on.
FairSpec == Spec /\ WF_vars(Next)

-----------------------------------------------------------------------------
\* Properties

TypeOK ==
  /\ pc \in {"ask", "tools", "wrap", "wrapTools", "done", "failed"}
  /\ messages \in Seq(Message)
  /\ round \in 0 .. MaxRounds - 1
  /\ calls \in 0 .. MaxToolCalls + MaxPerReply - 1
  /\ pending \in 0 .. MaxPerReply
  /\ extra \in Seq({Image})
  /\ {text, title, draft} \subseteq Titles \cup {NoTitle}
  /\ finished \in BOOLEAN

\* The history that goes into the next request.
Sent == pc \in {"ask", "wrap"}

\* An answer with calls is followed at once by as many tool replies, and no
\* reply stands elsewhere.
RepliesFollow ==
  \A i \in 1 .. Len(messages) :
    /\ i + messages[i].calls <= Len(messages)
    /\ (messages[i].role = "tool") <=>
         \E a \in 1 .. i - 1 : /\ i <= a + messages[a].calls
                               /\ \A k \in a + 1 .. i : messages[k].calls = 0

\* There are at most MaxImages image messages, and they are the newest ones.
ImagesBounded ==
  /\ ImagesFrom(messages, 1) <= MaxImages
  /\ \A i, j \in 1 .. Len(messages) :
       i < j /\ messages[i] = Image => messages[j] # Omitted

\* Every request is one that a strict endpoint accepts, whatever order tools,
\* images and the wrap-up put the messages in (analyze.go:806).
RequestsAccepted == Sent => RepliesFollow /\ ImagesBounded

\* The budget holds: no round starts once the calls are used up, and the run
\* makes at most one request more than it has rounds.
BudgetKept ==
  /\ pc = "ask" => calls < MaxToolCalls
  /\ Cardinality({i \in 1 .. Len(messages) : messages[i].role = "assistant"}) <= MaxRounds + 1

\* A run that succeeds has a title, and it is the one the draft holds.
SuccessTitled == pc = "done" => title # NoTitle /\ draft = title

\* The run always ends.
RunEnds == <>(pc \in {"done", "failed"})

==============================================================================
