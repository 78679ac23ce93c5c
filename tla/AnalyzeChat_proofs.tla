-------------------------- MODULE AnalyzeChat_proofs --------------------------
(***************************************************************************)
(* Theorems about AnalyzeChat: whatever the model answers, and for every   *)
(* budget, the history keeps to its types, every request is one a strict   *)
(* endpoint accepts, the budget holds, and a run that succeeds is titled.  *)
(***************************************************************************)
EXTENDS AnalyzeChat, Induction

-----------------------------------------------------------------------------
\* The inductive invariants

\* The calls of the answer at hand stay within the budget of the round.
CallsLeft ==
  /\ pc = "ask" => calls < MaxToolCalls
  /\ pc = "tools" => calls + pending < MaxToolCalls + MaxPerReply
  /\ pc \notin {"tools", "wrapTools"} => pending = 0

\* A title of the run is the one in the draft.
TitleSaved ==
  /\ title # NoTitle => draft = title
  /\ pc = "done" => title # NoTitle

\* The answers in a history.
AnswersIn(s) == {i \in 1 .. Len(s) : s[i].role = "assistant"}

\* One answer was given in each round, and one to the wrap-up.
AnswersCounted ==
  Cardinality(AnswersIn(messages)) <=
    CASE pc = "ask"               -> round
      [] pc \in {"tools", "wrap"} -> round + 1
      [] OTHER                    -> round + 2

\* The message at i is one of the replies to an answer before it.
Replies(s, i) ==
  \E a \in 1 .. i - 1 : /\ i <= a + s[a].calls
                        /\ \A k \in a + 1 .. i : s[k].calls = 0

\* History s in which the last answer still waits for n replies.
Waits(s, n) ==
  /\ \A i \in 1 .. Len(s) : /\ i + s[i].calls <= Len(s) + n
                            /\ s[i].role = "tool" <=> Replies(s, i)
  /\ n > 0 => \E a \in 1 .. Len(s) : /\ a + s[a].calls = Len(s) + n
                                     /\ \A k \in a + 1 .. Len(s) : s[k].calls = 0

\* No image is older than one that was replaced.
NewestKept(s) ==
  \A i, j \in 1 .. Len(s) : i < j /\ s[i] = Image => s[j] # Omitted

HistoryInv ==
  /\ Waits(messages, pending)
  /\ NewestKept(messages)
  /\ pc \notin {"done", "failed"} => ImagesFrom(messages, 1) <= MaxImages

-----------------------------------------------------------------------------
\* Lemmas about histories

LEMMA Roles ==
  /\ System.role = "system" /\ User.role = "user" /\ Tool.role = "tool"
  /\ Image.role = "image" /\ Omitted.role = "omitted"
  /\ \A n : Assistant(n).role = "assistant" /\ Assistant(n).calls = n
  /\ System.calls = 0 /\ User.calls = 0 /\ Tool.calls = 0
  /\ Image.calls = 0 /\ Omitted.calls = 0
BY DEF System, User, Tool, Image, Omitted, Assistant

LEMMA MessageTyped ==
  ASSUME NEW s \in Seq(Message)
  PROVE  \A i \in 1 .. Len(s) : /\ s[i] \in Message /\ s[i].calls \in Nat
                                /\ s[i].role # "assistant" => s[i].calls = 0
<1>1. \A n \in 0 .. MaxPerReply : Assistant(n).calls \in Nat
  BY Roles, BudgetAssumption
<1>2. \A m \in Message : m.calls \in Nat /\ (m.role # "assistant" => m.calls = 0)
  BY <1>1, Roles DEF Message
<1> QED  BY <1>2

LEMMA PartFinite ==
  ASSUME NEW a \in Int, NEW b \in Int, NEW S \in SUBSET (a .. b)
  PROVE  IsFiniteSet(S) /\ Cardinality(S) \in Nat
BY FS_Interval, FS_Subset, FS_CardinalityType

\* trimImageMessages keeps the length of a history, what its messages answer
\* and what they demand.
LEMMA TrimmedTyped ==
  ASSUME NEW s \in Seq(Message)
  PROVE  /\ Trimmed(s) \in Seq(Message) /\ Len(Trimmed(s)) = Len(s)
         /\ \A i \in 1 .. Len(s) :
              /\ Trimmed(s)[i] = s[i] \/ (s[i] = Image /\ Trimmed(s)[i] = Omitted)
              /\ Trimmed(s)[i].calls = s[i].calls
              /\ Trimmed(s)[i].role = "tool" <=> s[i].role = "tool"
              /\ Trimmed(s)[i].role = "assistant" <=> s[i].role = "assistant"
<1>1. \A i \in 1 .. Len(s) : Trimmed(s)[i] = s[i] \/ (s[i] = Image /\ Trimmed(s)[i] = Omitted)
  BY DEF Trimmed
<1>2. Trimmed(s) \in Seq(Message) /\ Len(Trimmed(s)) = Len(s)
  BY DEF Trimmed, Message
<1> QED  BY <1>1, <1>2, Roles

\* What trimImageMessages leaves is bounded: the oldest image that is left is
\* followed by at most MaxImages - 1 others.
LEMMA TrimmedBounded ==
  ASSUME NEW s \in Seq(Message)
  PROVE  ImagesFrom(Trimmed(s), 1) <= MaxImages
<1> DEFINE Kept == {j \in 1 .. Len(s) : Trimmed(s)[j] = Image}
<1>1. ImagesFrom(Trimmed(s), 1) = Cardinality(Kept)
  <2>1. {j \in 1 .. Len(Trimmed(s)) : Trimmed(s)[j] = Image} = Kept
    BY TrimmedTyped
  <2> QED  BY <2>1 DEF ImagesFrom
<1>2. CASE Kept = {}
  <2> HIDE DEF Kept
  <2> QED  BY <1>1, <1>2, FS_EmptySet, BudgetAssumption
<1>3. CASE Kept # {}
  <2>1. PICK x \in Kept : \A y \in Kept : x <= y
    <3>1. Kept \in SUBSET Nat
      OBVIOUS
    <3> HIDE DEF Kept
    <3> QED  BY <1>3, <3>1, LeastOf
  <2> DEFINE Newer == {j \in x .. Len(s) : s[j] = Image}
  <2>2. IsFiniteSet(Newer) /\ Cardinality(Newer) \in Nat
    <3>1. Newer \in SUBSET (x .. Len(s)) /\ x \in Int /\ Len(s) \in Int
      BY <2>1
    <3> HIDE DEF Newer
    <3> QED  BY <3>1, PartFinite
  <2>3. Cardinality(Newer) <= MaxImages
    <3>1. Trimmed(s)[x] = Image /\ x \in 1 .. Len(s) /\ Omitted # Image
      BY <2>1, Roles
    <3>2. ImagesFrom(s, x) = Cardinality(Newer)
      BY DEF ImagesFrom
    <3>3. ~(ImagesFrom(s, x) > MaxImages)
      BY <3>1, TrimmedTyped DEF Trimmed
    <3> QED  BY <3>2, <3>3, <2>2, BudgetAssumption
  <2>4. Kept \subseteq Newer
    BY <2>1, TrimmedTyped
  <2>5. Cardinality(Kept) <= Cardinality(Newer) /\ Cardinality(Kept) \in Nat
    <3> HIDE DEF Kept, Newer
    <3> QED  BY <2>2, <2>4, FS_Subset, FS_CardinalityType
  <2> QED  BY <1>1, <2>2, <2>3, <2>5, BudgetAssumption
<1> QED  BY <1>2, <1>3

\* After trimImageMessages the newest images are the ones that are left.
LEMMA TrimmedNewest ==
  ASSUME NEW s \in Seq(Message), NewestKept(s)
  PROVE  NewestKept(Trimmed(s))
<1> SUFFICES ASSUME NEW i \in 1 .. Len(s), NEW j \in 1 .. Len(s), i < j,
                    Trimmed(s)[i] = Image, Trimmed(s)[j] = Omitted
             PROVE  FALSE
  BY TrimmedTyped DEF NewestKept
<1>1. Omitted # Image
  BY Roles
<1>2. s[i] = Image /\ ~(ImagesFrom(s, i) > MaxImages)
  BY <1>1, TrimmedTyped DEF Trimmed
<1>3. s[j] = Image /\ ImagesFrom(s, j) > MaxImages
  BY <1>2 DEF Trimmed, NewestKept
<1> DEFINE From(k) == {n \in k .. Len(s) : s[n] = Image}
<1>4. From(i) \in SUBSET (i .. Len(s)) /\ From(j) \subseteq From(i)
  OBVIOUS
<1>5. Cardinality(From(j)) <= Cardinality(From(i)) /\ Cardinality(From(i)) \in Nat
      /\ Cardinality(From(j)) \in Nat
  <2> HIDE DEF From
  <2>1. i \in Int /\ Len(s) \in Int
    OBVIOUS
  <2>2. IsFiniteSet(From(i)) /\ Cardinality(From(i)) \in Nat
    BY <1>4, <2>1, PartFinite
  <2> QED  BY <1>4, <2>2, FS_Subset, FS_CardinalityType
<1> QED  BY <1>2, <1>3, <1>5, BudgetAssumption DEF ImagesFrom

\* A history that another one extends or rewrites without touching replies and
\* calls: both wait for the same.
LEMMA SameReplies ==
  ASSUME NEW s \in Seq(Message), NEW t \in Seq(Message), Len(s) <= Len(t),
         \A i \in 1 .. Len(s) : /\ t[i].calls = s[i].calls
                                /\ t[i].role = "tool" <=> s[i].role = "tool"
  PROVE  \A i \in 1 .. Len(s) : Replies(t, i) <=> Replies(s, i)
<1> SUFFICES ASSUME NEW i \in 1 .. Len(s)
             PROVE  Replies(t, i) <=> Replies(s, i)
  OBVIOUS
<1>1. \A a \in 1 .. i : a \in 1 .. Len(s) /\ t[a].calls = s[a].calls
  OBVIOUS
<1>2. \A a \in 1 .. i - 1 : a \in 1 .. i /\ \A k \in a + 1 .. i : k \in 1 .. i
  OBVIOUS
<1>3. \A a \in 1 .. i - 1 :
        (i <= a + t[a].calls /\ \A k \in a + 1 .. i : t[k].calls = 0) <=>
        (i <= a + s[a].calls /\ \A k \in a + 1 .. i : s[k].calls = 0)
  BY <1>1, <1>2
<1> QED  BY <1>3 DEF Replies

LEMMA RepliesDone ==
  ASSUME NEW s \in Seq(Message), NEW t \in Seq(Message), Len(s) <= Len(t), Waits(s, 0),
         \A i \in 1 .. Len(s) : /\ t[i].calls = s[i].calls
                                /\ t[i].role = "tool" <=> s[i].role = "tool",
         \A i \in Len(s) + 1 .. Len(t) : t[i].role # "tool" /\ t[i].calls = 0
  PROVE  Waits(t, 0)
<1>1. \A i \in 1 .. Len(s) : i + s[i].calls <= Len(s)
  BY MessageTyped DEF Waits
<1>2. ASSUME NEW i \in Len(s) + 1 .. Len(t)  PROVE ~Replies(t, i)
  <2>1. ASSUME NEW a \in 1 .. i - 1  PROVE a + t[a].calls < i
    <3>1. CASE a \in 1 .. Len(s)
      BY <1>1, <1>2, <3>1, MessageTyped
    <3>2. CASE a \in Len(s) + 1 .. Len(t)
      BY <1>2, <3>2
    <3> QED  BY <1>2, <3>1, <3>2
  <2> QED  BY <2>1, MessageTyped DEF Replies
<1>3. \A i \in 1 .. Len(s) : t[i].role = "tool" <=> Replies(t, i)
  BY SameReplies DEF Waits
<1>4. \A i \in 1 .. Len(t) : i + t[i].calls <= Len(t) + 0
  BY <1>1, MessageTyped
<1> QED  BY <1>2, <1>3, <1>4 DEF Waits

\* An answer opens, and each reply closes, one place.
LEMMA AnswerWaits ==
  ASSUME NEW s \in Seq(Message), Waits(s, 0), NEW n \in 0 .. MaxPerReply
  PROVE  Waits(Append(s, Assistant(n)), n)
<1> DEFINE t == Append(s, Assistant(n))
<1>1. /\ t \in Seq(Message) /\ Len(t) = Len(s) + 1
      /\ \A i \in 1 .. Len(s) : t[i] = s[i]
      /\ t[Len(t)] = Assistant(n)
  BY DEF Message
<1>2. t[Len(t)].calls = n /\ t[Len(t)].role = "assistant" /\ n \in Nat
  BY <1>1, Roles, BudgetAssumption
<1> HIDE DEF t
<1>3. \A i \in 1 .. Len(s) : i + s[i].calls <= Len(s)
  BY MessageTyped DEF Waits
<1>4. ~Replies(t, Len(t))
  <2>1. \A a \in 1 .. Len(t) - 1 : a + t[a].calls < Len(t)
    BY <1>1, <1>3, MessageTyped
  <2> QED  BY <1>1, <2>1, MessageTyped DEF Replies
<1>5. \A i \in 1 .. Len(s) : t[i].role = "tool" <=> Replies(t, i)
  BY <1>1, SameReplies DEF Waits
<1>6. \A i \in 1 .. Len(t) : i + t[i].calls <= Len(t) + n
  BY <1>1, <1>2, <1>3, MessageTyped
<1>7. Len(t) \in 1 .. Len(t) /\ Len(t) + t[Len(t)].calls = Len(t) + n
  BY <1>1, <1>2
<1>8. Waits(t, n)
  BY <1>1, <1>2, <1>4, <1>5, <1>6, <1>7 DEF Waits
<1> QED  BY <1>8 DEF t

LEMMA ReplyWaits ==
  ASSUME NEW s \in Seq(Message), NEW n \in Nat \ {0}, Waits(s, n)
  PROVE  Waits(Append(s, Tool), n - 1)
<1> DEFINE t == Append(s, Tool)
<1>1. /\ t \in Seq(Message) /\ Len(t) = Len(s) + 1
      /\ \A i \in 1 .. Len(s) : t[i] = s[i]
      /\ t[Len(t)] = Tool
  BY DEF Message
<1>2. t[Len(t)].calls = 0 /\ t[Len(t)].role = "tool"
  BY <1>1, Roles
<1> HIDE DEF t
<1>3. PICK a \in 1 .. Len(s) : /\ a + s[a].calls = Len(s) + n
                               /\ \A k \in a + 1 .. Len(s) : s[k].calls = 0
  BY DEF Waits
<1>4. a \in 1 .. Len(t) - 1 /\ a + t[a].calls = Len(t) + (n - 1)
      /\ \A k \in a + 1 .. Len(t) : t[k].calls = 0
  <2>1. t[a].calls = s[a].calls /\ s[a].calls \in Nat
    BY <1>1, MessageTyped
  <2>2. \A k \in a + 1 .. Len(s) : t[k].calls = 0
    BY <1>1, <1>3
  <2> QED  BY <1>1, <1>2, <1>3, <2>1, <2>2
<1>5. Replies(t, Len(t))
  <2>1. t[a].calls \in Nat /\ Len(t) \in Nat
    BY <1>1, <1>4, MessageTyped
  <2>2. Len(t) <= a + t[a].calls
    BY <1>4, <2>1
  <2> QED  BY <1>1, <1>4, <2>2 DEF Replies
<1>6. \A i \in 1 .. Len(s) : t[i].role = "tool" <=> Replies(t, i)
  <2>1. \A i \in 1 .. Len(s) : t[i].calls = s[i].calls /\ (t[i].role = "tool" <=> s[i].role = "tool")
    BY <1>1
  <2>2. Len(s) <= Len(t)
    BY <1>1
  <2>3. \A i \in 1 .. Len(s) : Replies(t, i) <=> Replies(s, i)
    BY <1>1, <2>1, <2>2, SameReplies
  <2>4. \A i \in 1 .. Len(s) : s[i].role = "tool" <=> Replies(s, i)
    BY DEF Waits
  <2> QED  BY <2>1, <2>3, <2>4
<1>7. \A i \in 1 .. Len(t) : i + t[i].calls <= Len(t) + (n - 1)
  <2>1. \A i \in 1 .. Len(s) : i + s[i].calls <= Len(s) + n /\ s[i].calls \in Nat
    BY MessageTyped DEF Waits
  <2>2. \A i \in 1 .. Len(s) : i + t[i].calls <= Len(t) + (n - 1)
    BY <1>1, <2>1
  <2> QED  BY <1>1, <1>2, <2>2
<1>8. Waits(t, n - 1)
  BY <1>1, <1>2, <1>4, <1>5, <1>6, <1>7 DEF Waits
<1> QED  BY <1>8 DEF t

\* Only an answer adds to the answers of a history.
LEMMA AnswerCounts ==
  ASSUME NEW s \in Seq(Message), NEW n
  PROVE  Cardinality(AnswersIn(Append(s, Assistant(n)))) = Cardinality(AnswersIn(s)) + 1
<1>1. AnswersIn(Append(s, Assistant(n))) = AnswersIn(s) \cup {Len(s) + 1}
  BY Roles DEF AnswersIn
<1>2. AnswersIn(s) \in SUBSET (1 .. Len(s)) /\ Len(s) + 1 \notin AnswersIn(s)
  BY DEF AnswersIn
<1>3. IsFiniteSet(AnswersIn(s)) /\ Cardinality(AnswersIn(s)) \in Nat
  <2>1. 1 \in Int /\ Len(s) \in Int
    OBVIOUS
  <2> QED  BY <1>2, <2>1, PartFinite
<1> QED  BY <1>1, <1>2, <1>3, FS_AddElement

LEMMA AnswersStay ==
  ASSUME NEW s \in Seq(Message), NEW t \in Seq(Message), Len(s) <= Len(t),
         \A i \in 1 .. Len(s) : t[i].role = "assistant" <=> s[i].role = "assistant",
         \A i \in Len(s) + 1 .. Len(t) : t[i].role # "assistant"
  PROVE  AnswersIn(t) = AnswersIn(s)
BY DEF AnswersIn

\* A history that is ready to be sent.
Ready(s) ==
  /\ s \in Seq(Message) /\ Waits(s, 0)
  /\ NewestKept(s) /\ ImagesFrom(s, 1) <= MaxImages

LEMMA UserReady ==
  ASSUME NEW s, Ready(s)
  PROVE  Ready(Append(s, User)) /\ AnswersIn(Append(s, User)) = AnswersIn(s)
<1> DEFINE t == Append(s, User)
<1>1. /\ s \in Seq(Message) /\ t \in Seq(Message) /\ Len(t) = Len(s) + 1
      /\ \A i \in 1 .. Len(s) : t[i] = s[i]
      /\ t[Len(t)] = User
  BY DEF Ready, Message
<1>2. t[Len(t)].calls = 0 /\ t[Len(t)].role = "user" /\ User # Image /\ User # Omitted
  BY <1>1, Roles
<1> HIDE DEF t
<1>3. Waits(t, 0)
  BY <1>1, <1>2, RepliesDone DEF Ready
<1>4. NewestKept(t)
  BY <1>1, <1>2 DEF Ready, NewestKept
<1>5. ImagesFrom(t, 1) <= MaxImages
  <2>1. {j \in 1 .. Len(t) : t[j] = Image} = {j \in 1 .. Len(s) : s[j] = Image}
    BY <1>1, <1>2
  <2> QED  BY <2>1 DEF Ready, ImagesFrom
<1>6. AnswersIn(t) = AnswersIn(s)
  BY <1>1, <1>2, AnswersStay
<1> QED  BY <1>1, <1>3, <1>4, <1>5, <1>6 DEF Ready, t

\* The images that were kept back are appended when no reply is outstanding.
LEMMA ImagesAppended ==
  ASSUME NEW s \in Seq(Message), NEW x \in Seq({Image}), Waits(s, 0), NewestKept(s)
  PROVE  /\ s \o x \in Seq(Message) /\ Waits(s \o x, 0) /\ NewestKept(s \o x)
         /\ AnswersIn(s \o x) = AnswersIn(s)
<1> DEFINE t == s \o x
<1>1. /\ t \in Seq(Message) /\ Len(s) <= Len(t)
      /\ \A i \in 1 .. Len(s) : t[i] = s[i]
      /\ \A i \in Len(s) + 1 .. Len(t) : t[i] = Image
  BY DEF Message
<1> HIDE DEF t
<1>2. \A i \in Len(s) + 1 .. Len(t) :
        t[i].calls = 0 /\ t[i].role # "tool" /\ t[i].role # "assistant" /\ t[i] # Omitted
  BY <1>1, Roles
<1>3. Waits(t, 0)
  BY <1>1, <1>2, RepliesDone
<1>4. NewestKept(t)
  BY <1>1, <1>2 DEF NewestKept
<1>5. AnswersIn(t) = AnswersIn(s)
  BY <1>1, <1>2, AnswersStay
<1> QED  BY <1>1, <1>3, <1>4, <1>5 DEF t

\* The history at the end of a round is ready, and holds the same answers.
LEMMA HistoryReady ==
  ASSUME TypeOK, HistoryInv, pending = 0
  PROVE  LET history == Trimmed(messages \o extra) IN
         Ready(history) /\ AnswersIn(history) = AnswersIn(messages)
<1> DEFINE t == messages \o extra
<1>1. t \in Seq(Message) /\ Waits(t, 0) /\ NewestKept(t) /\ AnswersIn(t) = AnswersIn(messages)
  BY ImagesAppended DEF TypeOK, HistoryInv
<1> HIDE DEF t
<1>2. Trimmed(t) \in Seq(Message) /\ Waits(Trimmed(t), 0)
  BY <1>1, TrimmedTyped, RepliesDone
<1>3. AnswersIn(Trimmed(t)) = AnswersIn(t)
  BY <1>1, TrimmedTyped, AnswersStay
<1>4. Ready(Trimmed(t))
  BY <1>1, <1>2, TrimmedNewest, TrimmedBounded DEF Ready
<1> QED  BY <1>1, <1>3, <1>4 DEF t

LEMMA EndRoundReady ==
  ASSUME TypeOK, HistoryInv, EndRound
  PROVE  Ready(messages') /\ AnswersIn(messages') = AnswersIn(messages)
<1> DEFINE history == Trimmed(messages \o extra)
<1>1. Ready(history) /\ AnswersIn(history) = AnswersIn(messages)
  BY HistoryReady DEF EndRound
<1> HIDE DEF history
<1>2. /\ Ready(Append(history, User))
      /\ AnswersIn(Append(history, User)) = AnswersIn(messages)
  BY <1>1, UserReady
<1>3. /\ Ready(Append(Append(history, User), User))
      /\ AnswersIn(Append(Append(history, User), User)) = AnswersIn(messages)
  BY <1>2, UserReady
<1>4. messages' \in {history, Append(history, User), Append(Append(history, User), User)}
  BY DEF EndRound, LeaveLoop, Nudged, history
<1> QED  BY <1>1, <1>2, <1>3, <1>4

-----------------------------------------------------------------------------
\* Type correctness, the budget and the title

AnyTool ==
  PlainTool \/ MediaTool \/ FinishTool \/ \E t \in Titles : TitleTool(t)

Asks == Ask \/ WrapAsk

LEMMA ChatSteps == Next => Asks \/ ChatFails \/ AnyTool \/ EndRound \/ EndWrap
BY DEF Next, Asks, AnyTool

LEMMA TypeStart == Init => TypeOK /\ CallsLeft /\ TitleSaved
<1> SUFFICES ASSUME Init  PROVE TypeOK /\ CallsLeft /\ TitleSaved
  OBVIOUS
<1>1. messages \in Seq(Message) /\ extra \in Seq({Image})
  BY DEF Init, Message
<1>2. /\ round \in 0 .. MaxRounds - 1 /\ calls \in 0 .. MaxToolCalls + MaxPerReply - 1
      /\ pending \in 0 .. MaxPerReply /\ calls < MaxToolCalls
  BY BudgetAssumption DEF Init
<1>3. {text, title, draft} \subseteq Titles \cup {NoTitle}
  BY DEF Init
<1> QED
  BY <1>1, <1>2, <1>3 DEF Init, TypeOK, CallsLeft, TitleSaved

LEMMA TypeNext ==
  ASSUME TypeOK, CallsLeft, TitleSaved, [Next]_vars
  PROVE  TypeOK' /\ CallsLeft' /\ TitleSaved'
<1> USE BudgetAssumption, TitlesAssumption
<1>1. ASSUME Asks  PROVE TypeOK' /\ CallsLeft' /\ TitleSaved'
  <2>1. PICK n \in 0 .. MaxPerReply :
          messages' = Append(messages, Assistant(n)) /\ pending' = n
    BY <1>1 DEF Asks, Ask, WrapAsk, Answer
  <2>2. messages' \in Seq(Message)
    <3>1. Assistant(n) \in Message
      BY DEF Message
    <3> QED  BY <2>1, <3>1 DEF TypeOK
  <2>3. \/ pc = "ask" /\ pc' = "tools"
        \/ pc = "wrap" /\ pc' = "wrapTools"
    BY <1>1 DEF Asks, Ask, WrapAsk, Answer
  <2>4. /\ UNCHANGED <<round, calls, extra, title, draft, finished>>
        /\ text' \in Titles \cup {NoTitle}
    BY <1>1 DEF Asks, Ask, WrapAsk, Answer
  <2> QED  BY <2>1, <2>2, <2>3, <2>4 DEF TypeOK, CallsLeft, TitleSaved
<1>2. ASSUME ChatFails  PROVE TypeOK' /\ CallsLeft' /\ TitleSaved'
  BY <1>2 DEF ChatFails, TypeOK, CallsLeft, TitleSaved
<1>3. ASSUME AnyTool  PROVE TypeOK' /\ CallsLeft' /\ TitleSaved'
  <2>1. Call
    BY <1>3 DEF AnyTool, PlainTool, MediaTool, FinishTool, TitleTool
  <2>2. messages' \in Seq(Message)
    BY <2>1 DEF Call, TypeOK, Message
  <2>3. extra' \in Seq({Image})
    BY <1>3 DEF AnyTool, PlainTool, MediaTool, FinishTool, TitleTool, TypeOK
  <2>4. /\ {title', draft'} \subseteq Titles \cup {NoTitle} /\ finished' \in BOOLEAN
        /\ TitleSaved'
    BY <1>3, <2>1 DEF AnyTool, PlainTool, MediaTool, FinishTool, TitleTool, SetTitle,
       Call, TypeOK, TitleSaved
  <2>5. /\ pending' \in 0 .. MaxPerReply /\ calls' \in 0 .. MaxToolCalls + MaxPerReply - 1
        /\ CallsLeft'
    BY <2>1 DEF Call, TypeOK, CallsLeft
  <2> QED  BY <2>1, <2>2, <2>3, <2>4, <2>5 DEF Call, TypeOK
<1>4. ASSUME EndRound, messages' \in Seq(Message)
      PROVE  TypeOK' /\ CallsLeft' /\ TitleSaved'
  BY <1>4 DEF EndRound, LeaveLoop, TypeOK, CallsLeft, TitleSaved
<1>5. EndRound => messages' \in Seq(Message)
  <2> SUFFICES ASSUME EndRound  PROVE messages' \in Seq(Message)
    OBVIOUS
  <2>1. messages \o extra \in Seq(Message) /\ User \in Message
    BY DEF TypeOK, Message
  <2> DEFINE history == Trimmed(messages \o extra)
  <2>2. history \in Seq(Message)
    BY <2>1, TrimmedTyped
  <2> HIDE DEF history
  <2>3. messages' \in {history, Append(history, User), Append(Append(history, User), User)}
    BY DEF EndRound, LeaveLoop, Nudged, history
  <2>4. \A h \in Seq(Message) : Append(h, User) \in Seq(Message)
    BY <2>1
  <2> HIDE DEF Message
  <2> QED  BY <2>2, <2>3, <2>4
<1>6. ASSUME EndWrap  PROVE TypeOK' /\ CallsLeft' /\ TitleSaved'
  <2>1. messages' \in Seq(Message)
    BY <1>6 DEF EndWrap, TypeOK, Message
  <2> QED  BY <1>6, <2>1 DEF EndWrap, SetTitle, TypeOK, CallsLeft, TitleSaved
<1>7. ASSUME UNCHANGED vars  PROVE TypeOK' /\ CallsLeft' /\ TitleSaved'
  BY <1>7 DEF vars, TypeOK, CallsLeft, TitleSaved
<1> QED  BY <1>1, <1>2, <1>3, <1>4, <1>5, <1>6, <1>7, ChatSteps

\* The conversation keeps to its types: whatever the model answers, the calls
\* of the run stay below the budget and one answer (analyzeAgent.run).
THEOREM ChatTypeCorrect == Spec => [](TypeOK /\ CallsLeft /\ TitleSaved)
<1>1. Init => TypeOK /\ CallsLeft /\ TitleSaved
  BY TypeStart
<1>2. (TypeOK /\ CallsLeft /\ TitleSaved) /\ [Next]_vars => (TypeOK /\ CallsLeft /\ TitleSaved)'
  BY TypeNext
<1> QED  BY <1>1, <1>2, PTL DEF Spec

\* A run that succeeds has a title, and the draft holds it: saving may fail at
\* every call of set_title and in the wrap-up (setTitle, finalize).
THEOREM SuccessIsTitled == Spec => []SuccessTitled
<1>1. TypeOK /\ CallsLeft /\ TitleSaved => SuccessTitled
  BY DEF TitleSaved, SuccessTitled
<1> QED  BY <1>1, ChatTypeCorrect, PTL

-----------------------------------------------------------------------------
\* The budget of answers

LEMMA CountNext ==
  ASSUME TypeOK, CallsLeft, HistoryInv, AnswersCounted, Next
  PROVE  AnswersCounted'
<1> USE BudgetAssumption
<1>0. Cardinality(AnswersIn(messages)) \in Nat
  <2>1. AnswersIn(messages) \in SUBSET (1 .. Len(messages))
    BY DEF AnswersIn
  <2>2. 1 \in Int /\ Len(messages) \in Int
    BY DEF TypeOK
  <2> QED  BY <2>1, <2>2, PartFinite
<1>1. ASSUME Asks  PROVE AnswersCounted'
  <2>1. PICK n \in 0 .. MaxPerReply : messages' = Append(messages, Assistant(n))
    BY <1>1 DEF Asks, Ask, WrapAsk, Answer
  <2>2. Cardinality(AnswersIn(messages')) = Cardinality(AnswersIn(messages)) + 1
    BY <2>1, AnswerCounts DEF TypeOK
  <2>3. /\ round' = round /\ round \in Nat
        /\ \/ pc = "ask" /\ pc' = "tools"
           \/ pc = "wrap" /\ pc' = "wrapTools"
    BY <1>1 DEF Asks, Ask, WrapAsk, Answer, TypeOK
  <2> QED  BY <1>0, <2>2, <2>3 DEF AnswersCounted
<1>2. ASSUME ChatFails  PROVE AnswersCounted'
  BY <1>0, <1>2 DEF ChatFails, AnswersCounted, TypeOK
<1>3. ASSUME AnyTool  PROVE AnswersCounted'
  <2>1. Call
    BY <1>3 DEF AnyTool, PlainTool, MediaTool, FinishTool, TitleTool
  <2>2. AnswersIn(messages') = AnswersIn(messages)
    <3>1. /\ messages' \in Seq(Message) /\ Len(messages') = Len(messages) + 1
          /\ \A i \in 1 .. Len(messages) : messages'[i] = messages[i]
          /\ messages'[Len(messages')] = Tool
      BY <2>1 DEF Call, TypeOK, Message
    <3>2. \A i \in Len(messages) + 1 .. Len(messages') : messages'[i].role # "assistant"
      BY <3>1, Roles
    <3>3. messages \in Seq(Message)
      BY DEF TypeOK
    <3> QED  BY <3>1, <3>2, <3>3, AnswersStay
  <2> QED  BY <2>1, <2>2 DEF Call, AnswersCounted
<1>4. ASSUME EndRound  PROVE AnswersCounted'
  <2>1. AnswersIn(messages') = AnswersIn(messages)
    BY <1>4, EndRoundReady
  <2>2. /\ pc = "tools" /\ round \in Nat
        /\ \/ pc' \in {"done", "wrap"} /\ round' = round
           \/ pc' = "ask" /\ round' = round + 1
    BY <1>4 DEF EndRound, LeaveLoop, TypeOK
  <2> QED  BY <1>0, <2>1, <2>2 DEF AnswersCounted
<1>5. ASSUME EndWrap  PROVE AnswersCounted'
  <2>1. AnswersIn(messages') = AnswersIn(messages)
    BY <1>5, ImagesAppended DEF EndWrap, TypeOK, HistoryInv
  <2>2. pc = "wrapTools" /\ pc' \in {"done", "failed"} /\ round' = round
    BY <1>5 DEF EndWrap
  <2> QED  BY <2>1, <2>2 DEF AnswersCounted
<1> QED  BY <1>1, <1>2, <1>3, <1>4, <1>5, ChatSteps

-----------------------------------------------------------------------------
\* The history

LEMMA HistoryNext ==
  ASSUME TypeOK, CallsLeft, HistoryInv, Next
  PROVE  HistoryInv'
<1>1. ASSUME Asks  PROVE HistoryInv'
  <2>1. PICK n \in 0 .. MaxPerReply :
          messages' = Append(messages, Assistant(n)) /\ pending' = n
    BY <1>1 DEF Asks, Ask, WrapAsk, Answer
  <2>2. messages \in Seq(Message) /\ pending = 0 /\ pc \in {"ask", "wrap"}
    BY <1>1 DEF Asks, Ask, WrapAsk, TypeOK, CallsLeft
  <2>3. Waits(messages', pending')
    BY <2>1, <2>2, AnswerWaits DEF HistoryInv
  <2>4. /\ Len(messages') = Len(messages) + 1
        /\ \A i \in 1 .. Len(messages) : messages'[i] = messages[i]
        /\ messages'[Len(messages')] \notin {Image, Omitted}
    BY <2>1, <2>2, Roles
  <2>5. NewestKept(messages')
    BY <2>2, <2>4 DEF HistoryInv, NewestKept
  <2>6. ImagesFrom(messages', 1) = ImagesFrom(messages, 1)
    <3>1. {j \in 1 .. Len(messages') : messages'[j] = Image}
            = {j \in 1 .. Len(messages) : messages[j] = Image}
      BY <2>2, <2>4
    <3> QED  BY <3>1 DEF ImagesFrom
  <2> QED  BY <2>2, <2>3, <2>5, <2>6 DEF HistoryInv
<1>2. ASSUME ChatFails  PROVE HistoryInv'
  BY <1>2 DEF ChatFails, HistoryInv
<1>3. ASSUME AnyTool  PROVE HistoryInv'
  <2>1. Call
    BY <1>3 DEF AnyTool, PlainTool, MediaTool, FinishTool, TitleTool
  <2>2. /\ messages \in Seq(Message) /\ pending \in Nat \ {0} /\ pending' = pending - 1
        /\ messages' = Append(messages, Tool) /\ pc' = pc
    BY <2>1, BudgetAssumption DEF Call, TypeOK
  <2>3. Waits(messages', pending')
    BY <2>2, ReplyWaits DEF HistoryInv
  <2>4. /\ Len(messages') = Len(messages) + 1
        /\ \A i \in 1 .. Len(messages) : messages'[i] = messages[i]
        /\ messages'[Len(messages')] \notin {Image, Omitted}
    BY <2>2, Roles
  <2>5. NewestKept(messages')
    BY <2>2, <2>4 DEF HistoryInv, NewestKept
  <2>6. ImagesFrom(messages', 1) = ImagesFrom(messages, 1)
    <3>1. {j \in 1 .. Len(messages') : messages'[j] = Image}
            = {j \in 1 .. Len(messages) : messages[j] = Image}
      BY <2>2, <2>4
    <3> QED  BY <3>1 DEF ImagesFrom
  <2> QED  BY <2>2, <2>3, <2>5, <2>6 DEF HistoryInv
<1>4. ASSUME EndRound  PROVE HistoryInv'
  <2>1. Ready(messages')
    BY <1>4, EndRoundReady
  <2>2. pending' = 0
    BY <1>4 DEF EndRound
  <2> QED  BY <2>1, <2>2 DEF Ready, HistoryInv
<1>5. ASSUME EndWrap  PROVE HistoryInv'
  <2>1. /\ messages' = messages \o extra /\ pending = 0 /\ pending' = 0
        /\ pc' \in {"done", "failed"}
    BY <1>5 DEF EndWrap
  <2>2. Waits(messages', 0) /\ NewestKept(messages')
    BY <2>1, ImagesAppended DEF TypeOK, HistoryInv
  <2> QED  BY <2>1, <2>2 DEF HistoryInv
<1> QED  BY <1>1, <1>2, <1>3, <1>4, <1>5, ChatSteps

LEMMA HistoryStart == Init => HistoryInv /\ AnswersCounted
<1> SUFFICES ASSUME Init  PROVE HistoryInv /\ AnswersCounted
  OBVIOUS
<1>1. /\ messages = <<System, User>> /\ Len(messages) = 2 /\ pending = 0 /\ pc = "ask"
      /\ messages[1] = System /\ messages[2] = User
  BY DEF Init
<1>2. \A i \in 1 .. 2 : /\ messages[i].calls = 0 /\ messages[i].role # "tool"
                        /\ messages[i].role # "assistant" /\ messages[i] # Image
  BY <1>1, Roles
<1>3. Waits(messages, 0)
  <2>1. \A i \in 1 .. 2 : ~Replies(messages, i)
    BY <1>2 DEF Replies
  <2> QED  BY <1>1, <1>2, <2>1 DEF Waits
<1>4. ImagesFrom(messages, 1) = 0
  <2>1. {j \in 1 .. Len(messages) : messages[j] = Image} = {}
    BY <1>1, <1>2
  <2> QED  BY <2>1, FS_EmptySet DEF ImagesFrom
<1>5. Cardinality(AnswersIn(messages)) = 0
  <2>1. AnswersIn(messages) = {}
    BY <1>1, <1>2 DEF AnswersIn
  <2> QED  BY <2>1, FS_EmptySet
<1> QED
  BY <1>1, <1>2, <1>3, <1>4, <1>5, BudgetAssumption
  DEF Init, HistoryInv, NewestKept, AnswersCounted

THEOREM HistoryHolds == Spec => [](HistoryInv /\ AnswersCounted)
<1>1. Init => HistoryInv /\ AnswersCounted
  BY HistoryStart
<1>2. (TypeOK /\ CallsLeft /\ TitleSaved) /\ (HistoryInv /\ AnswersCounted) /\ [Next]_vars
        => (HistoryInv /\ AnswersCounted)'
  <2>1. CASE Next
    BY <2>1, HistoryNext, CountNext
  <2>2. CASE UNCHANGED vars
    BY <2>2 DEF vars, HistoryInv, AnswersCounted
  <2> QED  BY <2>1, <2>2
<1> QED  BY <1>1, <1>2, ChatTypeCorrect, PTL DEF Spec

\* Whatever the model answers and whichever tools it calls in whichever order,
\* every history sent to it is one a strict endpoint accepts: each call is
\* followed at once by its reply, and at most MaxImages images are left, the
\* newest ones (runTool, trimImageMessages, nudgeMessage).
THEOREM RequestsAreAccepted == Spec => []RequestsAccepted
<1>1. TypeOK /\ CallsLeft /\ HistoryInv => RequestsAccepted
  <2> SUFFICES ASSUME TypeOK, CallsLeft, HistoryInv, Sent
               PROVE  RepliesFollow /\ ImagesBounded
    BY DEF RequestsAccepted
  <2>1. messages \in Seq(Message) /\ pending = 0 /\ pc \in {"ask", "wrap"}
    BY DEF Sent, TypeOK, CallsLeft
  <2>2. \A i \in 1 .. Len(messages) : messages[i].calls \in Nat
    BY <2>1, MessageTyped
  <2>3. RepliesFollow
    BY <2>1, <2>2 DEF HistoryInv, Waits, Replies, RepliesFollow
  <2>4. ImagesBounded
    BY <2>1 DEF HistoryInv, NewestKept, ImagesBounded
  <2> QED  BY <2>3, <2>4
<1> QED  BY <1>1, ChatTypeCorrect, HistoryHolds, PTL

\* The budget holds for any number of rounds and calls: no round starts once
\* the calls are used up, and the wrap-up is the only request more than there
\* are rounds (analyzeAgent.run).
THEOREM BudgetHolds == Spec => []BudgetKept
<1>1. TypeOK /\ CallsLeft /\ AnswersCounted => BudgetKept
  <2> SUFFICES ASSUME TypeOK, CallsLeft, AnswersCounted
               PROVE  Cardinality(AnswersIn(messages)) <= MaxRounds + 1
    BY DEF BudgetKept, CallsLeft, AnswersIn
  <2>1. AnswersIn(messages) \in SUBSET (1 .. Len(messages)) /\ Len(messages) \in Int /\ 1 \in Int
    BY DEF AnswersIn, TypeOK
  <2>2. Cardinality(AnswersIn(messages)) \in Nat
    BY <2>1, PartFinite
  <2>3. round \in 0 .. MaxRounds - 1
    BY DEF TypeOK
  <2> QED  BY <2>2, <2>3, BudgetAssumption DEF AnswersCounted
<1> QED  BY <1>1, ChatTypeCorrect, HistoryHolds, PTL

==============================================================================
