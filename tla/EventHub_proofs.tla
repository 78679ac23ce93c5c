-------------------------- MODULE EventHub_proofs --------------------------
(***************************************************************************)
(* Proofs about EventHub, for any goroutines, pages, kinds of requests,    *)
(* size of a buffer and number of lost connections.                        *)
(***************************************************************************)
EXTENDS EventHub, SequenceTheorems, TLAPS

-----------------------------------------------------------------------------
\* What the goroutines do

\* A body of a locked section: changes and calls into the hub.
Plain(s) ==
  s \in Seq(Calls) /\ \A i \in 1 .. Len(s) : s[i][1] \in {"change", "emit", "job"}

\* The lock is taken or looked at first, and what was taken is released last.
Framed(s) ==
  \A i \in 1 .. Len(s) :
    /\ s[i][1] \in {"acquire", "check"} => i = 1
    /\ s[i][1] = "release" => i = Len(s)
    /\ s[i][1] = "acquire" => s[Len(s)][1] = "release"
    /\ s[i][1] = "check" => s[Len(s)][1] # "release"

\* What is changed is announced later.
Told(s, x) ==
  \A i \in 1 .. Len(s) :
    s[i] = <<"change", x>> => \E j \in i + 1 .. Len(s) : s[j] = <<"emit", x>>

\* It is changed and announced under the lock.
Locked(s, x) ==
  \A i \in 1 .. Len(s) :
    s[i] \in {<<"change", x>>, <<"emit", x>>} => s[Len(s)][1] = "release"

\* What only the holder of the lock changes.
Guarded == {"files"} \cup (IF "edit" \in Handlers THEN {} ELSE {"state"})

\* The rest of a script that has the lock and will release it.
Holding(s) ==
  s # << >> /\ s[1][1] \notin {"acquire", "check"} /\ s[Len(s)][1] = "release"

Inside(w) == Holding(todo[w])

\* x is announced in the rest of a script.
Ahead(s, x) == \E i \in 1 .. Len(s) : s[i] = <<"emit", x>>

\* The lock when nobody has it.
Free == ""

Says(w, x) == out[w] # None /\ out[w][1] = x

Scripted ==
  \A w \in Workers :
    Framed(todo[w]) /\ \A x \in Guarded : Told(todo[w], x) /\ Locked(todo[w], x)

\* The lock is taken exactly when one goroutine is inside.
LockHeld ==
  /\ lock # Free => \E w \in Workers : Inside(w)
  /\ \A w \in Workers : Inside(w) => lock # Free
  /\ \A v, w \in Workers : Inside(v) /\ Inside(w) => v = w

\* What may be said of x now.
Truth(x) ==
  IF x = "lock" THEN {lock} ELSE IF x = "files" THEN workspaceFiles(files) ELSE {state}

\* A goroutine that is about to say that the lock is taken has it; what it is
\* about to say of a guarded topic is true, since nobody else may change it.
SaysTrue ==
  \A w \in Workers :
    /\ Says(w, "lock") => out[w][2] = Free \/ Inside(w)
    /\ \A x \in Guarded :
         Says(w, x) => Inside(w) /\ out[w][2] \in Truth(x)

-----------------------------------------------------------------------------
\* What the pages are told

Silent(s, x) == \A i \in 1 .. Len(s) : s[i][1] # x

\* The last that s says of x is v.
LastSays(s, x, v) ==
  \E i \in 1 .. Len(s) : s[i] = <<x, v>> /\ \A j \in i + 1 .. Len(s) : s[j][1] # x

\* The stream of c has x, in its snapshot or on the page.
Taken(c, x) ==
  \/ stream[c] = "open"
  \/ stream[c] = "locking" /\ x # "lock"
  \/ stream[c] = "reading" /\ x = "files"

Held(c, x) ==
  IF stream[c] = "open"
  THEN IF x = "lock" THEN page[c].lock ELSE IF x = "files" THEN page[c].files ELSE page[c].state
  ELSE IF x = "files" THEN snap[c].files ELSE snap[c].state

\* What c shows of x when it has delivered its channel, if anything, is true.
UpToDate(c, x) ==
  /\ \A v : LastSays(chan[c], x, v) => v \in Truth(x)
  /\ Silent(chan[c], x) /\ Taken(c, x) => Held(c, x) \in Truth(x)

\* x will be announced again.
Pending(x) ==
  \E w \in Workers :
    \/ Says(w, x)
    \/ Inside(w) /\ (x = "lock" \/ Ahead(todo[w], x))

Topics == {"lock"} \cup Guarded

Announced == \A c \in subs, x \in Topics : Pending(x) \/ UpToDate(c, x)

\* A stream that is up is subscribed or has been evicted.
Registered == \A c \in Pages : stream[c] # "off" => c \in subs \cup closed

HubInv == TypeOK /\ SendsSafe /\ Registered
PageInv == Scripted /\ LockHeld /\ SaysTrue /\ Announced

-----------------------------------------------------------------------------
\* Types and sends

\* A call of a goroutine is a pair of the two, and what is left is a list again.
LEMMA AtHead ==
  ASSUME TypeOK, NEW w \in Workers, NEW op, NEW x, At(w, op, x)
  PROVE  /\ out[w] = None
         /\ Len(todo[w]) \in Nat \ {0}
         /\ todo[w][1] = <<op, x>>
         /\ Tail(todo[w]) \in Seq(Calls)
         /\ Len(Tail(todo[w])) = Len(todo[w]) - 1
         /\ \A i \in 1 .. Len(todo[w]) - 1 : Tail(todo[w])[i] = todo[w][i + 1]
<1>1. todo[w] \in Seq(Calls)
  BY DEF TypeOK
<1>2. todo[w] # << >> /\ Head(todo[w]) = <<op, x>> /\ out[w] = None
  BY DEF At
<1> QED  BY <1>1, <1>2, HeadTailProperties

LEMMA EventForms ==
  ASSUME NEW e \in Events
  PROVE  /\ e = <<e[1], e[2]>>
         /\ e[1] \in {"lock", "job", "files", "state"}
         /\ e[1] = "lock" => e[2] \in {"", "stage", "analyze", "push"}
         /\ e[1] = "job" => e[2] \in {"running", "done", "error"}
         /\ e[1] = "files" => e[2] \in Listing
         /\ e[1] = "state" => e[2] \in Nat
<1>1. CASE \E l \in {"", "stage", "analyze", "push"} : e = <<"lock", l>>
  <2>1. PICK l \in {"", "stage", "analyze", "push"} : e = <<"lock", l>>
    BY <1>1
  <2>2. e[1] = "lock" /\ e[2] = l
    BY <2>1
  <2> QED  BY <2>1, <2>2
<1>2. CASE \E s \in {"running", "done", "error"} : e = <<"job", s>>
  <2>1. PICK s \in {"running", "done", "error"} : e = <<"job", s>>
    BY <1>2
  <2>2. e[1] = "job" /\ e[2] = s
    BY <2>1
  <2> QED  BY <2>1, <2>2
<1>3. CASE e \in {"files"} \X Listing
  <2>1. PICK n \in Listing : e = <<"files", n>>
    BY <1>3
  <2>2. e[1] = "files" /\ e[2] = n
    BY <2>1
  <2> QED  BY <2>1, <2>2
<1>4. CASE e \in {"state"} \X Nat
  <2>1. PICK n \in Nat : e = <<"state", n>>
    BY <1>4
  <2>2. e[1] = "state" /\ e[2] = n
    BY <2>1
  <2> QED  BY <2>1, <2>2
<1> QED  BY <1>1, <1>2, <1>3, <1>4 DEF Events

LEMMA EventKinds ==
  /\ \A l \in {"", "stage", "analyze", "push"} : <<"lock", l>> \in Events
  /\ \A s \in {"running", "done", "error"} : <<"job", s>> \in Events
  /\ \A found \in Listing : <<"files", found>> \in Events
  /\ \A n \in Nat : <<"state", n>> \in Events
  BY DEF Events

\* A listing made now is one.
LEMMA ListingForms ==
  ASSUME NEW v \in Nat
  PROVE  /\ workspaceFiles(v) \subseteq Listing
         /\ \A found \in workspaceFiles(v) : found[1] = v /\ (found[2] \/ ReadErrors)
<1>1. ASSUME NEW found \in workspaceFiles(v)
      PROVE  found \in Listing /\ found[1] = v /\ (found[2] \/ ReadErrors)
  <2> DEFINE R == IF ReadErrors THEN BOOLEAN ELSE {TRUE}
  <2>0. found \in {v} \X R
    BY DEF workspaceFiles
  <2>1. PICK r \in R : found = <<v, r>>
    <3> HIDE DEF R
    <3> QED  BY <2>0
  <2>2. r \in BOOLEAN /\ (r \/ ReadErrors)
    BY <2>1, ReadAssumption
  <2> QED  BY <2>1, <2>2 DEF Listing
<1> QED  BY <1>1

\* A body, and a script that begins with the lock.
LEMMA PlainOne ==
  ASSUME NEW op \in {"change", "emit", "job"}, NEW x \in Subjects
  PROVE  Plain(<< <<op, x>> >>)
  BY DEF Plain, Calls

LEMMA PlainConcat ==
  ASSUME NEW s, NEW t, Plain(s), Plain(t)
  PROVE  Plain(s \o t)
<1>1. s \in Seq(Calls) /\ t \in Seq(Calls)
  BY DEF Plain
<1>2. /\ s \o t \in Seq(Calls)
      /\ Len(s \o t) = Len(s) + Len(t)
      /\ \A i \in 1 .. Len(s) + Len(t) : (s \o t)[i] = IF i <= Len(s) THEN s[i] ELSE t[i - Len(s)]
  BY <1>1, ConcatProperties
<1>3. Len(s) \in Nat /\ Len(t) \in Nat
  BY <1>1
<1>4. ASSUME NEW i \in 1 .. Len(s \o t)
      PROVE  (s \o t)[i][1] \in {"change", "emit", "job"}
  <2>1. CASE i <= Len(s)
    BY <2>1, <1>2, <1>3 DEF Plain
  <2>2. CASE ~(i <= Len(s))
    <3>1. i - Len(s) \in 1 .. Len(t)
      BY <2>2, <1>2, <1>3
    <3> QED  BY <2>2, <3>1, <1>2, <1>3 DEF Plain
  <2> QED  BY <2>1, <2>2
<1> QED  BY <1>2, <1>4 DEF Plain

LEMMA WithinFramed ==
  ASSUME NEW s, Plain(s), NEW kind \in {"stage", "analyze", "push"}
  PROVE  LET t == Within(kind, s) IN
         /\ t \in Seq(Calls)
         /\ Len(t) = Len(s) + 2
         /\ t[1] = <<"acquire", kind>>
         /\ t[Len(s) + 2] = <<"release", kind>>
         /\ \A i \in 1 .. Len(s) : t[i + 1] = s[i]
         /\ Framed(t)
<1> DEFINE a == << <<"acquire", kind>> >>
           z == << <<"release", kind>> >>
           t == Within(kind, s)
<1>1. s \in Seq(Calls) /\ a \in Seq(Calls) /\ z \in Seq(Calls) /\ Len(s) \in Nat
  <2>1. <<"acquire", kind>> \in Calls /\ <<"release", kind>> \in Calls
    BY DEF Calls, Subjects
  <2>2. s \in Seq(Calls)
    BY DEF Plain
  <2> QED  BY <2>1, <2>2
<1>2. Len(a) = 1 /\ a[1] = <<"acquire", kind>> /\ Len(z) = 1 /\ z[1] = <<"release", kind>>
  OBVIOUS
<1> HIDE DEF a, z
<1>3. /\ a \o s \in Seq(Calls)
      /\ Len(a \o s) = 1 + Len(s)
      /\ \A i \in 1 .. 1 + Len(s) : (a \o s)[i] = IF i <= 1 THEN a[i] ELSE s[i - 1]
  <2>1. /\ a \o s \in Seq(Calls)
        /\ Len(a \o s) = Len(a) + Len(s)
        /\ \A i \in 1 .. Len(a) + Len(s) : (a \o s)[i] = IF i <= Len(a) THEN a[i] ELSE s[i - Len(a)]
    BY <1>1, ConcatProperties
  <2> QED  BY <2>1, <1>2
<1>4. /\ (a \o s) \o z \in Seq(Calls)
      /\ Len((a \o s) \o z) = 1 + Len(s) + 1
      /\ \A i \in 1 .. 1 + Len(s) + 1 :
           ((a \o s) \o z)[i] = IF i <= 1 + Len(s) THEN (a \o s)[i] ELSE z[i - (1 + Len(s))]
  BY <1>1, <1>2, <1>3, ConcatProperties
<1>5. t = (a \o s) \o z
  BY DEF Within, a, z
<1> HIDE DEF t
<1>6. t \in Seq(Calls) /\ Len(t) = Len(s) + 2
  BY <1>1, <1>4, <1>5
<1>7. t[1] = <<"acquire", kind>> /\ t[Len(s) + 2] = <<"release", kind>>
  <2>1. 1 \in 1 .. 1 + Len(s) + 1 /\ 1 <= 1 + Len(s) /\ 1 \in 1 .. 1 + Len(s)
    BY <1>1
  <2>2. Len(s) + 2 \in 1 .. 1 + Len(s) + 1 /\ ~(Len(s) + 2 <= 1 + Len(s)) /\ Len(s) + 2 - (1 + Len(s)) = 1
    BY <1>1
  <2> QED  BY <2>1, <2>2, <1>2, <1>3, <1>4, <1>5
<1>8. ASSUME NEW i \in 1 .. Len(s)
      PROVE  t[i + 1] = s[i]
  <2>1. i + 1 \in 1 .. 1 + Len(s) + 1 /\ i + 1 <= 1 + Len(s) /\ i + 1 \in 1 .. 1 + Len(s)
        /\ ~(i + 1 <= 1) /\ (i + 1) - 1 = i
    BY <1>1
  <2> QED  BY <2>1, <1>3, <1>4, <1>5
<1>9. ASSUME NEW i \in 1 .. Len(t)
      PROVE  i = 1 \/ i = Len(t) \/ t[i][1] \in {"change", "emit", "job"}
  <2>1. CASE i # 1 /\ i # Len(t)
    <3>1. i - 1 \in 1 .. Len(s) /\ (i - 1) + 1 = i
      BY <2>1, <1>1, <1>6
    <3> QED  BY <3>1, <1>8 DEF Plain
  <2> QED  BY <2>1
<1>10. Framed(t)
  <2>1. Len(t) \in Nat \ {0, 1} /\ 1 # Len(t)
    BY <1>1, <1>6
  <2>2. t[1] = <<"acquire", kind>> /\ t[Len(t)] = <<"release", kind>>
    BY <1>6, <1>7
  <2>3. ASSUME NEW i \in 1 .. Len(t)
        PROVE  /\ t[i][1] \in {"acquire", "check"} => i = 1
               /\ t[i][1] = "release" => i = Len(t)
               /\ t[i][1] # "check"
    BY <2>1, <2>2, <1>9
  <2> QED  BY <2>2, <2>3 DEF Framed
<1> QED  BY <1>6, <1>7, <1>8, <1>10 DEF t

-----------------------------------------------------------------------------
\* Every script keeps to the form

LEMMA ToldConcat ==
  ASSUME NEW x, NEW s, NEW t, Plain(s), Plain(t), Told(t, x),
         Told(s, x) \/ \E j \in 1 .. Len(t) : t[j] = <<"emit", x>>
  PROVE  Told(s \o t, x)
<1>1. s \in Seq(Calls) /\ t \in Seq(Calls) /\ Len(s) \in Nat /\ Len(t) \in Nat
  BY DEF Plain
<1>2. /\ Len(s \o t) = Len(s) + Len(t)
      /\ \A i \in 1 .. Len(s) + Len(t) : (s \o t)[i] = IF i <= Len(s) THEN s[i] ELSE t[i - Len(s)]
  BY <1>1, ConcatProperties
<1>3. ASSUME NEW j \in 1 .. Len(t)
      PROVE  /\ Len(s) + j \in Len(s) + 1 .. Len(s) + Len(t)
             /\ (s \o t)[Len(s) + j] = t[j]
  BY <1>1, <1>2
<1>4. ASSUME NEW i \in 1 .. Len(s \o t), (s \o t)[i] = <<"change", x>>
      PROVE  \E k \in i + 1 .. Len(s \o t) : (s \o t)[k] = <<"emit", x>>
  <2>1. CASE i <= Len(s)
    <3>1. i \in 1 .. Len(s) /\ s[i] = <<"change", x>>
      BY <2>1, <1>1, <1>2, <1>4
    <3>2. CASE \E j \in 1 .. Len(t) : t[j] = <<"emit", x>>
      <4>1. PICK j \in 1 .. Len(t) : t[j] = <<"emit", x>>
        BY <3>2
      <4>2. Len(s) + j \in i + 1 .. Len(s) + Len(t)
        BY <3>1, <1>1
      <4> QED  BY <4>1, <4>2, <1>2, <1>3
    <3>3. CASE Told(s, x)
      <4>1. PICK j \in i + 1 .. Len(s) : s[j] = <<"emit", x>>
        BY <3>1, <3>3 DEF Told
      <4>2. j \in i + 1 .. Len(s) + Len(t) /\ j <= Len(s) /\ j \in 1 .. Len(s) + Len(t)
        BY <3>1, <1>1
      <4> QED  BY <4>1, <4>2, <1>2
    <3> QED  BY <3>2, <3>3
  <2>2. CASE ~(i <= Len(s))
    <3>1. i - Len(s) \in 1 .. Len(t)
      BY <2>2, <1>1, <1>2
    <3>2. t[i - Len(s)] = <<"change", x>>
      BY <2>2, <1>2, <1>4
    <3>3. PICK j \in i - Len(s) + 1 .. Len(t) : t[j] = <<"emit", x>>
      BY <3>1, <3>2 DEF Told
    <3>4. j \in 1 .. Len(t) /\ Len(s) + j \in i + 1 .. Len(s) + Len(t)
      BY <3>1, <1>1
    <3> QED  BY <3>3, <3>4, <1>2, <1>3
  <2> QED  BY <2>1, <2>2
<1> QED  BY <1>4 DEF Told

\* A body under the lock: a script that keeps to the form.
LEMMA WithinGood ==
  ASSUME NEW s, Plain(s), NEW kind \in {"stage", "analyze", "push"},
         \A x \in {"files", "state"} : Told(s, x)
  PROVE  LET t == Within(kind, s) IN
         /\ t \in Seq(Calls) /\ Framed(t) /\ ~Holding(t)
         /\ \A x \in Guarded : Told(t, x) /\ Locked(t, x)
<1> DEFINE t == Within(kind, s)
<1>1. /\ t \in Seq(Calls)
      /\ Len(t) = Len(s) + 2
      /\ t[1] = <<"acquire", kind>>
      /\ t[Len(s) + 2] = <<"release", kind>>
      /\ \A i \in 1 .. Len(s) : t[i + 1] = s[i]
      /\ Framed(t)
  BY WithinFramed
<1> HIDE DEF t
<1>2. Len(s) \in Nat
  BY DEF Plain
<1>3. ASSUME NEW x \in {"files", "state"}
      PROVE  Told(t, x) /\ Locked(t, x)
  <2>1. t[Len(t)][1] = "release"
    BY <1>1
  <2>2. ASSUME NEW i \in 1 .. Len(t), t[i] = <<"change", x>>
        PROVE  \E j \in i + 1 .. Len(t) : t[j] = <<"emit", x>>
    <3>1. i # 1 /\ i # Len(s) + 2
      BY <1>1, <2>2
    <3>2. i - 1 \in 1 .. Len(s) /\ (i - 1) + 1 = i
      BY <3>1, <1>1, <1>2
    <3>3. s[i - 1] = <<"change", x>>
      BY <3>2, <1>1, <2>2
    <3>4. PICK j \in (i - 1) + 1 .. Len(s) : s[j] = <<"emit", x>>
      BY <3>2, <3>3 DEF Told
    <3>5. j \in 1 .. Len(s) /\ j + 1 \in i + 1 .. Len(t)
      BY <3>2, <1>1, <1>2
    <3> QED  BY <3>4, <3>5, <1>1
  <2> QED  BY <2>1, <2>2 DEF Told, Locked
<1>4. Guarded \subseteq {"files", "state"}
  BY DEF Guarded
<1>5. ~Holding(t)
  BY <1>1 DEF Holding
<1> QED  BY <1>1, <1>3, <1>4, <1>5 DEF t

LEMMA Pieces ==
  /\ \A st \in {"running", "bytes", "done", "error"} :
       Plain(Job(st)) /\ \A x \in {"files", "state"} : Told(Job(st), x)
  /\ Plain(Files) /\ Plain(Draft)
  /\ \A x \in {"files", "state"} : Told(Files, x) /\ Told(Draft, x)
<1>1. ASSUME NEW st \in {"running", "bytes", "done", "error"}
      PROVE  Plain(Job(st)) /\ \A x \in {"files", "state"} : Told(Job(st), x)
  BY DEF Plain, Told, Job, Calls, Subjects
<1>2. Plain(Files) /\ Plain(Draft)
  BY DEF Plain, Files, Draft, Calls, Subjects
<1>3. \A x \in {"files", "state"} : Told(Files, x) /\ Told(Draft, x)
  BY DEF Told, Files, Draft
<1> QED  BY <1>1, <1>2, <1>3

LEMMA StageGood ==
  ASSUME NEW s \in StageScripts
  PROVE  /\ s \in Seq(Calls) /\ Framed(s) /\ ~Holding(s)
         /\ \A x \in Guarded : Told(s, x) /\ Locked(s, x)
<1> DEFINE b == << <<"change", "files">>, <<"change", "state">>,
                   <<"emit", "files">>, <<"emit", "state">> >>
<1>1. Plain(<< >>) /\ \A x \in {"files", "state"} : Told(<< >>, x)
  BY DEF Plain, Told
<1>2. Plain(b)
  BY DEF Plain, Calls, Subjects
<1>3. \A x \in {"files", "state"} : Told(b, x)
  BY DEF Told
<1>4. s = Within("stage", << >>) \/ s = Within("stage", b)
  BY DEF StageScripts
<1> HIDE DEF b
<1> QED  BY <1>1, <1>2, <1>3, <1>4, WithinGood

LEMMA AnalyzeGood ==
  ASSUME NEW s \in AnalyzeScripts
  PROVE  /\ s \in Seq(Calls) /\ Framed(s) /\ ~Holding(s)
         /\ \A x \in Guarded : Told(s, x) /\ Locked(s, x)
<1> DEFINE b1 == Job("running") \o Draft
           b2 == b1 \o Files
           b3 == b2 \o Job("error")
           d1 == Job("running") \o Files
           d2 == d1 \o Draft
           d3 == d2 \o Job("done")
           Good(b) == Plain(b) /\ \A x \in {"files", "state"} : Told(b, x)
<1>1. Plain(<< >>) /\ \A x \in {"files", "state"} : Told(<< >>, x)
  BY DEF Plain, Told
<1>2. ASSUME NEW a, NEW c, Good(a), Good(c)
      PROVE  Good(a \o c)
  BY <1>2, PlainConcat, ToldConcat
<1>3. Good(Job("running")) /\ Good(Job("error")) /\ Good(Job("done")) /\ Good(Files) /\ Good(Draft)
  BY Pieces
<1> HIDE DEF Good
<1>4. Good(b1) /\ Good(d1)
  BY <1>2, <1>3
<1>5. Good(b2) /\ Good(d2)
  BY <1>2, <1>3, <1>4
<1>6. Good(b3) /\ Good(d3)
  BY <1>2, <1>3, <1>5
<1>7. s = Within("analyze", << >>) \/ s = Within("analyze", b3) \/ s = Within("analyze", d3)
  BY DEF AnalyzeScripts
<1> HIDE DEF b3, d3
<1> QED  BY <1>1, <1>6, <1>7, WithinGood DEF Good

LEMMA PushGood ==
  ASSUME NEW s \in PushScripts
  PROVE  /\ s \in Seq(Calls) /\ Framed(s) /\ ~Holding(s)
         /\ \A x \in Guarded : Told(s, x) /\ Locked(s, x)
<1> DEFINE m == << <<"change", "files">>, <<"change", "state">>, <<"emit", "files">> >>
           e == << <<"emit", "files">> >>
           f == << <<"emit", "state">> >>
           b1 == Job("running") \o Job("bytes")
           b2 == b1 \o Job("error")
           b3 == b2 \o e
           d2 == b1 \o m
           d3 == d2 \o Job("done")
           d4 == d3 \o f
<1>1. Plain(<< >>) /\ \A x \in {"files", "state"} : Told(<< >>, x)
  BY DEF Plain, Told
<1>2. Plain(m) /\ Plain(e) /\ Plain(f) /\ Told(m, "files")
  BY DEF Plain, Calls, Subjects, Told
<1>3. \A x \in {"files", "state"} : Told(e, x) /\ Told(f, x)
  BY DEF Told
<1>4. \E j \in 1 .. Len(f) : f[j] = <<"emit", "state">>
  OBVIOUS
<1> HIDE DEF m, e, f
<1>5. Plain(b1) /\ \A x \in {"files", "state"} : Told(b1, x)
  BY Pieces, PlainConcat, ToldConcat
<1> HIDE DEF b1
<1>6. Plain(b2) /\ \A x \in {"files", "state"} : Told(b2, x)
  BY <1>5, Pieces, PlainConcat, ToldConcat
<1>7. Plain(d2) /\ Told(d2, "files")
  BY <1>2, <1>5, PlainConcat, ToldConcat
<1> HIDE DEF b2, d2
<1>8. Plain(b3) /\ \A x \in {"files", "state"} : Told(b3, x)
  BY <1>2, <1>3, <1>6, PlainConcat, ToldConcat
<1>9. Plain(d3) /\ Told(d3, "files")
  BY <1>7, Pieces, PlainConcat, ToldConcat
<1> HIDE DEF b3, d3
<1>10. Plain(d4) /\ \A x \in {"files", "state"} : Told(d4, x)
  <2>1. Plain(d4)
    BY <1>2, <1>9, PlainConcat
  <2>2. Told(d4, "files")
    BY <1>2, <1>3, <1>9, ToldConcat
  <2>3. Told(d4, "state")
    BY <1>2, <1>3, <1>4, <1>9, ToldConcat
  <2> QED  BY <2>1, <2>2, <2>3
<1>11. s = Within("push", << >>) \/ s = Within("push", b3) \/ s = Within("push", d4)
  BY DEF PushScripts, b1, b2, b3, d2, d3, m, e, f
<1> HIDE DEF d4
<1> QED  BY <1>1, <1>8, <1>10, <1>11, WithinGood

LEMMA EditGood ==
  ASSUME NEW s \in EditScripts, "edit" \in Handlers
  PROVE  /\ s \in Seq(Calls) /\ Framed(s) /\ ~Holding(s)
         /\ \A x \in Guarded : Told(s, x) /\ Locked(s, x)
<1> DEFINE a == << <<"check", "state">> >>
           b == << <<"check", "state">>, <<"change", "state">>, <<"emit", "state">> >>
<1>1. Guarded = {"files"}
  BY DEF Guarded
<1>2. s = a \o << >> \/ s = a \o Draft
  BY DEF EditScripts
<1>3. a \o << >> = a
  <2>1. a \in Seq(Calls)
    BY DEF Calls, Subjects
  <2> QED  BY <2>1, ConcatEmptySeq
<1>4. a \o Draft = b
  <2>1. a \in Seq(Calls) /\ Draft \in Seq(Calls) /\ b \in Seq(Calls)
    BY DEF Calls, Subjects, Draft
  <2>2. /\ Len(a) = 1 /\ a[1] = <<"check", "state">>
        /\ Len(Draft) = 2 /\ Draft[1] = <<"change", "state">> /\ Draft[2] = <<"emit", "state">>
        /\ Len(b) = 3 /\ b[1] = a[1] /\ b[2] = Draft[1] /\ b[3] = Draft[2]
    BY DEF Draft
  <2> HIDE DEF a, b
  <2>3. /\ a \o Draft \in Seq(Calls)
        /\ Len(a \o Draft) = Len(a) + Len(Draft)
        /\ \A i \in 1 .. Len(a) + Len(Draft) :
             (a \o Draft)[i] = IF i <= Len(a) THEN a[i] ELSE Draft[i - Len(a)]
    BY <2>1, ConcatProperties
  <2>4. /\ (a \o Draft)[1] = b[1]
        /\ (a \o Draft)[2] = b[2]
        /\ (a \o Draft)[3] = b[3]
    <3> DEFINE c == a \o Draft
    <3>1. \A i \in 1 .. 3 : c[i] = IF i <= 1 THEN a[i] ELSE Draft[i - 1]
      BY <2>2, <2>3
    <3> HIDE DEF c
    <3>2. /\ 1 \in 1 .. 3 /\ 2 \in 1 .. 3 /\ 3 \in 1 .. 3
          /\ 1 <= 1 /\ ~(2 <= 1) /\ ~(3 <= 1) /\ 2 - 1 = 1 /\ 3 - 1 = 2
      OBVIOUS
    <3>3. c[1] = a[1] /\ c[2] = Draft[1] /\ c[3] = Draft[2]
      BY <3>1, <3>2
    <3> QED  BY <2>2, <3>3 DEF c
  <2>5. \A i \in 1 .. Len(b) : (a \o Draft)[i] = b[i]
    <3>1. \A i \in 1 .. Len(b) : i = 1 \/ i = 2 \/ i = 3
      BY <2>2
    <3> QED  BY <3>1, <2>4
  <2> QED  BY <2>1, <2>2, <2>3, <2>5, SeqEqual
<1>5. /\ a \in Seq(Calls) /\ Framed(a) /\ ~Holding(a)
      /\ Told(a, "files") /\ Locked(a, "files")
  BY DEF Calls, Subjects, Framed, Told, Locked, Holding
<1>6. /\ b \in Seq(Calls) /\ Framed(b) /\ ~Holding(b)
      /\ Told(b, "files") /\ Locked(b, "files")
  BY DEF Calls, Subjects, Framed, Told, Locked, Holding
<1> QED  BY <1>1, <1>2, <1>3, <1>4, <1>5, <1>6

LEMMA ScriptsGood ==
  ASSUME NEW s \in Scripts
  PROVE  /\ s \in Seq(Calls) /\ Framed(s) /\ ~Holding(s)
         /\ \A x \in Guarded : Told(s, x) /\ Locked(s, x)
<1>1. s \in StageScripts \/ s \in AnalyzeScripts \/ s \in PushScripts
      \/ (s \in EditScripts /\ "edit" \in Handlers)
  <2>1. PICK h \in Handlers : s \in CASE h = "stage"   -> StageScripts
                                      [] h = "edit"    -> EditScripts
                                      [] h = "analyze" -> AnalyzeScripts
                                      [] h = "push"    -> PushScripts
    BY DEF Scripts
  <2>2. h \in {"stage", "edit", "analyze", "push"}
    BY HandlersAssumption
  <2> QED  BY <2>1, <2>2
<1> QED  BY <1>1, StageGood, AnalyzeGood, PushGood, EditGood

-----------------------------------------------------------------------------
\* Types and sends

LEMMA Bounds == BufSize \in Nat /\ 0 <= BufSize /\ 0 \in 0 .. MaxDrops /\ MaxDrops \in Nat
<1>1. BufSize \in Nat \ {0} /\ MaxDrops \in Nat
  BY BufferAssumption
<1> QED  BY <1>1

LEMMA NothingSent == << >> \in Seq(Events) /\ Len(<< >>) = 0
  OBVIOUS

LEMMA HubInit == Init => HubInv
<1> SUFFICES ASSUME Init PROVE HubInv
  OBVIOUS
<1>1. todo \in [Workers -> Seq(Calls)]
  BY ScriptsGood DEF Init
<1>2. \A c \in Pages : chan[c] = << >>
  BY DEF Init
<1>3. chan \in [Pages -> Seq(Events)]
  BY NothingSent DEF Init
<1>4. drops \in [Pages -> 0 .. MaxDrops]
  BY Bounds DEF Init
<1>5. snap \in [Pages -> [files : Listing, state : Nat]]
  BY DEF Init, Listing
<1>6. page \in [Pages -> [lock  : {"", "stage", "analyze", "push"},
                          files : Listing, state : Nat,
                          shown : {"none", "staging", "running", "done", "error"}]]
  BY DEF Init, Blank, Listing
<1>7. out \in [Workers -> Events \cup {None}]
  BY DEF Init
<1>8. TypeOK
  BY <1>1, <1>3, <1>4, <1>5, <1>6, <1>7 DEF Init, TypeOK
<1>9. SendsSafe /\ Registered
  <2>1. \A c \in Pages : Len(chan[c]) <= BufSize
    BY <1>2, NothingSent, Bounds
  <2>2. subs = {} /\ closed = {} /\ \A c \in Pages : stream[c] = "off"
    BY DEF Init
  <2> QED  BY <2>1, <2>2 DEF SendsSafe, Registered
<1> QED  BY <1>8, <1>9 DEF HubInv

\* Nothing but the goroutine's own part changes.
LEMMA TodoDone ==
  ASSUME TypeOK, NEW w \in Workers, NEW op, NEW x, At(w, op, x), Done(w)
  PROVE  todo' \in [Workers -> Seq(Calls)]
  BY AtHead DEF TypeOK, Done

LEMMA AcquireHub ==
  ASSUME HubInv, NEW w \in Workers, NEW kind \in {"stage", "analyze", "push"}, Acquire(w, kind)
  PROVE  HubInv'
<1>1. TypeOK
  BY DEF HubInv
<1>2. todo' \in [Workers -> Seq(Calls)]
  BY <1>1, TodoDone DEF Acquire
<1>3. out' \in [Workers -> Events \cup {None}]
  BY <1>1, EventKinds DEF TypeOK, Acquire, Tell
<1> QED  BY <1>2, <1>3 DEF HubInv, TypeOK, SendsSafe, Registered, Acquire, client, truth

LEMMA BusyHub ==
  ASSUME HubInv, NEW w \in Workers, Busy(w)
  PROVE  HubInv'
<1>1. << >> \in Seq(Calls)
  OBVIOUS
<1>2. todo' \in [Workers -> Seq(Calls)]
  BY <1>1 DEF HubInv, TypeOK, Busy, Quit
<1> QED  BY <1>2 DEF HubInv, TypeOK, SendsSafe, Registered, Busy, client, truth, hub

LEMMA CheckHub ==
  ASSUME HubInv, NEW w \in Workers, Check(w)
  PROVE  HubInv'
<1>1. TypeOK
  BY DEF HubInv
<1>2. todo' \in [Workers -> Seq(Calls)]
  BY <1>1, TodoDone DEF Check
<1> QED  BY <1>2 DEF HubInv, TypeOK, SendsSafe, Registered, Check, client, truth, hub

LEMMA ReleaseHub ==
  ASSUME HubInv, NEW w \in Workers, Release(w)
  PROVE  HubInv'
<1>1. TypeOK
  BY DEF HubInv
<1>2. todo' \in [Workers -> Seq(Calls)]
  BY <1>1, TodoDone DEF Release
<1>3. out' \in [Workers -> Events \cup {None}]
  BY <1>1, EventKinds DEF TypeOK, Release, Tell
<1> QED  BY <1>2, <1>3 DEF HubInv, TypeOK, SendsSafe, Registered, Release, client, truth

LEMMA ChangeHub ==
  ASSUME HubInv, NEW w \in Workers, Change(w)
  PROVE  HubInv'
<1>1. TypeOK
  BY DEF HubInv
<1>2. todo' \in [Workers -> Seq(Calls)]
  BY <1>1, TodoDone DEF Change
<1>3. files' \in Nat /\ state' \in Nat
  <2>1. files \in Nat /\ state \in Nat
    BY <1>1 DEF TypeOK
  <2>2. (files' = files + 1 \/ files' = files) /\ (state' = state + 1 \/ state' = state)
    BY DEF Change
  <2> QED  BY <2>1, <2>2
<1> QED  BY <1>2, <1>3 DEF HubInv, TypeOK, SendsSafe, Registered, Change, client, hub

LEMMA EmitHub ==
  ASSUME HubInv, NEW w \in Workers, Emit(w)
  PROVE  HubInv'
<1>1. TypeOK
  BY DEF HubInv
<1>2. todo' \in [Workers -> Seq(Calls)]
  BY <1>1, TodoDone DEF Emit
<1>3. (\A found \in workspaceFiles(files) : <<"files", found>> \in Events) /\ <<"state", state>> \in Events
  BY <1>1, EventKinds, ListingForms DEF TypeOK
<1>4. out' \in [Workers -> Events \cup {None}]
  BY <1>1, <1>3 DEF TypeOK, Emit, Tell
<1> QED  BY <1>2, <1>4 DEF HubInv, TypeOK, SendsSafe, Registered, Emit, client, truth, hub

LEMMA EmitJobHub ==
  ASSUME HubInv, NEW w \in Workers, NEW status \in {"running", "bytes", "done", "error"},
         EmitJob(w, status)
  PROVE  HubInv'
<1>1. TypeOK
  BY DEF HubInv
<1>2. todo' \in [Workers -> Seq(Calls)]
  BY <1>1, TodoDone DEF EmitJob
<1>3. job' \in {"running", "done", "error"}
  BY DEF EmitJob
<1>4. <<"job", job'>> \in Events
  BY <1>3, EventKinds
<1>5. out' \in [Workers -> Events \cup {None}]
  BY <1>1, <1>4 DEF TypeOK, EmitJob, Tell
<1> QED  BY <1>2, <1>3, <1>5 DEF HubInv, TypeOK, SendsSafe, Registered, EmitJob, client, truth

LEMMA BroadcastHub ==
  ASSUME HubInv, NEW w \in Workers, Broadcast(w)
  PROVE  HubInv'
<1> DEFINE full == {c \in subs : Len(chan[c]) >= BufSize}
<1>1. TypeOK /\ SendsSafe /\ Registered
  BY DEF HubInv
<1>2. /\ out[w] \in Events
      /\ subs' = subs \ full
      /\ closed' = closed \cup full
      /\ chan' = [c \in Pages |-> IF c \in subs \ full THEN Append(chan[c], out[w]) ELSE chan[c]]
      /\ out' = [out EXCEPT ![w] = None]
  BY <1>1 DEF Broadcast, TypeOK
<1>3. ASSUME NEW c \in Pages
      PROVE  chan'[c] \in Seq(Events) /\ Len(chan'[c]) <= BufSize
  <2>1. chan[c] \in Seq(Events) /\ Len(chan[c]) \in Nat /\ Len(chan[c]) <= BufSize /\ BufSize \in Nat
    <3>1. chan[c] \in Seq(Events)
      BY <1>1 DEF TypeOK
    <3>2. Len(chan[c]) <= BufSize
      BY <1>1 DEF SendsSafe
    <3> QED  BY <3>1, <3>2, Bounds
  <2>2. Append(chan[c], out[w]) \in Seq(Events) /\ Len(Append(chan[c], out[w])) = Len(chan[c]) + 1
    BY <1>2, <2>1, AppendProperties
  <2>3. CASE c \in subs \ full
    BY <2>1, <2>2, <2>3, <1>2
  <2>4. CASE c \notin subs \ full
    BY <2>1, <2>4, <1>2
  <2> QED  BY <2>3, <2>4
<1>4. chan' \in [Pages -> Seq(Events)]
  BY <1>2, <1>3
<1>5. out' \in [Workers -> Events \cup {None}]
  BY <1>1, <1>2 DEF TypeOK
<1>6. subs' \subseteq Pages /\ closed' \subseteq Pages
  BY <1>1, <1>2 DEF TypeOK
<1>7. TypeOK'
  BY <1>1, <1>4, <1>5, <1>6 DEF TypeOK, Broadcast, client, truth
<1>8. SendsSafe'
  BY <1>1, <1>2, <1>3 DEF SendsSafe, Broadcast, client
<1>9. Registered'
  BY <1>1, <1>2 DEF Registered, Broadcast, client
<1> QED  BY <1>7, <1>8, <1>9 DEF HubInv

LEMMA ConnectHub ==
  ASSUME HubInv, NEW c \in Pages, Connect(c)
  PROVE  HubInv'
<1>1. TypeOK /\ SendsSafe /\ Registered
  BY DEF HubInv
<1>2. chan' \in [Pages -> Seq(Events)] /\ stream' \in [Pages -> {"off", "listing", "reading", "locking", "open"}]
  BY <1>1, NothingSent DEF TypeOK, Connect, Move
<1>3. TypeOK'
  BY <1>1, <1>2 DEF TypeOK, Connect, truth, worker
<1>4. \A d \in Pages : chan'[d] = (IF d = c THEN << >> ELSE chan[d])
                       /\ stream'[d] = (IF d = c THEN "listing" ELSE stream[d])
  BY <1>1 DEF TypeOK, Connect, Move
<1>5. Len(<< >>) = 0 /\ 0 <= BufSize
  BY NothingSent, Bounds
<1>6. SendsSafe'
  BY <1>1, <1>4, <1>5 DEF TypeOK, SendsSafe, Connect
<1>7. Registered'
  BY <1>1, <1>4 DEF Registered, Connect
<1> QED  BY <1>3, <1>6, <1>7 DEF HubInv

LEMMA SnapFilesHub ==
  ASSUME HubInv, NEW c \in Pages, SnapFiles(c)
  PROVE  HubInv'
<1>1. TypeOK /\ SendsSafe /\ Registered
  BY DEF HubInv
<1>2. snap' \in [Pages -> [files : Listing, state : Nat]]
  <2>1. workspaceFiles(files) \subseteq Listing
    BY <1>1, ListingForms DEF TypeOK
  <2> QED  BY <1>1, <2>1 DEF TypeOK, SnapFiles
<1>3. stream' \in [Pages -> {"off", "listing", "reading", "locking", "open"}]
  BY <1>1 DEF TypeOK, SnapFiles, Move
<1>4. TypeOK'
  BY <1>1, <1>2, <1>3 DEF TypeOK, SnapFiles, hub, truth, worker
<1>5. \A d \in Pages : stream'[d] # "off" <=> stream[d] # "off"
  BY <1>1 DEF TypeOK, SnapFiles, Move
<1> QED  BY <1>1, <1>4, <1>5 DEF HubInv, TypeOK, SendsSafe, Registered, SnapFiles, hub

LEMMA SnapStateHub ==
  ASSUME HubInv, NEW c \in Pages, SnapState(c)
  PROVE  HubInv'
<1>1. TypeOK /\ SendsSafe /\ Registered
  BY DEF HubInv
<1>2. snap' \in [Pages -> [files : Listing, state : Nat]]
  BY <1>1 DEF TypeOK, SnapState
<1>3. stream' \in [Pages -> {"off", "listing", "reading", "locking", "open"}]
  BY <1>1 DEF TypeOK, SnapState, Move
<1>4. TypeOK'
  BY <1>1, <1>2, <1>3 DEF TypeOK, SnapState, hub, truth, worker
<1>5. \A d \in Pages : stream'[d] # "off" <=> stream[d] # "off"
  BY <1>1 DEF TypeOK, SnapState, Move
<1> QED  BY <1>1, <1>4, <1>5 DEF HubInv, TypeOK, SendsSafe, Registered, SnapState, hub

LEMMA SnapLockHub ==
  ASSUME HubInv, NEW c \in Pages, SnapLock(c)
  PROVE  HubInv'
<1>1. TypeOK /\ SendsSafe /\ Registered
  BY DEF HubInv
<1>2. Drawn(page[c].shown) \in {"none", "staging", "running", "done", "error"}
  BY <1>1 DEF TypeOK, Drawn
<1>3. page' \in [Pages -> [lock  : {"", "stage", "analyze", "push"},
                           files : Listing, state : Nat,
                           shown : {"none", "staging", "running", "done", "error"}]]
  BY <1>1, <1>2 DEF TypeOK, SnapLock
<1>4. stream' \in [Pages -> {"off", "listing", "reading", "locking", "open"}]
  BY <1>1 DEF TypeOK, SnapLock, Move
<1>5. TypeOK'
  BY <1>1, <1>3, <1>4 DEF TypeOK, SnapLock, hub, truth, worker
<1>6. \A d \in Pages : stream'[d] # "off" <=> stream[d] # "off"
  BY <1>1 DEF TypeOK, SnapLock, Move
<1> QED  BY <1>1, <1>5, <1>6 DEF HubInv, TypeOK, SendsSafe, Registered, SnapLock, hub

LEMMA AppliedType ==
  ASSUME NEW e \in Events,
         NEW p \in [lock  : {"", "stage", "analyze", "push"}, files : Listing, state : Nat,
                    shown : {"none", "staging", "running", "done", "error"}]
  PROVE  Applied(p, e) \in [lock  : {"", "stage", "analyze", "push"}, files : Listing, state : Nat,
                            shown : {"none", "staging", "running", "done", "error"}]
<1>1. /\ e[1] \in {"lock", "job", "files", "state"}
      /\ e[1] = "lock" => e[2] \in {"", "stage", "analyze", "push"}
      /\ e[1] = "job" => e[2] \in {"running", "done", "error"}
      /\ e[1] = "files" => e[2] \in Listing
      /\ e[1] = "state" => e[2] \in Nat
  BY EventForms
<1>2. CASE e[1] = "files"
  BY <1>1, <1>2 DEF Applied
<1>3. CASE e[1] = "state"
  BY <1>1, <1>3 DEF Applied
<1>4. CASE e[1] = "job"
  BY <1>1, <1>4 DEF Applied
<1>5. CASE e[1] = "lock"
  BY <1>1, <1>5 DEF Applied
<1> QED  BY <1>1, <1>2, <1>3, <1>4, <1>5

LEMMA DeliverHub ==
  ASSUME HubInv, NEW c \in Pages, Deliver(c)
  PROVE  HubInv'
<1>1. TypeOK /\ SendsSafe /\ Registered
  BY DEF HubInv
<1>2. chan[c] \in Seq(Events) /\ chan[c] # << >> /\ Len(chan[c]) \in Nat
  <2>1. chan[c] \in Seq(Events) /\ chan[c] # << >>
    BY <1>1 DEF TypeOK, Deliver
  <2> QED  BY <2>1
<1>3. /\ Head(chan[c]) \in Events
      /\ Tail(chan[c]) \in Seq(Events)
      /\ Len(Tail(chan[c])) = Len(chan[c]) - 1
  BY <1>2, HeadTailProperties
<1>4. Applied(page[c], Head(chan[c])) \in
        [lock  : {"", "stage", "analyze", "push"}, files : Listing, state : Nat,
         shown : {"none", "staging", "running", "done", "error"}]
  BY <1>1, <1>3, AppliedType DEF TypeOK
<1>5. page' \in [Pages -> [lock  : {"", "stage", "analyze", "push"},
                           files : Listing, state : Nat,
                           shown : {"none", "staging", "running", "done", "error"}]]
  BY <1>1, <1>4 DEF TypeOK, Deliver
<1>6. chan' \in [Pages -> Seq(Events)]
  BY <1>1, <1>3 DEF TypeOK, Deliver
<1>7. TypeOK'
  BY <1>1, <1>5, <1>6 DEF TypeOK, Deliver, truth, worker
<1>8. \A d \in Pages : Len(chan'[d]) <= BufSize
  <2>1. \A d \in Pages : Len(chan[d]) <= BufSize
    BY <1>1 DEF SendsSafe
  <2>2. \A d \in Pages : chan'[d] = IF d = c THEN Tail(chan[c]) ELSE chan[d]
    BY <1>1 DEF TypeOK, Deliver
  <2>3. Len(Tail(chan[c])) <= BufSize
    <3>1. Len(chan[c]) <= BufSize
      BY <2>1
    <3> QED  BY <3>1, <1>2, <1>3, Bounds
  <2> QED  BY <2>1, <2>2, <2>3
<1> QED  BY <1>1, <1>7, <1>8 DEF HubInv, SendsSafe, Registered, Deliver

LEMMA LeaveHub ==
  ASSUME HubInv, NEW c \in Pages, Leave(c), drops' \in [Pages -> 0 .. MaxDrops]
  PROVE  HubInv'
<1>1. TypeOK /\ SendsSafe /\ Registered
  BY DEF HubInv
<1>2. stream' \in [Pages -> {"off", "listing", "reading", "locking", "open"}]
  BY <1>1 DEF TypeOK, Leave, Move
<1>3. TypeOK'
  BY <1>1, <1>2 DEF TypeOK, Leave, truth, worker
<1>4. \A d \in Pages : stream'[d] = IF d = c THEN "off" ELSE stream[d]
  BY <1>1 DEF TypeOK, Leave, Move
<1> QED  BY <1>1, <1>3, <1>4 DEF HubInv, TypeOK, SendsSafe, Registered, Leave

LEMMA HubStep == HubInv /\ [Next]_vars => HubInv'
<1> SUFFICES ASSUME HubInv, [Next]_vars PROVE HubInv'
  OBVIOUS
<1>1. ASSUME NEW w \in Workers, Work(w)
      PROVE  HubInv'
  BY <1>1, AcquireHub, BusyHub, CheckHub, ReleaseHub, ChangeHub, EmitHub, EmitJobHub, BroadcastHub
     DEF Work
<1>2. ASSUME NEW c \in Pages, Serve(c)
      PROVE  HubInv'
  <2>1. ASSUME EndEvicted(c)
        PROVE  HubInv'
    BY <2>1, LeaveHub DEF EndEvicted, HubInv, TypeOK
  <2> QED  BY <1>2, <2>1, ConnectHub, SnapFilesHub, SnapStateHub, SnapLockHub, DeliverHub DEF Serve
<1>3. ASSUME NEW c \in Pages, Drop(c)
      PROVE  HubInv'
  <2>1. drops' \in [Pages -> 0 .. MaxDrops]
    <3>1. drops \in [Pages -> 0 .. MaxDrops]
      BY DEF HubInv, TypeOK
    <3>2. drops[c] < MaxDrops /\ drops' = [drops EXCEPT ![c] = @ + 1]
      BY <1>3 DEF Drop
    <3>3. drops[c] + 1 \in 0 .. MaxDrops
      BY <3>1, <3>2, Bounds
    <3> QED  BY <3>1, <3>2, <3>3
  <2> QED  BY <1>3, <2>1, LeaveHub DEF Drop
<1>4. CASE UNCHANGED vars
  BY <1>4 DEF HubInv, TypeOK, SendsSafe, Registered, vars, hub, truth, worker, client
<1> QED  BY <1>1, <1>2, <1>3, <1>4 DEF Next

LEMMA HubAlways == Spec => []HubInv
  BY HubInit, HubStep, PTL DEF Spec

\* The hub, the streams and the pages keep to their types.
THEOREM TypeCorrect == Spec => []TypeOK
<1>1. HubInv => TypeOK
  BY DEF HubInv
<1> QED  BY <1>1, HubAlways, PTL

\* A broadcast only ever sends on an open channel with room, and only to a
\* stream that somebody reads, for any size of the buffer and any order of
\* connects, evictions and broken connections (events.go, broadcast, subscribe).
THEOREM SendsAlwaysSafe == Spec => []SendsSafe
<1>1. HubInv => SendsSafe
  BY DEF HubInv
<1> QED  BY <1>1, HubAlways, PTL

-----------------------------------------------------------------------------
\* What is left of a script

LEMMA RestFramed ==
  ASSUME NEW s \in Seq(Calls), NEW t \in Seq(Calls), s # << >>, Len(t) = Len(s) - 1,
         \A i \in 1 .. Len(s) - 1 : t[i] = s[i + 1], Framed(s)
  PROVE  /\ Framed(t)
         /\ \A x : Told(s, x) => Told(t, x)
         /\ \A x : Locked(s, x) => Locked(t, x)
<1>1. Len(s) \in Nat \ {0}
  OBVIOUS
<1>2. ASSUME NEW i \in 1 .. Len(t)
      PROVE  i + 1 \in 1 .. Len(s) /\ i + 1 # 1 /\ t[i] = s[i + 1] /\ t[Len(t)] = s[Len(s)]
             /\ (i + 1 = Len(s) => i = Len(t))
  <2>1. i + 1 \in 1 .. Len(s) /\ i \in 1 .. Len(s) - 1 /\ Len(s) - 1 \in 1 .. Len(s) - 1
    BY <1>1
  <2>2. (Len(s) - 1) + 1 = Len(s)
    BY <1>1
  <2> QED  BY <2>1, <2>2, <1>1
<1>3. Framed(t)
  BY <1>2 DEF Framed
<1>4. ASSUME NEW x, Told(s, x)
      PROVE  Told(t, x)
  <2>1. ASSUME NEW i \in 1 .. Len(t), t[i] = <<"change", x>>
        PROVE  \E j \in i + 1 .. Len(t) : t[j] = <<"emit", x>>
    <3>1. PICK k \in (i + 1) + 1 .. Len(s) : s[k] = <<"emit", x>>
      BY <1>2, <1>4, <2>1 DEF Told
    <3>2. k - 1 \in i + 1 .. Len(t) /\ (k - 1) + 1 = k /\ k - 1 \in 1 .. Len(s) - 1
      BY <1>1
    <3> QED  BY <3>1, <3>2
  <2> QED  BY <2>1 DEF Told
<1>5. ASSUME NEW x, Locked(s, x)
      PROVE  Locked(t, x)
  BY <1>2, <1>5 DEF Locked
<1> QED  BY <1>3, <1>4, <1>5

LEMMA RestHolds ==
  ASSUME NEW s \in Seq(Calls), NEW t \in Seq(Calls), s # << >>, Len(t) = Len(s) - 1,
         \A i \in 1 .. Len(s) - 1 : t[i] = s[i + 1], Framed(s),
         NEW op, NEW x, s[1] = <<op, x>>
  PROVE  /\ op \in {"change", "emit", "job"} => (Holding(t) <=> Holding(s))
         /\ op \in {"acquire", "check"} => ~Holding(s)
         /\ op = "acquire" => Holding(t)
         /\ op = "check" => ~Holding(t)
         /\ op = "release" => Holding(s) /\ ~Holding(t) /\ Len(s) = 1
         /\ \A y : Ahead(s, y) /\ s[1] # <<"emit", y>> => Ahead(t, y)
<1>1. Len(s) \in Nat \ {0} /\ Len(t) \in Nat
  OBVIOUS
<1>2. 1 \in 1 .. Len(s) /\ s[1][1] = op
  BY <1>1
<1>3. CASE Len(s) = 1
  <2>1. t = << >> /\ ~Holding(t)
    BY <1>3 DEF Holding
  <2>2. s[Len(s)][1] = op
    BY <1>3
  <2>3. op = "acquire" => FALSE
    BY <1>2, <2>2 DEF Framed
  <2>4. \A y : Ahead(s, y) => s[1] = <<"emit", y>>
    BY <1>3 DEF Ahead
  <2> QED  BY <1>2, <1>3, <2>1, <2>2, <2>3, <2>4 DEF Holding
<1>4. CASE Len(s) # 1
  <2>1. Len(t) \in 1 .. Len(s) - 1 /\ 1 \in 1 .. Len(s) - 1 /\ Len(t) + 1 = Len(s) /\ t # << >>
    BY <1>1, <1>4
  <2>2. t[1] = s[2] /\ t[Len(t)] = s[Len(s)] /\ 2 \in 1 .. Len(s)
    BY <2>1, <1>1, <1>4
  <2>3. t[1][1] \notin {"acquire", "check"}
    BY <2>2 DEF Framed
  <2>4. op # "release"
    BY <1>2, <1>4 DEF Framed
  <2>5. op = "acquire" => s[Len(s)][1] = "release"
    BY <1>2 DEF Framed
  <2>6. op = "check" => s[Len(s)][1] # "release"
    BY <1>2 DEF Framed
  <2>7. ASSUME NEW y, Ahead(s, y), s[1] # <<"emit", y>>
        PROVE  Ahead(t, y)
    <3>1. PICK i \in 1 .. Len(s) : s[i] = <<"emit", y>>
      BY <2>7 DEF Ahead
    <3>2. i - 1 \in 1 .. Len(t) /\ (i - 1) + 1 = i
      BY <3>1, <2>7, <1>1
    <3> QED  BY <3>1, <3>2 DEF Ahead
  <2> QED  BY <1>2, <2>1, <2>2, <2>3, <2>4, <2>5, <2>6, <2>7 DEF Holding
<1> QED  BY <1>3, <1>4

\* A guarded change or announcement is made inside, and a change is announced.
LEMMA GuardedCall ==
  ASSUME NEW s \in Seq(Calls), NEW t \in Seq(Calls), s # << >>, Len(t) = Len(s) - 1,
         \A i \in 1 .. Len(s) - 1 : t[i] = s[i + 1],
         NEW op \in {"change", "emit"}, NEW x, s[1] = <<op, x>>, Told(s, x), Locked(s, x)
  PROVE  Holding(s) /\ (op = "change" => Ahead(t, x))
<1>1. Len(s) \in Nat \ {0} /\ 1 \in 1 .. Len(s) /\ s[1][1] = op
  OBVIOUS
<1>2. Holding(s)
  BY <1>1 DEF Holding, Locked
<1>3. ASSUME op = "change"
      PROVE  Ahead(t, x)
  <2>1. PICK k \in 1 + 1 .. Len(s) : s[k] = <<"emit", x>>
    BY <1>1, <1>3 DEF Told
  <2>2. k - 1 \in 1 .. Len(t) /\ (k - 1) + 1 = k
    BY <1>1
  <2> QED  BY <2>1, <2>2 DEF Ahead
<1> QED  BY <1>2, <1>3

\* One call of a goroutine, seen from the scripts of all.
LEMMA CallDone ==
  ASSUME TypeOK, Scripted, NEW w \in Workers, NEW op, NEW x, At(w, op, x), Done(w)
  PROVE  /\ Scripted'
         /\ out[w] = None
         /\ \A v \in Workers : v # w => todo'[v] = todo[v] /\ (Inside(v)' <=> Inside(v))
         /\ op \in {"change", "emit", "job"} => (Inside(w)' <=> Inside(w))
         /\ op \in {"acquire", "check"} => ~Inside(w)
         /\ op = "acquire" => Inside(w)'
         /\ op = "check" => ~Inside(w)'
         /\ op = "release" => Inside(w) /\ ~Inside(w)' /\ Len(todo[w]) = 1
         /\ \A y : Ahead(todo[w], y) /\ <<op, x>> # <<"emit", y>> => Ahead(todo'[w], y)
         /\ op \in {"change", "emit"} /\ x \in Guarded => Inside(w)
         /\ op = "change" /\ x \in Guarded => Ahead(todo'[w], x)
<1> DEFINE s == todo[w]
           t == Tail(todo[w])
<1>1. /\ out[w] = None
      /\ s \in Seq(Calls) /\ s # << >> /\ s[1] = <<op, x>>
      /\ t \in Seq(Calls) /\ Len(t) = Len(s) - 1
      /\ \A i \in 1 .. Len(s) - 1 : t[i] = s[i + 1]
  <2>1. todo[w] \in Seq(Calls) /\ todo[w] # << >>
    BY DEF TypeOK, At
  <2> QED  BY <2>1, AtHead
<1>2. todo' = [todo EXCEPT ![w] = t] /\ todo \in [Workers -> Seq(Calls)]
  BY DEF Done, TypeOK
<1>3. todo'[w] = t /\ \A v \in Workers : v # w => todo'[v] = todo[v]
  BY <1>2
<1>4. /\ Framed(s)
      /\ \A y \in Guarded : Told(s, y) /\ Locked(s, y)
  BY DEF Scripted
<1> HIDE DEF s, t
<1>5. Framed(t) /\ \A y \in Guarded : Told(t, y) /\ Locked(t, y)
  BY <1>1, <1>4, RestFramed
<1>6. Scripted'
  BY <1>3, <1>5 DEF Scripted
<1>7. /\ op \in {"change", "emit", "job"} => (Holding(t) <=> Holding(s))
      /\ op \in {"acquire", "check"} => ~Holding(s)
      /\ op = "acquire" => Holding(t)
      /\ op = "check" => ~Holding(t)
      /\ op = "release" => Holding(s) /\ ~Holding(t) /\ Len(s) = 1
      /\ \A y : Ahead(s, y) /\ s[1] # <<"emit", y>> => Ahead(t, y)
  BY <1>1, <1>4, RestHolds
<1>8. op \in {"change", "emit"} /\ x \in Guarded =>
        Holding(s) /\ (op = "change" => Ahead(t, x))
  BY <1>1, <1>4, GuardedCall
<1>9. Inside(w) = Holding(s) /\ Inside(w)' = Holding(t)
  BY <1>3 DEF Inside, s
<1>10. \A v \in Workers : v # w => (Inside(v)' <=> Inside(v))
  BY <1>3 DEF Inside
<1>11. \A y : Ahead(todo[w], y) /\ <<op, x>> # <<"emit", y>> => Ahead(todo'[w], y)
  BY <1>1, <1>3, <1>7 DEF s
<1>12. Len(todo[w]) = Len(s)
  BY DEF s
<1> QED  BY <1>1, <1>3, <1>6, <1>7, <1>8, <1>9, <1>10, <1>11, <1>12

\* A goroutine that is turned away.
LEMMA CallRefused ==
  ASSUME TypeOK, Scripted, NEW w \in Workers, Busy(w)
  PROVE  /\ Scripted'
         /\ \A v \in Workers : Inside(v)' <=> Inside(v)
         /\ \A v \in Workers : v # w => todo'[v] = todo[v]
         /\ ~Inside(w)
<1>1. PICK op \in {"acquire", "check"}, x \in Subjects : At(w, op, x)
  BY DEF Busy, Subjects
<1>2. todo[w][1][1] \in {"acquire", "check"}
  BY <1>1, AtHead
<1>3. todo' = [todo EXCEPT ![w] = << >>] /\ todo \in [Workers -> Seq(Calls)]
  BY DEF Busy, Quit, TypeOK
<1>4. todo'[w] = << >> /\ \A v \in Workers : v # w => todo'[v] = todo[v]
  BY <1>3
<1>5. ~Inside(w) /\ ~Inside(w)'
  BY <1>2, <1>4 DEF Inside, Holding
<1>6. Framed(<< >>) /\ \A y : Told(<< >>, y) /\ Locked(<< >>, y)
  BY DEF Framed, Told, Locked
<1>7. Scripted'
  BY <1>4, <1>6 DEF Scripted
<1> QED  BY <1>4, <1>5, <1>7 DEF Inside

-----------------------------------------------------------------------------
\* What is left of a channel

LEMMA AppendSays ==
  ASSUME NEW s \in Seq(Events), NEW e \in Events, NEW x, NEW t, t = Append(s, e)
  PROVE  /\ e[1] = x => ~Silent(t, x) /\ \A v : LastSays(t, x, v) => v = e[2]
         /\ e[1] # x => /\ Silent(t, x) => Silent(s, x)
                        /\ \A v : LastSays(t, x, v) => LastSays(s, x, v)
<1>1. /\ Len(s) \in Nat /\ Len(t) = Len(s) + 1
      /\ \A i \in 1 .. Len(s) : t[i] = s[i]
      /\ t[Len(s) + 1] = e
  BY AppendProperties
<1>2. \A i \in 1 .. Len(s) : i \in 1 .. Len(t) /\ Len(t) \in i + 1 .. Len(t)
  BY <1>1
<1>3. Len(t) \in 1 .. Len(t) /\ t[Len(t)] = e
  BY <1>1
<1>4. \A i \in 1 .. Len(t) : i = Len(t) \/ i \in 1 .. Len(s)
  BY <1>1
<1>5. ASSUME e[1] = x
      PROVE  ~Silent(t, x) /\ \A v : LastSays(t, x, v) => v = e[2]
  <2>1. ~Silent(t, x)
    BY <1>3, <1>5 DEF Silent
  <2>2. ASSUME NEW v, LastSays(t, x, v)
        PROVE  v = e[2]
    <3>1. PICK i \in 1 .. Len(t) : t[i] = <<x, v>> /\ \A j \in i + 1 .. Len(t) : t[j][1] # x
      BY <2>2 DEF LastSays
    <3>2. i = Len(t)
      BY <3>1, <1>2, <1>3, <1>4, <1>5
    <3> QED  BY <3>1, <3>2, <1>3
  <2> QED  BY <2>1, <2>2
<1>6. ASSUME e[1] # x
      PROVE  /\ Silent(t, x) => Silent(s, x)
             /\ \A v : LastSays(t, x, v) => LastSays(s, x, v)
  <2>1. Silent(t, x) => Silent(s, x)
    BY <1>1, <1>2 DEF Silent
  <2>2. ASSUME NEW v, LastSays(t, x, v)
        PROVE  LastSays(s, x, v)
    <3>1. PICK i \in 1 .. Len(t) : t[i] = <<x, v>> /\ \A j \in i + 1 .. Len(t) : t[j][1] # x
      BY <2>2 DEF LastSays
    <3>2. i # Len(t)
      BY <3>1, <1>3, <1>6
    <3>3. i \in 1 .. Len(s) /\ s[i] = <<x, v>>
      BY <3>1, <3>2, <1>1, <1>4
    <3>4. \A j \in i + 1 .. Len(s) : j \in 1 .. Len(s) /\ j \in i + 1 .. Len(t)
      BY <3>3, <1>1
    <3> QED  BY <3>1, <3>3, <3>4, <1>1 DEF LastSays
  <2> QED  BY <2>1, <2>2
<1> QED  BY <1>5, <1>6

LEMMA TailSays ==
  ASSUME NEW s \in Seq(Events), s # << >>, NEW x
  PROVE  /\ \A v : LastSays(Tail(s), x, v) => LastSays(s, x, v)
         /\ Silent(Tail(s), x) /\ Head(s)[1] = x => LastSays(s, x, Head(s)[2])
         /\ Silent(Tail(s), x) /\ Head(s)[1] # x => Silent(s, x)
<1> DEFINE t == Tail(s)
<1>1. /\ Head(s) \in Events /\ Len(s) \in Nat \ {0}
      /\ Len(t) = Len(s) - 1
      /\ \A i \in 1 .. Len(t) : t[i] = s[i + 1]
  BY HeadTailProperties
<1>2. s[1] = Head(s) /\ s[1] = <<s[1][1], s[1][2]>>
  <2>1. s[1] = Head(s)
    OBVIOUS
  <2> QED  BY <2>1, <1>1, EventForms
<1> HIDE DEF t
<1>3. \A j \in 2 .. Len(s) : j - 1 \in 1 .. Len(t) /\ t[j - 1] = s[j]
  <2>1. ASSUME NEW j \in 2 .. Len(s)
        PROVE  j - 1 \in 1 .. Len(t) /\ (j - 1) + 1 = j
    BY <1>1
  <2> QED  BY <2>1, <1>1
<1>4. \A j \in 1 .. Len(s) : j = 1 \/ j \in 2 .. Len(s)
  BY <1>1
<1>5. ASSUME NEW v, LastSays(t, x, v)
      PROVE  LastSays(s, x, v)
  <2>1. PICK i \in 1 .. Len(t) : t[i] = <<x, v>> /\ \A j \in i + 1 .. Len(t) : t[j][1] # x
    BY <1>5 DEF LastSays
  <2>2. i + 1 \in 1 .. Len(s) /\ s[i + 1] = <<x, v>>
    BY <2>1, <1>1
  <2>3. ASSUME NEW j \in (i + 1) + 1 .. Len(s)
        PROVE  s[j][1] # x
    <3>1. j \in 2 .. Len(s) /\ j - 1 \in i + 1 .. Len(t)
      BY <1>1
    <3> QED  BY <3>1, <2>1, <1>3
  <2> QED  BY <2>2, <2>3 DEF LastSays
<1>6. ASSUME Silent(t, x), Head(s)[1] = x
      PROVE  LastSays(s, x, Head(s)[2])
  <2>1. 1 \in 1 .. Len(s) /\ s[1] = <<x, Head(s)[2]>>
    BY <1>1, <1>2, <1>6
  <2>2. \A j \in 1 + 1 .. Len(s) : s[j][1] # x
    BY <1>3, <1>6 DEF Silent
  <2> QED  BY <2>1, <2>2 DEF LastSays
<1>7. ASSUME Silent(t, x), Head(s)[1] # x
      PROVE  Silent(s, x)
  BY <1>2, <1>3, <1>4, <1>7 DEF Silent
<1> QED  BY <1>5, <1>6, <1>7 DEF t

-----------------------------------------------------------------------------
\* Steps of the goroutines

Inv == HubInv /\ PageInv

LEMMA TopicForms ==
  ASSUME NEW x \in Topics
  PROVE  x \in {"lock", "files", "state"} /\ (x = "lock" \/ x \in Guarded)
  BY DEF Topics, Guarded

LEMMA GuardedForms ==
  ASSUME NEW x \in Guarded
  PROVE  x \in {"files", "state"} /\ x \in Topics /\ x # "lock"
         /\ Truth(x) = (IF x = "files" THEN workspaceFiles(files) ELSE {state})
  BY DEF Topics, Guarded, Truth

\* What is pending stays so through a call that does not announce it.
LEMMA PendingStays ==
  ASSUME TypeOK, Scripted, NEW w \in Workers, NEW op, NEW y, At(w, op, y), Done(w),
         op \in {"acquire", "check", "change", "emit", "job", "release"},
         \A v \in Workers : v # w => out'[v] = out[v],
         NEW x, x = "lock" => op # "release", <<op, y>> # <<"emit", x>>,
         Pending(x)
  PROVE  Pending(x)'
<1>1. PICK v \in Workers : Says(v, x) \/ (Inside(v) /\ (x = "lock" \/ Ahead(todo[v], x)))
  BY DEF Pending
<1>2. CASE v # w
  <2>1. out'[v] = out[v] /\ todo'[v] = todo[v] /\ (Inside(v)' <=> Inside(v))
    BY <1>2, CallDone
  <2> QED  BY <1>1, <2>1 DEF Pending, Says
<1>3. CASE v = w
  <2>1. out[w] = None
    BY CallDone
  <2>2. Inside(w) /\ (x = "lock" \/ Ahead(todo[w], x))
    BY <1>1, <1>3, <2>1 DEF Says
  <2>3. op \in {"change", "emit", "job", "release"}
    BY <2>2, CallDone
  <2>4. op # "release"
    <3>1. ASSUME op = "release", Ahead(todo[w], x)
          PROVE  FALSE
      <4>1. Len(todo[w]) = 1 /\ todo[w][1] = <<op, y>>
        BY <3>1, CallDone, AtHead
      <4> QED  BY <3>1, <4>1 DEF Ahead
    <3> QED  BY <2>2, <3>1
  <2>5. Inside(w)' /\ (x = "lock" \/ Ahead(todo'[w], x))
    BY <2>2, <2>3, <2>4, CallDone
  <2> QED  BY <2>5 DEF Pending
<1> QED  BY <1>2, <1>3

\* A page that nothing happens to.
LEMMA PageStays ==
  ASSUME NEW c, NEW x,
         chan'[c] = chan[c], stream'[c] = stream[c], snap'[c] = snap[c], page'[c] = page[c],
         Truth(x)' = Truth(x), UpToDate(c, x)
  PROVE  UpToDate(c, x)'
<1>1. Taken(c, x)' <=> Taken(c, x)
  BY DEF Taken
<1>2. Held(c, x)' = Held(c, x)
  BY DEF Held
<1> QED  BY <1>1, <1>2 DEF UpToDate

LEMMA AcquirePage ==
  ASSUME Inv, NEW w \in Workers, NEW kind \in {"stage", "analyze", "push"}, Acquire(w, kind)
  PROVE  PageInv'
<1> USE DEF Inv, HubInv, PageInv
<1>1. TypeOK /\ Scripted /\ At(w, "acquire", kind) /\ Done(w)
  BY DEF Acquire
<1>2. /\ Scripted' /\ ~Inside(w) /\ Inside(w)' /\ out[w] = None
      /\ \A v \in Workers : v # w => (Inside(v)' <=> Inside(v))
  BY <1>1, CallDone
<1>3. /\ out'[w] = <<"lock", kind>>
      /\ \A v \in Workers : v # w => out'[v] = out[v]
  BY DEF TypeOK, Acquire, Tell
<1>4. \A v \in Workers : ~Inside(v)
  <2>1. lock = Free
    BY DEF Acquire, Free
  <2> QED  BY <2>1 DEF LockHeld
<1>5. lock' # Free
  <2>1. lock' = kind
    BY DEF Acquire
  <2>2. kind # Free
    BY DEF Free
  <2> QED  BY <2>1, <2>2
<1>6. LockHeld'
  BY <1>2, <1>4, <1>5 DEF LockHeld
<1>7. files' = files /\ state' = state
  BY DEF Acquire, truth
<1>8. SaysTrue'
  <2>1. ASSUME NEW v \in Workers, v # w
        PROVE  /\ Says(v, "lock")' => out'[v][2] = Free \/ Inside(v)'
               /\ \A x \in Guarded :
                    Says(v, x)' => Inside(v)' /\ out'[v][2] \in Truth(x)'
    <3>1. \A x \in Guarded : Truth(x)' = Truth(x)
      BY <1>7, GuardedForms DEF Truth
    <3> QED  BY <2>1, <3>1, <1>2, <1>3 DEF SaysTrue, Says
  <2>2. Inside(w)' /\ \A x \in Guarded : ~Says(w, x)'
    BY <1>2, <1>3, GuardedForms DEF Says
  <2> QED  BY <2>1, <2>2 DEF SaysTrue
<1>9. Announced'
  <2>1. ASSUME NEW c \in subs', NEW x \in Topics
        PROVE  Pending(x)' \/ UpToDate(c, x)'
    <3>1. CASE x = "lock"
      BY <1>2, <3>1 DEF Pending
    <3>2. CASE x \in Guarded
      <4>1. c \in subs /\ Truth(x)' = Truth(x)
        BY <1>7, <3>2, GuardedForms DEF Acquire, Truth
      <4>2. Pending(x) => Pending(x)'
        BY <1>1, <1>3, <3>2, PendingStays, GuardedForms
      <4>3. UpToDate(c, x) => UpToDate(c, x)'
        BY <4>1, PageStays DEF Acquire, client
      <4> QED  BY <4>1, <4>2, <4>3 DEF Announced
    <3> QED  BY <3>1, <3>2, TopicForms
  <2> QED  BY <2>1 DEF Announced
<1> QED  BY <1>2, <1>6, <1>8, <1>9

LEMMA BusyPage ==
  ASSUME Inv, NEW w \in Workers, Busy(w)
  PROVE  PageInv'
<1> USE DEF Inv, HubInv, PageInv
<1>1. /\ Scripted' /\ ~Inside(w)
      /\ \A v \in Workers : Inside(v)' <=> Inside(v)
      /\ \A v \in Workers : v # w => todo'[v] = todo[v]
  BY CallRefused
<1>2. UNCHANGED <<lock, subs, chan, files, state, out, stream, snap, page>>
  BY DEF Busy, hub, truth, client
<1>3. LockHeld'
  BY <1>1, <1>2 DEF LockHeld
<1>4. SaysTrue'
  BY <1>1, <1>2 DEF SaysTrue, Says, Truth
<1>5. ASSUME NEW c \in subs', NEW x \in Topics
      PROVE  Pending(x)' \/ UpToDate(c, x)'
  <2>1. Truth(x)' = Truth(x) /\ c \in subs
    BY <1>2 DEF Truth
  <2>2. UpToDate(c, x) => UpToDate(c, x)'
    BY <1>2, <2>1, PageStays
  <2>3. ASSUME Pending(x)
        PROVE  Pending(x)'
    <3>1. PICK v \in Workers : Says(v, x) \/ (Inside(v) /\ (x = "lock" \/ Ahead(todo[v], x)))
      BY <2>3 DEF Pending
    <3>2. CASE v = w
      BY <1>1, <1>2, <3>1, <3>2 DEF Pending, Says
    <3>3. CASE v # w
      BY <1>1, <1>2, <3>1, <3>3 DEF Pending, Says
    <3> QED  BY <3>2, <3>3
  <2> QED  BY <2>1, <2>2, <2>3 DEF Announced
<1>6. Announced'
  BY <1>5 DEF Announced
<1> QED  BY <1>1, <1>3, <1>4, <1>6

LEMMA CheckPage ==
  ASSUME Inv, NEW w \in Workers, Check(w)
  PROVE  PageInv'
<1> USE DEF Inv, HubInv, PageInv
<1>1. TypeOK /\ Scripted /\ At(w, "check", "state") /\ Done(w)
  BY DEF Check
<1>2. /\ Scripted'
      /\ \A v \in Workers : Inside(v)' <=> Inside(v)
  BY <1>1, CallDone
<1>3. UNCHANGED <<lock, subs, chan, files, state, out, stream, snap, page>>
  BY DEF Check, hub, truth, client
<1>4. LockHeld'
  BY <1>2, <1>3 DEF LockHeld
<1>5. SaysTrue'
  BY <1>2, <1>3 DEF SaysTrue, Says, Truth
<1>6. ASSUME NEW c \in subs', NEW x \in Topics
      PROVE  Pending(x)' \/ UpToDate(c, x)'
  <2>1. Truth(x)' = Truth(x) /\ c \in subs
    BY <1>3 DEF Truth
  <2>2. UpToDate(c, x) => UpToDate(c, x)'
    BY <1>3, <2>1, PageStays
  <2>3. Pending(x) => Pending(x)'
    BY <1>1, <1>3, PendingStays
  <2> QED  BY <2>1, <2>2, <2>3 DEF Announced
<1>7. Announced'
  BY <1>6 DEF Announced
<1> QED  BY <1>2, <1>4, <1>5, <1>7

LEMMA ReleasePage ==
  ASSUME Inv, NEW w \in Workers, Release(w)
  PROVE  PageInv'
<1> USE DEF Inv, HubInv, PageInv
<1>0. PICK kind : kind = lock
  OBVIOUS
<1>1. TypeOK /\ Scripted /\ At(w, "release", kind) /\ Done(w)
  BY <1>0 DEF Release
<1>2. /\ Scripted' /\ Inside(w) /\ ~Inside(w)' /\ out[w] = None
      /\ \A v \in Workers : v # w => (Inside(v)' <=> Inside(v))
  BY <1>1, CallDone
<1>3. /\ out'[w] = <<"lock", Free>>
      /\ \A v \in Workers : v # w => out'[v] = out[v]
  <2>1. out' = [out EXCEPT ![w] = <<"lock", Free>>]
    BY DEF Release, Tell, Free
  <2>2. out \in [Workers -> Events \cup {None}]
    BY DEF TypeOK
  <2> QED  BY <2>1, <2>2
<1>4. \A v \in Workers : ~Inside(v)'
  BY <1>2 DEF LockHeld
<1>5. lock' = Free /\ files' = files /\ state' = state
  BY DEF Release, truth, Free
<1>6. LockHeld'
  BY <1>4, <1>5 DEF LockHeld
<1>7. SaysTrue'
  <2>1. ASSUME NEW v \in Workers, v # w
        PROVE  /\ Says(v, "lock")' => out'[v][2] = Free \/ Inside(v)'
               /\ \A x \in Guarded :
                    Says(v, x)' => Inside(v)' /\ out'[v][2] \in Truth(x)'
    <3>1. \A x \in Guarded : Truth(x)' = Truth(x)
      BY <1>5, GuardedForms DEF Truth
    <3> QED  BY <2>1, <3>1, <1>2, <1>3 DEF SaysTrue, Says
  <2>2. out'[w][2] = Free /\ out'[w][1] = "lock"
    BY <1>3
  <2>3. \A x \in Guarded : ~Says(w, x)'
    BY <2>2, GuardedForms DEF Says
  <2> QED  BY <2>1, <2>2, <2>3 DEF SaysTrue
<1>8. <<"lock", Free>> # None
  BY EventKinds, NoneAssumption DEF Free
<1>9. Announced'
  <2>1. ASSUME NEW c \in subs', NEW x \in Topics
        PROVE  Pending(x)' \/ UpToDate(c, x)'
    <3>1. CASE x = "lock"
      <4>1. Says(w, "lock")'
        BY <1>3, <1>8 DEF Says
      <4> QED  BY <4>1, <3>1 DEF Pending
    <3>2. CASE x \in Guarded
      <4>1. c \in subs /\ Truth(x)' = Truth(x)
        BY <1>5, <3>2, GuardedForms DEF Release, Truth
      <4>2. Pending(x) => Pending(x)'
        BY <1>1, <1>3, <3>2, PendingStays, GuardedForms
      <4>3. UpToDate(c, x) => UpToDate(c, x)'
        BY <4>1, PageStays DEF Release, client
      <4> QED  BY <4>1, <4>2, <4>3 DEF Announced
    <3> QED  BY <3>1, <3>2, TopicForms
  <2> QED  BY <2>1 DEF Announced
<1> QED  BY <1>2, <1>6, <1>7, <1>9

LEMMA ChangePage ==
  ASSUME Inv, NEW w \in Workers, Change(w)
  PROVE  PageInv'
<1> USE DEF Inv, HubInv, PageInv
<1>1. PICK y \in {"files", "state"} :
        /\ At(w, "change", y)
        /\ y # "files" => files' = files
        /\ y # "state" => state' = state
  BY DEF Change
<1>2. TypeOK /\ Scripted /\ Done(w)
  BY DEF Change
<1>3. /\ Scripted' /\ out[w] = None
      /\ \A v \in Workers : Inside(v)' <=> Inside(v)
      /\ y \in Guarded => Inside(w) /\ Ahead(todo'[w], y)
  BY <1>1, <1>2, CallDone
<1>4. UNCHANGED <<lock, subs, chan, out, stream, snap, page>>
  BY DEF Change, hub, client
<1>5. LockHeld'
  BY <1>3, <1>4 DEF LockHeld
<1>6. ASSUME NEW v \in Workers, NEW x \in Guarded, Says(v, x)'
      PROVE  Inside(v)' /\ out'[v][2] \in Truth(x)'
  <2>1. Says(v, x) /\ Inside(v) /\ out[v][2] \in Truth(x)
    BY <1>4, <1>6 DEF Says, SaysTrue
  <2>2. x # y
    <3>1. SUFFICES ASSUME x = y PROVE FALSE
      OBVIOUS
    <3>2. Inside(w)
      BY <3>1, <1>3
    <3>3. v = w
      BY <3>2, <2>1 DEF LockHeld
    <3> QED  BY <3>3, <2>1, <1>3 DEF Says
  <2>3. x \in {"files", "state"}
    BY GuardedForms
  <2>4. Truth(x)' = Truth(x)
    BY <2>2, <2>3, <1>1 DEF Truth
  <2> QED  BY <2>1, <2>4, <1>3, <1>4
<1>7. \A v \in Workers : Says(v, "lock")' => out'[v][2] = Free \/ Inside(v)'
  BY <1>3, <1>4 DEF Says, SaysTrue
<1>8. SaysTrue'
  BY <1>6, <1>7 DEF SaysTrue
<1>9. ASSUME NEW c \in subs', NEW x \in Topics
      PROVE  Pending(x)' \/ UpToDate(c, x)'
  <2>1. CASE x = y
    <3>1. x \in Guarded
      BY <1>1, <2>1, TopicForms
    <3> QED  BY <3>1, <2>1, <1>3 DEF Pending
  <2>2. CASE x # y
    <3>1. Truth(x)' = Truth(x) /\ c \in subs
      BY <2>2, <1>1, <1>4, TopicForms DEF Truth
    <3>2. UpToDate(c, x) => UpToDate(c, x)'
      BY <1>4, <3>1, PageStays
    <3>3. Pending(x) => Pending(x)'
      BY <1>1, <1>2, <1>4, PendingStays
    <3> QED  BY <3>1, <3>2, <3>3 DEF Announced
  <2> QED  BY <2>1, <2>2
<1>10. Announced'
  BY <1>9 DEF Announced
<1> QED  BY <1>3, <1>5, <1>8, <1>10

LEMMA EmitPage ==
  ASSUME Inv, NEW w \in Workers, Emit(w)
  PROVE  PageInv'
<1> USE DEF Inv, HubInv, PageInv
<1>1. PICK y \in {"files", "state"} :
        At(w, "emit", y) /\ \E said \in Truth(y) : Tell(w, y, said)
  BY DEF Emit, Truth
<1>2. TypeOK /\ Scripted /\ Done(w)
  BY DEF Emit
<1>3. /\ Scripted' /\ out[w] = None
      /\ \A v \in Workers : Inside(v)' <=> Inside(v)
      /\ y \in Guarded => Inside(w)
  BY <1>1, <1>2, CallDone
<1>4. UNCHANGED <<lock, files, state, subs, chan, stream, snap, page>>
  BY DEF Emit, hub, truth, client
<1>5. PICK said \in Truth(y) :
        /\ out'[w] = <<y, said>>
        /\ \A v \in Workers : v # w => out'[v] = out[v]
  <2>1. out \in [Workers -> Events \cup {None}]
    BY DEF TypeOK
  <2> QED  BY <1>1, <2>1 DEF Tell
<1>6. out'[w] # None
  <2>1. files \in Nat /\ state \in Nat
    BY DEF TypeOK
  <2>2. y = "files" => said \in Listing
    BY <2>1, ListingForms DEF Truth
  <2>3. y = "state" => said \in Nat
    BY <2>1 DEF Truth
  <2>4. <<y, said>> \in Events
    BY <1>1, <2>2, <2>3, EventKinds
  <2> QED  BY <2>4, <1>5, NoneAssumption
<1>7. LockHeld'
  BY <1>3, <1>4 DEF LockHeld
<1>8. ASSUME NEW v \in Workers
      PROVE  /\ Says(v, "lock")' => out'[v][2] = Free \/ Inside(v)'
             /\ \A x \in Guarded :
                  Says(v, x)' => Inside(v)' /\ out'[v][2] \in Truth(x)'
  <2>1. CASE v # w
    BY <2>1, <1>3, <1>4, <1>5 DEF SaysTrue, Says, Truth
  <2>2. CASE v = w
    <3>0. Truth(y)' = Truth(y)
      BY <1>4 DEF Truth
    <3>1. out'[w][1] = y /\ out'[w][2] \in Truth(y)'
      BY <3>0, <1>5
    <3>2. ~Says(w, "lock")'
      BY <3>1 DEF Says
    <3>3. \A x \in Guarded : Says(w, x)' => x = y
      BY <3>1 DEF Says
    <3> QED  BY <2>2, <3>1, <3>2, <3>3, <1>3
  <2> QED  BY <2>1, <2>2
<1>9. SaysTrue'
  BY <1>8 DEF SaysTrue
<1>10. ASSUME NEW c \in subs', NEW x \in Topics
       PROVE  Pending(x)' \/ UpToDate(c, x)'
  <2>1. CASE x = y
    <3>1. Says(w, x)'
      BY <2>1, <1>5, <1>6 DEF Says
    <3> QED  BY <3>1 DEF Pending
  <2>2. CASE x # y
    <3>1. Truth(x)' = Truth(x) /\ c \in subs
      BY <1>4 DEF Truth
    <3>2. UpToDate(c, x) => UpToDate(c, x)'
      BY <1>4, <3>1, PageStays
    <3>3. <<"emit", y>> # <<"emit", x>>
      BY <2>2
    <3>4. Pending(x) => Pending(x)'
      BY <1>1, <1>2, <1>5, <3>3, PendingStays
    <3> QED  BY <3>1, <3>2, <3>4 DEF Announced
  <2> QED  BY <2>1, <2>2
<1>11. Announced'
  BY <1>10 DEF Announced
<1> QED  BY <1>3, <1>7, <1>9, <1>11

LEMMA EmitJobPage ==
  ASSUME Inv, NEW w \in Workers, NEW status \in {"running", "bytes", "done", "error"},
         EmitJob(w, status)
  PROVE  PageInv'
<1> USE DEF Inv, HubInv, PageInv
<1>1. TypeOK /\ Scripted /\ At(w, "job", status) /\ Done(w)
  BY DEF EmitJob
<1>2. /\ Scripted' /\ out[w] = None
      /\ \A v \in Workers : Inside(v)' <=> Inside(v)
  BY <1>1, CallDone
<1>3. UNCHANGED <<lock, files, state, subs, chan, stream, snap, page>>
  BY DEF EmitJob, truth, client
<1>4. /\ out'[w] = out[w] \/ out'[w] = <<"job", job'>>
      /\ \A v \in Workers : v # w => out'[v] = out[v]
  <2>1. out \in [Workers -> Events \cup {None}]
    BY DEF TypeOK
  <2> QED  BY <2>1 DEF EmitJob, Tell
<1>5. LockHeld'
  BY <1>2, <1>3 DEF LockHeld
<1>6. ASSUME NEW v \in Workers
      PROVE  /\ Says(v, "lock")' => out'[v][2] = Free \/ Inside(v)'
             /\ \A x \in Guarded :
                  Says(v, x)' => Inside(v)' /\ out'[v][2] \in Truth(x)'
  <2>1. CASE v # w
    BY <2>1, <1>2, <1>3, <1>4 DEF SaysTrue, Says, Truth
  <2>2. CASE v = w
    <3>1. \A x : Says(w, x)' => x = "job"
      BY <1>2, <1>4 DEF Says
    <3>2. \A x \in Guarded : x # "job"
      BY GuardedForms
    <3> QED  BY <2>2, <3>1, <3>2
  <2> QED  BY <2>1, <2>2
<1>7. SaysTrue'
  BY <1>6 DEF SaysTrue
<1>8. ASSUME NEW c \in subs', NEW x \in Topics
      PROVE  Pending(x)' \/ UpToDate(c, x)'
  <2>1. Truth(x)' = Truth(x) /\ c \in subs
    BY <1>3 DEF Truth
  <2>2. UpToDate(c, x) => UpToDate(c, x)'
    BY <1>3, <2>1, PageStays
  <2>3. Pending(x) => Pending(x)'
    BY <1>1, <1>4, PendingStays
  <2> QED  BY <2>1, <2>2, <2>3 DEF Announced
<1>9. Announced'
  BY <1>8 DEF Announced
<1> QED  BY <1>2, <1>5, <1>7, <1>9

LEMMA BroadcastPage ==
  ASSUME Inv, NEW w \in Workers, Broadcast(w)
  PROVE  PageInv'
<1> USE DEF Inv, HubInv, PageInv
<1> DEFINE e == out[w]
<1>1. TypeOK /\ e \in Events /\ e # None
  BY DEF Broadcast, TypeOK
<1>2. /\ e = <<e[1], e[2]>>
      /\ e[1] \in {"lock", "job", "files", "state"}
  BY <1>1, EventForms
<1>3. UNCHANGED <<lock, files, state, todo, stream, snap, page>>
  BY DEF Broadcast, truth, client
<1>4. out'[w] = None /\ \A v \in Workers : v # w => out'[v] = out[v]
  BY <1>1 DEF TypeOK, Broadcast
<1>5. \A v \in Workers : (Inside(v)' <=> Inside(v)) /\ todo'[v] = todo[v]
  BY <1>3 DEF Inside
<1>6. Scripted' /\ LockHeld'
  BY <1>3, <1>5 DEF Scripted, LockHeld
<1>7. SaysTrue'
  BY <1>3, <1>4, <1>5 DEF SaysTrue, Says, Truth
<1>8. ASSUME NEW c \in subs'
      PROVE  c \in subs /\ c \in Pages /\ chan'[c] = Append(chan[c], e) /\ chan[c] \in Seq(Events)
  BY <1>1, <1>8 DEF TypeOK, Broadcast
<1> HIDE DEF e
<1>9. ASSUME NEW c \in subs', NEW x \in Topics
      PROVE  Pending(x)' \/ UpToDate(c, x)'
  <2>1. /\ c \in subs /\ chan'[c] = Append(chan[c], e) /\ chan[c] \in Seq(Events)
        /\ Truth(x)' = Truth(x)
    BY <1>3, <1>8 DEF Truth
  <2>2. /\ Taken(c, x)' <=> Taken(c, x)
        /\ Held(c, x)' = Held(c, x)
    BY <1>3 DEF Taken, Held
  <2>3. CASE e[1] # x
    <3>1. /\ Silent(chan'[c], x) => Silent(chan[c], x)
          /\ \A v : LastSays(chan'[c], x, v) => LastSays(chan[c], x, v)
      BY <2>1, <2>3, <1>1, AppendSays
    <3>2. UpToDate(c, x) => UpToDate(c, x)'
      BY <3>1, <2>1, <2>2 DEF UpToDate
    <3>3. ASSUME Pending(x)
          PROVE  Pending(x)'
      <4>1. PICK v \in Workers : Says(v, x) \/ (Inside(v) /\ (x = "lock" \/ Ahead(todo[v], x)))
        BY <3>3 DEF Pending
      <4>2. ASSUME Says(v, x)
            PROVE  Says(v, x)'
        <5>1. v # w
          BY <4>2, <2>3 DEF Says, e
        <5> QED  BY <4>2, <5>1, <1>4 DEF Says
      <4> QED  BY <4>1, <4>2, <1>5 DEF Pending
    <3> QED  BY <2>1, <3>2, <3>3 DEF Announced
  <2>4. CASE e[1] = x
    <3>1. ~Silent(chan'[c], x) /\ \A v : LastSays(chan'[c], x, v) => v = e[2]
      BY <2>1, <2>4, <1>1, AppendSays
    <3>2. Says(w, x)
      BY <2>4, <1>1 DEF Says, e
    <3>3. CASE x = "lock"
      <4>1. CASE \E v \in Workers : Inside(v)
        BY <4>1, <3>3, <1>5 DEF Pending
      <4>2. CASE ~(\E v \in Workers : Inside(v))
        <5>1. lock = Free
          BY <4>2 DEF LockHeld
        <5>2. e[2] = Free
          BY <3>2, <3>3, <4>2 DEF SaysTrue, e
        <5>3. Truth(x)' = {Free}
          BY <2>1, <3>3, <5>1 DEF Truth
        <5> QED  BY <3>1, <5>2, <5>3 DEF UpToDate
      <4> QED  BY <4>1, <4>2
    <3>4. CASE x \in Guarded
      <4>1. e[2] \in Truth(x)
        BY <3>2, <3>4, GuardedForms DEF SaysTrue, e
      <4> QED  BY <3>1, <4>1, <2>1 DEF UpToDate
    <3> QED  BY <3>3, <3>4, TopicForms
  <2> QED  BY <2>3, <2>4
<1>10. Announced'
  BY <1>9 DEF Announced
<1> QED  BY <1>6, <1>7, <1>10

-----------------------------------------------------------------------------
\* Steps of the streams

\* The goroutines stand still.
LEMMA WorkersStay ==
  ASSUME PageInv, UNCHANGED <<lock, files, state, todo, out>>
  PROVE  /\ Scripted' /\ LockHeld' /\ SaysTrue'
         /\ \A x \in Topics : Truth(x)' = Truth(x) /\ (Pending(x)' <=> Pending(x))
<1>1. \A v \in Workers : Inside(v)' <=> Inside(v)
  BY DEF Inside
<1>2. \A v \in Workers, x \in Topics : Says(v, x)' <=> Says(v, x)
  BY DEF Says
<1>3. Scripted' /\ LockHeld'
  BY <1>1 DEF PageInv, Scripted, LockHeld
<1>4. SaysTrue'
  BY <1>1 DEF PageInv, SaysTrue, Says, Truth
<1>5. \A x \in Topics : Truth(x)' = Truth(x)
  BY DEF Truth
<1>6. \A x \in Topics : Pending(x)' <=> Pending(x)
  BY <1>1, <1>2 DEF Pending
<1> QED  BY <1>3, <1>4, <1>5, <1>6

\* A step of the stream of c: the others stay as they are.
LEMMA OneStream ==
  ASSUME Inv, NEW c \in Pages, UNCHANGED <<lock, files, state, todo, out>>,
         subs' \subseteq subs \cup {c},
         \A d \in Pages : d # c => /\ chan'[d] = chan[d] /\ stream'[d] = stream[d]
                                   /\ snap'[d] = snap[d] /\ page'[d] = page[d],
         c \in subs' => \A x \in Topics : (c \notin subs \/ Pending(x) \/ UpToDate(c, x)) =>
                          Pending(x)' \/ UpToDate(c, x)'
  PROVE  PageInv'
<1> USE DEF Inv, HubInv, PageInv
<1>1. /\ Scripted' /\ LockHeld' /\ SaysTrue'
      /\ \A x \in Topics : Truth(x)' = Truth(x) /\ (Pending(x)' <=> Pending(x))
  BY WorkersStay
<1>2. ASSUME NEW d \in subs', NEW x \in Topics
      PROVE  Pending(x)' \/ UpToDate(d, x)'
  <2>1. CASE d = c
    BY <2>1, <1>2 DEF Announced
  <2>2. CASE d # c
    <3>1. d \in subs /\ d \in Pages
      BY <2>2, <1>2 DEF TypeOK
    <3>2. UpToDate(d, x) => UpToDate(d, x)'
      BY <2>2, <3>1, <1>1, PageStays
    <3> QED  BY <3>1, <3>2, <1>1 DEF Announced
  <2> QED  BY <2>1, <2>2
<1> QED  BY <1>1, <1>2 DEF Announced

LEMMA ConnectPage ==
  ASSUME Inv, NEW c \in Pages, Connect(c)
  PROVE  PageInv'
<1>1. TypeOK
  BY DEF Inv, HubInv
<1>2. /\ chan'[c] = << >> /\ stream'[c] = "listing"
      /\ \A d \in Pages : d # c => chan'[d] = chan[d] /\ stream'[d] = stream[d]
  BY <1>1 DEF TypeOK, Connect, Move
<1>3. ASSUME NEW x \in Topics
      PROVE  UpToDate(c, x)'
  <2>1. \A v : ~LastSays(<< >>, x, v)
    BY DEF LastSays
  <2>2. ~Taken(c, x)'
    BY <1>2 DEF Taken
  <2> QED  BY <1>2, <2>1, <2>2 DEF UpToDate
<1> QED  BY <1>2, <1>3, OneStream DEF Connect, truth, worker

LEMMA SnapFilesPage ==
  ASSUME Inv, NEW c \in Pages, SnapFiles(c)
  PROVE  PageInv'
<1>1. TypeOK
  BY DEF Inv, HubInv
<1>2. /\ stream[c] = "listing" /\ stream'[c] = "reading" /\ snap'[c].files \in workspaceFiles(files)
      /\ chan' = chan /\ subs' = subs /\ files' = files
      /\ \A d \in Pages : d # c => snap'[d] = snap[d] /\ stream'[d] = stream[d]
  <2>1. /\ snap \in [Pages -> [files : Listing, state : Nat]]
        /\ stream \in [Pages -> {"off", "listing", "reading", "locking", "open"}]
    BY <1>1 DEF TypeOK
  <2>2. /\ stream[c] = "listing" /\ stream' = [stream EXCEPT ![c] = "reading"]
        /\ \E found \in workspaceFiles(files) : snap' = [snap EXCEPT ![c].files = found]
        /\ chan' = chan /\ subs' = subs /\ files' = files
    BY DEF SnapFiles, Move, hub, truth
  <2> QED  BY <2>1, <2>2
<1>3. UNCHANGED <<lock, files, state, todo, out>>
  BY DEF SnapFiles, hub, truth, worker
<1>4. ASSUME NEW x \in Topics, Pending(x) \/ UpToDate(c, x)
      PROVE  Pending(x)' \/ UpToDate(c, x)'
  <2>1. Truth(x)' = Truth(x) /\ (Pending(x)' <=> Pending(x))
    BY <1>3, WorkersStay DEF Inv
  <2>2. Taken(c, x)' => x = "files"
    BY <1>2 DEF Taken
  <2>3. x = "files" => Held(c, x)' \in Truth(x)'
    BY <1>2 DEF Held, Truth
  <2> QED  BY <1>2, <1>4, <2>1, <2>2, <2>3 DEF UpToDate
<1> QED  BY <1>2, <1>3, <1>4, OneStream DEF SnapFiles

LEMMA SnapStatePage ==
  ASSUME Inv, NEW c \in Pages, SnapState(c)
  PROVE  PageInv'
<1>1. TypeOK
  BY DEF Inv, HubInv
<1>2. /\ stream[c] = "reading" /\ stream'[c] = "locking"
      /\ snap'[c].state = state /\ snap'[c].files = snap[c].files
      /\ chan' = chan /\ subs' = subs /\ state' = state
      /\ \A d \in Pages : d # c => snap'[d] = snap[d] /\ stream'[d] = stream[d]
  <2>1. /\ snap \in [Pages -> [files : Listing, state : Nat]]
        /\ stream \in [Pages -> {"off", "listing", "reading", "locking", "open"}]
    BY <1>1 DEF TypeOK
  <2>2. /\ stream[c] = "reading" /\ stream' = [stream EXCEPT ![c] = "locking"]
        /\ snap' = [snap EXCEPT ![c].state = state]
        /\ chan' = chan /\ subs' = subs /\ state' = state
    BY DEF SnapState, Move, hub, truth
  <2> QED  BY <2>1, <2>2
<1>3. UNCHANGED <<lock, files, state, todo, out>>
  BY DEF SnapState, hub, truth, worker
<1>4. ASSUME NEW x \in Topics, Pending(x) \/ UpToDate(c, x)
      PROVE  Pending(x)' \/ UpToDate(c, x)'
  <2>1. Truth(x)' = Truth(x) /\ (Pending(x)' <=> Pending(x))
    BY <1>3, WorkersStay DEF Inv
  <2>2. Taken(c, x)' => x \in {"files", "state"}
    BY <1>2, TopicForms DEF Taken
  <2>3. x = "state" => Held(c, x)' \in Truth(x)'
    BY <1>2 DEF Held, Truth
  <2>4. x = "files" => Taken(c, x) /\ Held(c, x)' = Held(c, x)
    BY <1>2 DEF Held, Taken
  <2> QED  BY <1>2, <1>4, <2>1, <2>2, <2>3, <2>4 DEF UpToDate
<1> QED  BY <1>2, <1>3, <1>4, OneStream DEF SnapState

LEMMA SnapLockPage ==
  ASSUME Inv, NEW c \in Pages, SnapLock(c)
  PROVE  PageInv'
<1>1. TypeOK
  BY DEF Inv, HubInv
<1>2. /\ stream[c] = "locking" /\ stream'[c] = "open"
      /\ chan' = chan /\ subs' = subs /\ lock' = lock
      /\ \A d \in Pages : d # c => page'[d] = page[d] /\ stream'[d] = stream[d]
  BY <1>1 DEF TypeOK, SnapLock, Move, hub
<1>3. /\ page'[c].lock = lock
      /\ page'[c].files = snap[c].files
      /\ page'[c].state = snap[c].state
  BY <1>1 DEF TypeOK, SnapLock
<1>4. UNCHANGED <<lock, files, state, todo, out>>
  BY DEF SnapLock, hub, truth, worker
<1>5. ASSUME NEW x \in Topics, Pending(x) \/ UpToDate(c, x)
      PROVE  Pending(x)' \/ UpToDate(c, x)'
  <2>1. Truth(x)' = Truth(x) /\ (Pending(x)' <=> Pending(x))
    BY <1>4, WorkersStay DEF Inv
  <2>2. x = "lock" => Held(c, x)' \in Truth(x)'
    BY <1>2, <1>3 DEF Held, Truth
  <2>3. x # "lock" => Taken(c, x) /\ Held(c, x)' = Held(c, x)
    BY <1>2, <1>3 DEF Held, Taken
  <2> QED  BY <1>2, <1>5, <2>1, <2>2, <2>3 DEF UpToDate
<1> QED  BY <1>2, <1>4, <1>5, OneStream DEF SnapLock

\* What an event says of its topic is what the page then shows.
LEMMA AppliedShows ==
  ASSUME NEW e \in Events,
         NEW p \in [lock  : {"", "stage", "analyze", "push"}, files : Listing, state : Nat,
                    shown : {"none", "staging", "running", "done", "error"}]
  PROVE  /\ Applied(p, e).lock = IF e[1] = "lock" THEN e[2] ELSE p.lock
         /\ Applied(p, e).files = IF e[1] = "files" THEN e[2] ELSE p.files
         /\ Applied(p, e).state = IF e[1] = "state" THEN e[2] ELSE p.state
<1>1. e[1] \in {"lock", "job", "files", "state"}
  BY EventForms
<1>2. CASE e[1] = "files"
  BY <1>2 DEF Applied
<1>3. CASE e[1] = "state"
  BY <1>3 DEF Applied
<1>4. CASE e[1] = "job"
  BY <1>4 DEF Applied
<1>5. CASE e[1] = "lock"
  BY <1>5 DEF Applied
<1> QED  BY <1>1, <1>2, <1>3, <1>4, <1>5

LEMMA DeliverPage ==
  ASSUME Inv, NEW c \in Pages, Deliver(c)
  PROVE  PageInv'
<1> DEFINE s == chan[c]
           e == Head(chan[c])
<1>1. TypeOK
  BY DEF Inv, HubInv
<1>2. s \in Seq(Events) /\ s # << >> /\ stream[c] = "open"
  BY <1>1 DEF TypeOK, Deliver
<1>3. e \in Events
  BY <1>2, HeadTailProperties
<1>4. /\ chan'[c] = Tail(s) /\ page'[c] = Applied(page[c], e)
      /\ stream' = stream /\ snap' = snap /\ subs' = subs
      /\ \A d \in Pages : d # c => chan'[d] = chan[d] /\ page'[d] = page[d]
  BY <1>1 DEF TypeOK, Deliver
<1>5. UNCHANGED <<lock, files, state, todo, out>>
  BY DEF Deliver, truth, worker
<1>6. page[c] \in [lock  : {"", "stage", "analyze", "push"}, files : Listing, state : Nat,
                   shown : {"none", "staging", "running", "done", "error"}]
  BY <1>1 DEF TypeOK
<1> HIDE DEF e
<1>7. /\ page'[c].lock = IF e[1] = "lock" THEN e[2] ELSE page[c].lock
      /\ page'[c].files = IF e[1] = "files" THEN e[2] ELSE page[c].files
      /\ page'[c].state = IF e[1] = "state" THEN e[2] ELSE page[c].state
  <2> DEFINE q == Applied(page[c], e)
  <2>1. /\ q.lock = IF e[1] = "lock" THEN e[2] ELSE page[c].lock
        /\ q.files = IF e[1] = "files" THEN e[2] ELSE page[c].files
        /\ q.state = IF e[1] = "state" THEN e[2] ELSE page[c].state
    BY <1>3, <1>6, AppliedShows
  <2>2. page'[c] = q
    BY <1>4
  <2> HIDE DEF q
  <2> QED  BY <2>1, <2>2
<1>8. ASSUME NEW x \in Topics, Pending(x) \/ UpToDate(c, x)
      PROVE  Pending(x)' \/ UpToDate(c, x)'
  <2>1. Truth(x)' = Truth(x) /\ (Pending(x)' <=> Pending(x))
    BY <1>5, WorkersStay DEF Inv
  <2>2. /\ \A v : LastSays(Tail(s), x, v) => LastSays(s, x, v)
        /\ Silent(Tail(s), x) /\ e[1] = x => LastSays(s, x, e[2])
        /\ Silent(Tail(s), x) /\ e[1] # x => Silent(s, x)
    BY <1>2, TailSays DEF e
  <2>3. Held(c, x)' = IF e[1] = x THEN e[2] ELSE Held(c, x)
    <3>1. x \in {"lock", "files", "state"}
      BY TopicForms
    <3>2. stream'[c] = "open" /\ stream[c] = "open"
      BY <1>2, <1>4
    <3>3. CASE x = "lock"
      BY <3>2, <3>3, <1>7 DEF Held
    <3>4. CASE x = "files"
      BY <3>2, <3>4, <1>7 DEF Held
    <3>5. CASE x = "state"
      BY <3>2, <3>5, <1>7 DEF Held
    <3> QED  BY <3>1, <3>3, <3>4, <3>5
  <2>4. Taken(c, x)
    BY <1>2 DEF Taken
  <2>5. ASSUME UpToDate(c, x)
        PROVE  UpToDate(c, x)'
    BY <2>1, <2>2, <2>3, <2>4, <2>5, <1>4 DEF UpToDate
  <2> QED  BY <1>8, <2>1, <2>5
<1> QED  BY <1>4, <1>5, <1>8, OneStream DEF Inv, HubInv, TypeOK

LEMMA LeavePage ==
  ASSUME Inv, NEW c \in Pages, Leave(c)
  PROVE  PageInv'
<1>1. TypeOK
  BY DEF Inv, HubInv
<1>2. /\ subs' = subs \ {c}
      /\ UNCHANGED <<lock, files, state, todo, out, chan, snap, page>>
      /\ \A d \in Pages : d # c => stream'[d] = stream[d]
  BY <1>1 DEF TypeOK, Leave, Move, truth, worker
<1> QED  BY <1>2, OneStream

-----------------------------------------------------------------------------
\* What the pages show

LEMMA PageInit == Init => PageInv
<1> SUFFICES ASSUME Init PROVE PageInv
  OBVIOUS
<1>1. \A w \in Workers : todo[w] \in Scripts /\ out[w] = None
  BY DEF Init
<1>2. Scripted
  BY <1>1, ScriptsGood DEF Scripted
<1>3. ASSUME NEW w \in Workers
      PROVE  ~Inside(w)
  BY <1>1, ScriptsGood DEF Inside
<1>4. lock = Free /\ subs = {}
  BY DEF Init, Free
<1>5. LockHeld
  BY <1>3, <1>4 DEF LockHeld
<1>6. SaysTrue
  BY <1>1 DEF SaysTrue, Says
<1>7. Announced
  BY <1>4 DEF Announced
<1> QED  BY <1>2, <1>5, <1>6, <1>7 DEF PageInv

LEMMA PageStep == Inv /\ [Next]_vars => PageInv'
<1> SUFFICES ASSUME Inv, [Next]_vars PROVE PageInv'
  OBVIOUS
<1>1. ASSUME NEW w \in Workers, Work(w)
      PROVE  PageInv'
  BY <1>1, AcquirePage, BusyPage, CheckPage, ReleasePage, ChangePage, EmitPage, EmitJobPage,
     BroadcastPage DEF Work
<1>2. ASSUME NEW c \in Pages, Serve(c)
      PROVE  PageInv'
  <2>1. EndEvicted(c) => Leave(c)
    BY DEF EndEvicted
  <2> QED  BY <1>2, <2>1, ConnectPage, SnapFilesPage, SnapStatePage, SnapLockPage, DeliverPage,
           LeavePage DEF Serve
<1>3. ASSUME NEW c \in Pages, Drop(c)
      PROVE  PageInv'
  BY <1>3, LeavePage DEF Drop
<1>4. CASE UNCHANGED vars
  <2>1. UNCHANGED <<lock, subs, chan, files, state, todo, out, stream, snap, page>>
    BY <1>4 DEF vars, hub, truth, worker, client
  <2>2. /\ Scripted' /\ LockHeld' /\ SaysTrue'
        /\ \A x \in Topics : Truth(x)' = Truth(x) /\ (Pending(x)' <=> Pending(x))
    BY <2>1, WorkersStay DEF Inv
  <2>3. \A c \in subs, x \in Topics : UpToDate(c, x) => UpToDate(c, x)'
    BY <2>1, <2>2, PageStays
  <2> QED  BY <2>1, <2>2, <2>3 DEF Inv, PageInv, Announced
<1> QED  BY <1>1, <1>2, <1>3, <1>4 DEF Next

LEMMA InvAlways == Spec => []Inv
<1>1. Init => Inv
  BY HubInit, PageInit DEF Inv
<1>2. Inv /\ [Next]_vars => Inv'
  BY HubStep, PageStep DEF Inv
<1> QED  BY <1>1, <1>2, PTL DEF Spec

\* A page that has caught up has nothing to wait for.
LEMMA SettledShows ==
  ASSUME Inv, NEW c \in Pages, Settled(c), NEW x \in Topics
  PROVE  Held(c, x) \in Truth(x) /\ stream[c] = "open"
<1>1. /\ stream[c] = "open" /\ c \notin closed /\ chan[c] = << >>
      /\ \A w \in Workers : todo[w] = << >> /\ out[w] = None
  BY DEF Settled, Quiet
<1>2. c \in subs
  BY <1>1 DEF Inv, HubInv, Registered
<1>3. ~Pending(x)
  BY <1>1 DEF Pending, Says, Inside, Holding
<1>4. UpToDate(c, x)
  BY <1>2, <1>3 DEF Inv, PageInv, Announced
<1>5. Silent(chan[c], x) /\ Taken(c, x)
  BY <1>1 DEF Silent, Taken
<1> QED  BY <1>1, <1>4, <1>5 DEF UpToDate

\* However snapshots, broadcasts, evictions and reconnects interleave, a page
\* that has caught up shows the workspace lock as it is (events.go, snapshot).
THEOREM LockShownAlways == Spec => []LockShown
<1>1. Inv => LockShown
  <2> SUFFICES ASSUME Inv, NEW c \in Pages, Settled(c)
               PROVE  page[c].lock = lock
    BY DEF LockShown
  <2>1. "lock" \in Topics
    BY DEF Topics
  <2> QED  BY <2>1, SettledShows DEF Held, Truth
<1> QED  BY <1>1, InvAlways, PTL

\* And a listing of the staged files made after their last change, which shows
\* them as they are unless that very listing failed (events.go, workspaceFiles,
\* emitFiles, snapshot).
THEOREM FilesShownAlways == Spec => []FilesShown
<1>1. Inv => FilesShown
  <2> SUFFICES ASSUME Inv, NEW c \in Pages, Settled(c)
               PROVE  page[c].files[1] = files /\ (page[c].files[2] \/ ReadErrors)
    BY DEF FilesShown
  <2>1. "files" \in Topics
    BY DEF Topics, Guarded
  <2>2. page[c].files \in workspaceFiles(files)
    BY <2>1, SettledShows DEF Held, Truth
  <2>3. files \in Nat
    BY DEF Inv, HubInv, TypeOK
  <2> QED  BY <2>2, <2>3, ListingForms
<1> QED  BY <1>1, InvAlways, PTL

\* And the draft, unless one is edited: an edit alone is saved and announced
\* without the lock (upload.go, handleUploadState).
THEOREM StateShownUnedited == "edit" \notin Handlers => (Spec => []StateShown)
<1> SUFFICES ASSUME "edit" \notin Handlers PROVE Spec => []StateShown
  OBVIOUS
<1>1. Inv => StateShown
  <2> SUFFICES ASSUME Inv, NEW c \in Pages, Settled(c)
               PROVE  page[c].state = state
    BY DEF StateShown
  <2>1. "state" \in Topics
    BY DEF Topics, Guarded
  <2> QED  BY <2>1, SettledShows DEF Held, Truth
<1> QED  BY <1>1, InvAlways, PTL

=============================================================================
