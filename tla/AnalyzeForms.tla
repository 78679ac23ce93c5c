---------------------------- MODULE AnalyzeForms ----------------------------
(***************************************************************************)
(* The names one analyze run works with (analyze.go): the staged files,    *)
(* the forms they were converted to under .filestor/analyze, the lookups   *)
(* that map a name the model uses to one of them, and the images it marks  *)
(* for the digest.  The lock keeps everybody else away from them.          *)
(*                                                                         *)
(* A name is a sequence: <<p>> is an ordinary name, and a form of the file *)
(* named n is Append(n, s), as a.pdf.txt is one of a.pdf.  A staged file   *)
(* may have such a name too.                                               *)
(***************************************************************************)
EXTENDS FiniteSets, Integers, Sequences

CONSTANTS
  Files,        \* the staged files of the run
  NoFile,       \* a name nothing answers to
  Plain,        \* ordinary names
  MaxMarks,     \* analyzeDigestMaxImages
  RenameErrors  \* a form may fail to be renamed with its file

Suffixes == {"txt", "jpg"}
Names    == {<<p>> : p \in Plain} \cup {<<p, s>> : p \in Plain, s \in Suffixes}
Forms    == {Append(n, s) : n \in Names, s \in Suffixes}
All      == Names \cup Forms
Kinds    == {"text", "document", "image", "video", "other"}

ASSUME LimitAssumption == MaxMarks \in Nat /\ RenameErrors \in BOOLEAN
ASSUME NoFileAssumption == NoFile \notin Files

VARIABLES
  waiting,  \* files prepAnalyze has still to convert
  entries,  \* name -> staged file: the workspace and analyzeAgent.entries
  kind,     \* analyzeEntry.Kind: set once, a rename does not change it
  forms,    \* analyzeEntry.Text, Pages, Frames, Image
  store,    \* .filestor/analyze: name -> the file whose form it holds
  derived,  \* analyzeAgent.derived: name -> the file it is a form of
  marked,   \* analyzeAgent.digestImages: names marked so far
  digest    \* .filestor/digest: the pictures written, in order

formsVars == <<waiting, entries, kind, forms, store, derived, marked, digest>>

Ending(n) == n[Len(n)]
NameOf(f) == CHOOSE n \in Names : entries[n] = f

-----------------------------------------------------------------------------
\* prepAnalyze: what a name may hold, and what its conversions may yield

KindsOf(n) ==
  CASE Len(n) = 1        -> Kinds
    [] Ending(n) = "txt" -> {"text", "other"}
    [] Ending(n) = "jpg" -> {"image"}

SuffixesOf(k) ==
  CASE k = "text"             -> {}
    [] k = "document"         -> {"txt", "jpg"}
    [] k \in {"image", "video"} -> {"jpg"}
    [] k = "other"            -> {"txt"}

FormsInit ==
  /\ \E name \in [Files -> Names] :
       /\ \A f, g \in Files : name[f] = name[g] => f = g
       /\ entries = [n \in Names |->
            IF \E f \in Files : name[f] = n THEN CHOOSE f \in Files : name[f] = n ELSE NoFile]
       /\ kind \in [Files -> Kinds]
       /\ \A f \in Files : kind[f] \in KindsOf(name[f])
  /\ waiting = Files
  /\ forms = [f \in Files |-> {}]
  /\ store = [n \in Forms |-> NoFile]
  /\ derived = store
  /\ marked = {} /\ digest = << >>

\* Each conversion may fail; the forms that come out are written and listed.
Convert(f, made) ==
  /\ f \in waiting
  /\ waiting' = waiting \ {f}
  /\ LET new == {Append(NameOf(f), s) : s \in made} IN
       /\ forms' = [forms EXCEPT ![f] = new]
       /\ store' = [n \in Forms |-> IF n \in new THEN f ELSE store[n]]
       /\ derived' = [n \in Forms |-> IF n \in new THEN f ELSE derived[n]]
  /\ UNCHANGED <<entries, kind, marked, digest>>

-----------------------------------------------------------------------------
\* rename_file and renameDerived

\* Seeded fault: the old name is not cut off.
RenamedWhole(n, old, new) == new \o n

\* The form named n of a file renamed from old to new.
Renamed(n, old, new) == Append(new, Ending(n))

\* The forms whose name begins with the old name; any of them may stay behind.
Movable(f, old) == {n \in forms[f] : Len(n) = Len(old) + 1 /\ SubSeq(n, 1, Len(old)) = old}

\* Seeded fault: the old name stays in the lookup.
RelocatedKeeps(map, moved, old, new) ==
  [n \in Forms |-> IF \E m \in moved : Renamed(m, old, new) = n
                   THEN map[CHOOSE m \in moved : Renamed(m, old, new) = n]
                   ELSE map[n]]

\* A lookup after the forms in moved have gone from old to new.
Relocated(map, moved, old, new) ==
  [n \in Forms |-> IF \E m \in moved : Renamed(m, old, new) = n
                   THEN map[CHOOSE m \in moved : Renamed(m, old, new) = n]
                   ELSE IF n \in moved THEN NoFile ELSE map[n]]

Rename(old, new) ==
  /\ waiting = {}
  /\ entries[old] # NoFile /\ entries[new] = NoFile
  /\ entries' = [entries EXCEPT ![new] = entries[old], ![old] = NoFile]
  /\ LET f == entries[old] IN
     \E moved \in SUBSET Movable(f, old) :
       /\ RenameErrors \/ moved = Movable(f, old)
       /\ store' = Relocated(store, moved, old, new)
       /\ derived' = Relocated([n \in Forms |-> IF n \in moved THEN f ELSE derived[n]],
                               moved, old, new)
       /\ forms' = [forms EXCEPT ![f] = (@ \ moved) \cup {Renamed(m, old, new) : m \in moved}]
  /\ UNCHANGED <<waiting, kind, marked, digest>>

-----------------------------------------------------------------------------
\* What a name stands for

\* resolveTextName: the staged names come first.  A picture is a pair of a
\* file and a suffix; "" stands for the staged file itself.
Nothing == <<NoFile, "">>

TextOf(n) ==
  IF n \in Names /\ entries[n] # NoFile
    THEN IF kind[entries[n]] = "text" THEN <<entries[n], "">> ELSE Nothing
    ELSE IF n \in Forms /\ derived[n] # NoFile /\ Ending(n) = "txt"
      THEN <<store[n], "txt">> ELSE Nothing

\* The name under which mark_image files the picture that n stands for; {}
\* when it refuses n.
Product(n) ==
  IF n \in Names /\ entries[n] # NoFile
    THEN CASE kind[entries[n]] # "image"   -> {}
           [] forms[entries[n]] = {}       -> {n}
           [] OTHER                        -> forms[entries[n]]
    ELSE IF n \in Forms /\ derived[n] # NoFile /\ Ending(n) # "txt" THEN {n} ELSE {}

\* The picture itself.
Picture(n) ==
  IF n \in Names /\ entries[n] # NoFile
    THEN <<entries[n], IF forms[entries[n]] = {} THEN "" ELSE "jpg">>
    ELSE <<store[n], "jpg">>

\* toolLoadMedia: the pictures the model is shown for n.
Loaded(n) ==
  IF n \in Names /\ entries[n] # NoFile
    THEN IF kind[entries[n]] = "image" /\ forms[entries[n]] = {} THEN {<<entries[n], "">>}
         ELSE {<<store[m], "jpg">> : m \in {k \in forms[entries[n]] : Ending(k) = "jpg"}}
    ELSE IF n \in Forms /\ derived[n] # NoFile /\ Ending(n) = "jpg"
      THEN {<<store[n], "jpg">>} ELSE {}

-----------------------------------------------------------------------------
\* Seeded fault: the limit is off by one.
MarkImageOverLimit(n) ==
  \E product \in Product(n) :
    /\ waiting = {}
    /\ product \notin marked
    /\ Cardinality(marked) <= MaxMarks
    /\ digest' = Append(digest, Picture(n))
    /\ marked' = marked \cup {product}
    /\ UNCHANGED <<waiting, entries, kind, forms, store, derived>>

\* mark_image: a name already marked is not written twice.
MarkImage(n) ==
  \E product \in Product(n) :
    /\ waiting = {}
    /\ product \notin marked
    /\ Cardinality(marked) < MaxMarks
    /\ digest' = Append(digest, Picture(n))
    /\ marked' = marked \cup {product}
    /\ UNCHANGED <<waiting, entries, kind, forms, store, derived>>

FormsNext ==
  \/ \E f \in Files : \E made \in SUBSET SuffixesOf(kind[f]) : Convert(f, made)
  \/ \E old, new \in Names : Rename(old, new)
  \/ \E n \in All : MarkImage(n)

FormsSpec == FormsInit /\ [][FormsNext]_formsVars

-----------------------------------------------------------------------------
\* Properties

FormsTypeOK ==
  /\ waiting \subseteq Files
  /\ entries \in [Names -> Files \cup {NoFile}]
  /\ kind \in [Files -> Kinds]
  /\ forms \in [Files -> SUBSET Forms]
  /\ {store, derived} \subseteq [Forms -> Files \cup {NoFile}]
  /\ marked \subseteq All
  /\ digest \in Seq(Files \X {"", "jpg"})

\* Through any chain of renames, every form is found under its file's current
\* name, in the lookup and on disk, and the lookup knows no other names.
FormsFollow ==
  /\ \A f \in Files : \A n \in forms[f] :
       /\ derived[n] = f /\ store[n] = f
       /\ n = Append(NameOf(f), Ending(n))
  /\ \A n \in Forms : derived[n] # NoFile => n \in forms[derived[n]]

\* The digest holds one picture for each name marked, and at most MaxMarks.
MarksCounted == Len(digest) = Cardinality(marked) /\ Len(digest) <= MaxMarks

\* The forms the roster lists can be read and loaded under the names it gives.
FormsReachable ==
  \A f \in Files : \A n \in forms[f] :
    IF Ending(n) = "txt" THEN TextOf(n) = <<f, "txt">> ELSE <<f, "jpg">> \in Loaded(n)

\* A picture is marked once, and called marked only when it is in the digest.
MarkedOnce ==
  /\ \A i, j \in 1 .. Len(digest) : digest[i] = digest[j] => i = j
  /\ \A n \in All : Product(n) # {} /\ Product(n) \subseteq marked =>
       \E i \in 1 .. Len(digest) : digest[i] = Picture(n)

=============================================================================
