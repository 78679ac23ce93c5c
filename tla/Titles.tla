------------------------------- MODULE Titles -------------------------------
(***************************************************************************)
(* What becomes of a text on its way to a bundle (push.go, upload.go): a   *)
(* title is typed or chosen by the analyze run, kept in the draft, and     *)
(* sanitised for the bundle; a file name is sanitised when the file is     *)
(* staged, and again when the page sends it back to delete the file.       *)
(*                                                                         *)
(* A text is a sequence of classes of characters: letters, digits and "_"  *)
(* are all "a", white space is " ", any other character is "x".            *)
(***************************************************************************)
EXTENDS Integers, Sequences, SequencesExt

CONSTANTS
  MaxRunes,  \* pushTitleMaxRunes
  MaxTyped   \* bound: characters of a text

ASSUME RunesAssumption == {MaxRunes, MaxTyped} \subseteq Nat \ {0}

TitleChars == {"a", ".", "-", " ", "x"}
NameChars  == {"a", ".", " ", "/", "\\", ":"}

VARIABLES
  typed,   \* the text as it came in
  draft,   \* the title in the draft; empty when there is none
  chosen,  \* the analyze run chose it
  title,   \* the title of the bundle; empty before the push
  name,    \* the name that the file is staged under; empty when it is refused
  deleted  \* after the page's request to delete it: the name that is looked for

titleVars == <<typed, draft, chosen, title, name, deleted>>

-----------------------------------------------------------------------------

\* strings.Trim: the text without these characters at its ends.
Trim(s, chars) ==
  LET kept(c) == c \notin chars IN
  IF SelectInSeq(s, kept) = 0 THEN << >>
  ELSE SubSeq(s, SelectInSeq(s, kept), SelectLastInSeq(s, kept))

TrimRight(s, chars) == SubSeq(s, 1, SelectLastInSeq(s, LAMBDA c : c \notin chars))

\* Letters and dots stay; a run of anything else becomes one dash.
Folded(s) ==
  LET upTo[i \in 0 .. Len(s)] ==
        IF i = 0 THEN << >>
        ELSE LET t == upTo[i - 1] IN
             IF s[i] \in {"a", "."} THEN Append(t, s[i])
             ELSE IF t # << >> /\ Last(t) # "-" THEN Append(t, "-")
             ELSE t
  IN  upTo[Len(s)]

\* Seeded fault: the cut can leave a dash or a dot at the end.
PushTitleCut(s) ==
  LET out == Trim(Folded(Trim(s, {" "})), {"-", "."}) IN
  IF Len(out) > MaxRunes THEN SubSeq(out, 1, MaxRunes) ELSE out

\* sanitizePushTitle; empty for a title that it refuses.
PushTitle(s) ==
  LET out == Trim(Folded(Trim(s, {" "})), {"-", "."}) IN
  IF Len(out) > MaxRunes THEN TrimRight(SubSeq(out, 1, MaxRunes), {"-", "."}) ELSE out

\* path.Base: the last element; a dot for an empty path, a slash for a path of
\* slashes.
Base(s) ==
  LET path == TrimRight(s, {"/"}) IN
  IF s = << >> THEN <<".">>
  ELSE IF path = << >> THEN <<"/">>
  ELSE SubSeq(path, SelectLastInSeq(path, LAMBDA c : c = "/") + 1, Len(path))

Slashed(s) == [i \in DOMAIN s |-> IF s[i] = "\\" THEN "/" ELSE s[i]]

\* Seeded fault: the name is looked at before its directory is taken off.
WorkspaceNameEarly(s) ==
  LET path == Slashed(Trim(s, {" "})) IN
  IF path = << >> \/ Head(path) = "." THEN << >> ELSE Base(path)

\* sanitizeWorkspaceName; empty for a name that it refuses.  The names "." and
\* ".." are hidden ones.
WorkspaceName(s) ==
  LET base == Base(Slashed(Trim(s, {" "}))) IN
  IF Head(base) = "." \/ Range(base) \cap {"/", ":"} # {} THEN << >> ELSE base

-----------------------------------------------------------------------------

TitleInit ==
  /\ typed \in BoundedSeq(TitleChars, MaxTyped) \cup BoundedSeq(NameChars, MaxTyped)
  /\ draft = << >> /\ chosen = FALSE /\ title = << >>
  /\ name = << >> /\ deleted = << >>

\* PUT /upload/state: the title as it was typed, without white space around it.
SaveTitle ==
  /\ title = << >>
  /\ draft' = Trim(typed, {" "}) /\ chosen' = FALSE
  /\ UNCHANGED <<typed, title, name, deleted>>

\* set_title, or the last answer of the run: a title that is refused is none.
ChooseTitle ==
  /\ title = << >> /\ PushTitle(typed) # << >>
  /\ draft' = PushTitle(typed) /\ chosen' = TRUE
  /\ UNCHANGED <<typed, title, name, deleted>>

\* POST /upload/push with the title that the page shows.
PushWithTitle ==
  /\ title = << >> /\ PushTitle(draft) # << >>
  /\ title' = PushTitle(draft)
  /\ UNCHANGED <<typed, draft, chosen, name, deleted>>

\* POST /upload/files.
StageName ==
  /\ name = << >> /\ WorkspaceName(typed) # << >>
  /\ name' = WorkspaceName(typed)
  /\ UNCHANGED <<typed, draft, chosen, title, deleted>>

\* DELETE /upload/files with the name from the list.
DeleteName ==
  /\ name # << >> /\ deleted = << >>
  /\ deleted' = <<WorkspaceName(name)>>
  /\ UNCHANGED <<typed, draft, chosen, title, name>>

TitleNext == SaveTitle \/ ChooseTitle \/ PushWithTitle \/ StageName \/ DeleteName

TitleSpec == TitleInit /\ [][TitleNext]_titleVars

-----------------------------------------------------------------------------
\* Properties

\* A title that the analyze run chose is the title of the bundle to the letter,
\* although it is cut and sanitised twice on the way (analyze.go:1277,
\* push.go:86); and the title of a bundle, whoever chose it, is within its
\* limit, has something other than a dash or a dot at both ends, and no two
\* dashes in a row.
TitleStable ==
  /\ title # << >> /\ chosen => title = draft
  /\ title # << >> =>
       /\ Len(title) <= MaxRunes
       /\ {Head(title), Last(title)} \cap {"-", "."} = {}
       /\ \A i \in 1 .. Len(title) - 1 : title[i] # "-" \/ title[i + 1] # "-"

\* The request to delete a file finds the name that the file was staged under,
\* whatever separators its name came with (upload.go:123).  A name that is left
\* with white space at an end, such as that of "b" in "a\ b", is the exception:
\* it is trimmed before its directory is taken off and not after.
NameKept ==
  deleted # << >> =>
    \/ deleted = <<name>>
    \/ " " \in {Head(name), Last(name)}

\* What the page shows is what its requests act on: sanitising a text that was
\* sanitised before changes nothing.
TextsStable == TitleStable /\ NameKept

=============================================================================
