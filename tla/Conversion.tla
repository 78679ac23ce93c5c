----------------------------- MODULE Conversion -----------------------------
(***************************************************************************)
(* How prepEntry turns one staged file into forms the model can read       *)
(* (analyze.go, convert.go): ladders of external tools, tried one after    *)
(* the other in a scratch directory until one yields something usable,     *)
(* under one deadline for the whole file.                                  *)
(*                                                                         *)
(* A tool may be missing, and a run of a tool may fail, be cut off by the  *)
(* deadline or succeed, with or without output; a run that fails may leave *)
(* part of its output behind.  What it leaves, and how much, is up to the  *)
(* tool: the limits are the program's to keep.  Of an output only its size *)
(* class is kept, and whether the run that wrote it succeeded.             *)
(***************************************************************************)
EXTENDS FiniteSets, Integers, Sequences

CONSTANTS
  MaxPages,   \* analyzeMaxPages
  MaxFrames,  \* analyzeMaxFrames
  MaxDrawn    \* bound: page or frame files that one run of a tool leaves

ASSUME ConversionAssumption == {MaxPages, MaxFrames} \subseteq Nat \ {0} /\ MaxDrawn \in Nat

\* "blank" is white space only; "big" is over the limit of the form.  A page or
\* frame that is empty is treated like one that is too big.
TextSizes  == {"empty", "blank", "fit", "big"}
ImageSizes == {"empty", "fit", "big"}
PageSizes  == {"fit", "big"}

NoFileYet  == [size |-> "none", ok |-> FALSE]
File(size, ok) == [size |-> size, ok |-> ok]
OutputFile == [size : TextSizes, ok : BOOLEAN]

VARIABLES
  ext,      \* the class of the staged file
  todo,     \* the forms still to be made; the first one is being worked on
  at,       \* its rung; 0 while pages or frames are looked at, -1 in the
            \* second step of making a page smaller
  have,     \* which of the tools it may need are installed
  tried,    \* form -> the tools that were run for it
  late,     \* the deadline has passed
  scratch,  \* scratch files of the form
  drawn,    \* the page files of pdftoppm and of magick, in order
  raw,      \* pages or frames that are still to be looked at
  made,     \* form -> what came out: a sequence of files
  without   \* forms that were converted and yet not written: there is no
            \* text, or the write failed

convVars == <<ext, todo, at, have, tried, late, scratch, drawn, raw, made, without>>

Classes == {"pdf", "sheet", "doc", "document", "image", "video", "other"}
FormNames == {"text", "pages", "image", "frames"}

\* prepEntry: the forms of a file.  An image may be readable as it is, and an
\* unknown file too large to be tried.
FormsOf(e) ==
  CASE e \in {"pdf", "sheet", "doc", "document"} -> {<<"text", "pages">>}
    [] e = "image" -> {<<"image">>, << >>}
    [] e = "video" -> {<<"frames">>}
    [] e = "other" -> {<<"text">>, << >>}

-----------------------------------------------------------------------------
\* The ladders: a tool and the scratch file it writes; "stdout" is its standard output.

Rung(tool, file) == [tool |-> tool, file |-> file]

TextLadder(e) ==
  CASE e = "pdf"   -> <<Rung("pdftotext", "stdout"), Rung("soffice", "txt")>>
    [] e = "sheet" -> <<Rung("soffice", "csv"), Rung("soffice", "txt")>>
    [] e = "doc"   -> <<Rung("catdoc", "stdout"), Rung("soffice", "txt"), Rung("pandoc", "stdout")>>
    [] OTHER       -> <<Rung("soffice", "txt"), Rung("pandoc", "stdout")>>

Steps == <<Rung("magick", "2048"), Rung("magick", "1280"), Rung("magick", "800")>>

ImageLadder == Steps \o <<Rung("soffice", "png")>> \o Steps

Render == <<Rung("pdftoppm", "pg"), Rung("magick", "mg")>>

PagesLadder == Render \o <<Rung("soffice", "pdf")>> \o Render \o <<Rung("soffice", "png")>>

Ladder(form) ==
  CASE form = "text"   -> TextLadder(ext)
    [] form = "image"  -> ImageLadder
    [] form = "pages"  -> PagesLadder
    [] form = "frames" -> <<Rung("ffmpeg", "stdout")>>

ToolsOf(form) == {Ladder(form)[i].tool : i \in 1 .. Len(Ladder(form))}

\* Only a PDF is rendered as it is.
First(form) == IF form = "pages" /\ ext # "pdf" THEN 3 ELSE 1

\* Seeded fault: the png is rendered without its export.
ElseRungSkips(form) ==
  CASE form = "image" /\ at <= 3 -> 8
    [] form = "pages" /\ at = 3  -> 6
    [] OTHER                     -> at + 1

\* Where to go on when a rung yields nothing: a failure ends a group of steps.
ElseRung(form) ==
  CASE form = "image" -> IF at <= 3 THEN 4 ELSE 8
    [] form = "pages" /\ at = 3 -> 6
    [] OTHER -> at + 1

Begin(rest) == at' = IF rest = << >> THEN 1 ELSE First(Head(rest))

Working(form) == todo # << >> /\ Head(todo) = form /\ at \in 1 .. Len(Ladder(form))

\* The form is settled; the next one has a scratch directory of its own.
Settle(form, out) ==
  /\ made' = [made EXCEPT ![form] = out]
  /\ todo' = Tail(todo)
  /\ Begin(Tail(todo))
  /\ scratch' = [f \in DOMAIN scratch |-> NoFileYet]
  /\ drawn' = [t \in DOMAIN drawn |-> << >>]
  /\ raw' = << >>

-----------------------------------------------------------------------------
\* runCmd: a run after the deadline fails at once.
Run(form, ok) ==
  LET tool == Ladder(form)[at].tool IN
  /\ tool \in have
  /\ tried' = [tried EXCEPT ![form] = @ \cup {tool}]
  /\ late => ~ok
  /\ late' \in {late, TRUE}
  /\ UNCHANGED <<ext, have>>

\* What a run leaves under a name: a new file, or whatever was there.
Leaves(name, sizes, ok) ==
  {scratch[name]} \cup (IF late THEN {} ELSE {File(size, ok) : size \in sizes})

\* The files of a run that draws several: any number, of any size.
Drawings(ok) ==
  UNION {[1 .. n -> {File(size, ok) : size \in PageSizes}] :
           n \in IF late THEN {0} ELSE 0 .. MaxDrawn}

\* Seeded fault: the list is not cut.
FirstOfAll(files, limit) == files

\* The files that are looked at: the first of those found.
FirstOf(files, limit) == SubSeq(files, 1, IF Len(files) < limit THEN Len(files) ELSE limit)

Onward(rung) == at' = rung /\ UNCHANGED <<todo, made, drawn, raw>>

\* findBin fails, or nothing is left to try.
Missing(form) ==
  /\ Working(form)
  /\ Ladder(form)[at].tool \notin have
  /\ Onward(ElseRung(form))
  /\ UNCHANGED <<ext, have, tried, late, scratch, without>>

GiveUp(form) ==
  /\ todo # << >> /\ Head(todo) = form /\ at > Len(Ladder(form))
  /\ Settle(form, << >>)
  /\ UNCHANGED <<ext, have, tried, late, without>>

\* writeDerived: the form is written, or it is lost.
Written(form, out) ==
  \/ Settle(form, out) /\ UNCHANGED without
  \/ Settle(form, << >>) /\ without' = without \cup {form}

\* Seeded fault: the text is not cut.
CappedNot(size) == {size}

\* capFullText: what is left of a text that is too long may be white space.
Capped(size) == IF size = "big" THEN {"fit", "blank"} ELSE {size}

\* writeText: text that is white space yields no form.
SettleText(file) ==
  \E size \in Capped(file.size) :
    IF size \in {"empty", "blank"}
      THEN Settle("text", << >>) /\ without' = without \cup {"text"}
      ELSE Written("text", <<File(size, file.ok)>>)

\* Seeded fault: the output is taken from whatever lies in the directory.
ConvertTextAny ==
  /\ Working("text")
  /\ \E ok \in BOOLEAN :
       /\ Run("text", ok)
       /\ LET name == TextLadder(ext)[at].file IN
          IF name = "stdout"
            THEN IF ok THEN \E size \in TextSizes : SettleText(File(size, ok))
                       ELSE Onward(ElseRung("text")) /\ UNCHANGED <<scratch, without>>
            ELSE \E left \in Leaves(name, TextSizes, ok) \cup {scratch["csv"]} :
                   IF ok /\ left.size \notin {"none", "empty"}
                     THEN SettleText(left)
                     ELSE /\ scratch' = [scratch EXCEPT ![name] = left]
                          /\ Onward(ElseRung("text")) /\ UNCHANGED without

\* Standard output is the text, an output file only if there is something in it.
ConvertText ==
  /\ Working("text")
  /\ \E ok \in BOOLEAN :
       /\ Run("text", ok)
       /\ LET name == TextLadder(ext)[at].file IN
          IF name = "stdout"
            THEN IF ok THEN \E size \in TextSizes : SettleText(File(size, ok))
                       ELSE Onward(ElseRung("text")) /\ UNCHANGED <<scratch, without>>
            ELSE \E left \in Leaves(name, TextSizes, ok) :
                   IF ok /\ left.size \notin {"none", "empty"}
                     THEN SettleText(left)
                     ELSE /\ scratch' = [scratch EXCEPT ![name] = left]
                          /\ Onward(ElseRung("text")) /\ UNCHANGED without

\* convertFileToLLMImage: the first step that yields an image of the right
\* size; a png export is read by the same steps again.  magickConvert runs a
\* second time when it fails: the file may then be the one the first run left.
ConvertImage ==
  /\ Working("image")
  /\ \E ok \in BOOLEAN :
       /\ Run("image", ok)
       /\ LET name == ImageLadder[at].file IN
          \E left \in Leaves(name, ImageSizes, ok)
                        \cup (IF name = "png" THEN {} ELSE Leaves(name, ImageSizes, FALSE)) :
            IF ok /\ left.size = "fit" /\ name # "png"
              THEN Written("image", <<left>>)
              ELSE /\ scratch' = [scratch EXCEPT ![name] = left]
                   /\ Onward(IF \/ ok /\ name = "png" /\ left.size \in {"fit", "big"}
                                \/ ok /\ name \in {"2048", "1280"} /\ left.size \in {"empty", "big"}
                             THEN at + 1 ELSE ElseRung("image"))
                   /\ UNCHANGED without

\* The page files that are found when a run has drawn new ones: they replace
\* those of the same number; pdftoppm numbers the pages of a longer document
\* with more digits, and then they stand beside them, before or after; magick
\* gives a single page no number, and numbered ones of before hide it.
Globbed(name, new) ==
  LET old == drawn[name] IN
  {new \o SubSeq(old, Len(new) + 1, Len(old))}
    \cup (IF name = "pg" THEN {new \o old, old \o new}
          ELSE IF Len(new) = 1 /\ Len(old) > 1 THEN {old} ELSE {})

\* renderPDFPages, and the cut of its result to the first pages.
DrawPages ==
  /\ Working("pages")
  /\ \E ok \in BOOLEAN :
       /\ Run("pages", ok)
       /\ LET name == PagesLadder[at].file IN
          /\ name \in DOMAIN drawn
          /\ \E new \in Drawings(ok) : \E all \in Globbed(name, new) :
               /\ drawn' = [drawn EXCEPT ![name] = all]
               /\ IF ok /\ all # << >>
                    THEN raw' = FirstOf(all, MaxPages) /\ at' = 0
                    ELSE raw' = raw /\ at' = ElseRung("pages")
  /\ UNCHANGED <<todo, made, scratch, without>>

\* The export to PDF, which is rendered next, and the single png page.
ExportPages ==
  /\ Working("pages")
  /\ \E ok \in BOOLEAN :
       /\ Run("pages", ok)
       /\ LET name == PagesLadder[at].file IN
          /\ name \in DOMAIN scratch
          /\ \E left \in Leaves(name, ImageSizes, ok) :
               /\ scratch' = [scratch EXCEPT ![name] = left]
               /\ LET usable == ok /\ left.size \in {"fit", "big"} IN
                  /\ at' = IF ~usable THEN ElseRung("pages") ELSE IF name = "pdf" THEN 4 ELSE 0
                  /\ raw' = IF usable /\ name = "png" THEN <<left>> ELSE raw
  /\ UNCHANGED <<todo, made, drawn, without>>

\* A page or frame is looked at.
Looking(form) == todo # << >> /\ Head(todo) = form /\ at <= 0 /\ raw # << >>

\* The picture is kept, if it can be written; or it is passed over.
Keep(form, picture) ==
  /\ raw' = Tail(raw) /\ at' = 0
  /\ made' \in {made, [made EXCEPT ![form] = Append(@, picture)]}

Skip == raw' = Tail(raw) /\ at' = 0 /\ made' = made

\* A page or frame of the right size is kept as it is.
KeepPicture(form) ==
  /\ form \in {"pages", "frames"}
  /\ Looking(form) /\ Head(raw).size = "fit"
  /\ Keep(form, Head(raw))
  /\ UNCHANGED <<ext, todo, have, tried, late, scratch, drawn, without>>

\* Seeded fault: a frame is kept as it comes.
SkipFrameNot ==
  /\ Looking("frames") /\ Head(raw).size # "fit"
  /\ Keep("frames", Head(raw))
  /\ UNCHANGED <<ext, todo, have, tried, late, scratch, drawn, without>>

\* convertFileToFrameImages: a frame that is empty or too big.
SkipFrame ==
  /\ Looking("frames") /\ Head(raw).size # "fit"
  /\ Skip
  /\ UNCHANGED <<ext, todo, have, tried, late, scratch, drawn, without>>

\* Seeded fault: the smallest step is taken as it comes.
ShrinkPageUnchecked ==
  /\ Looking("pages") /\ Head(raw).size # "fit"
  /\ tried' = [tried EXCEPT !["pages"] = @ \cup ({"magick"} \cap have)]
  /\ late' \in {late, TRUE}
  /\ \/ Skip
     \/ /\ "magick" \in have /\ ~late
        /\ \E size \in PageSizes :
             IF size # "fit" /\ at = 0
               THEN at' = -1 /\ UNCHANGED <<raw, made>>
               ELSE Keep("pages", File(size, Head(raw).ok))
  /\ UNCHANGED <<ext, todo, have, scratch, drawn, without>>

\* One step of shrinkPageImage: magick is missing, fails or writes nothing, and
\* the page is dropped; or what it has written fits; or the next step is tried.
ShrinkPage ==
  /\ Looking("pages") /\ Head(raw).size # "fit"
  /\ tried' = [tried EXCEPT !["pages"] = @ \cup ({"magick"} \cap have)]
  /\ late' \in {late, TRUE}
  /\ \/ Skip
     \/ /\ "magick" \in have /\ ~late
        /\ \E size \in PageSizes :
             IF size = "fit" THEN Keep("pages", File(size, Head(raw).ok))
             ELSE IF at = 0 THEN at' = -1 /\ UNCHANGED <<raw, made>>
             ELSE Skip
  /\ UNCHANGED <<ext, todo, have, scratch, drawn, without>>

\* convertFileToFrameImages: the run, and the cut to the first frames.
ExtractFrames ==
  /\ Working("frames")
  /\ \E ok \in BOOLEAN :
       /\ Run("frames", ok)
       /\ IF ok
            THEN /\ \E new \in Drawings(ok) : raw' = FirstOf(new, MaxFrames)
                 /\ at' = 0 /\ UNCHANGED <<todo, scratch, drawn, made>>
            ELSE Settle("frames", << >>)
  /\ UNCHANGED without

PicturesDone(form) ==
  /\ form \in {"pages", "frames"}
  /\ todo # << >> /\ Head(todo) = form /\ at = 0 /\ raw = << >>
  /\ Settle(form, made[form])
  /\ UNCHANGED <<ext, have, tried, late, without>>

ConvInit ==
  /\ ext \in Classes /\ todo \in FormsOf(ext)
  /\ at = 1
  /\ have \in SUBSET UNION {ToolsOf(todo[i]) : i \in 1 .. Len(todo)}
  /\ tried = [f \in FormNames |-> {}]
  /\ late = FALSE
  /\ scratch = [f \in {"txt", "csv", "pdf", "png", "2048", "1280", "800"} |-> NoFileYet]
  /\ drawn = [t \in {"pg", "mg"} |-> << >>]
  /\ raw = << >>
  /\ made = [f \in FormNames |-> << >>]
  /\ without = {}

ConvNext ==
  \/ \E f \in FormNames : Missing(f) \/ GiveUp(f) \/ KeepPicture(f) \/ PicturesDone(f)
  \/ ConvertText \/ ConvertImage \/ DrawPages \/ ExportPages
  \/ ShrinkPage \/ ExtractFrames \/ SkipFrame

ConvSpec == ConvInit /\ [][ConvNext]_convVars

-----------------------------------------------------------------------------
\* Properties

ConvTypeOK ==
  /\ ext \in Classes /\ todo \in Seq(FormNames)
  /\ at \in -1 .. 8
  /\ tried \in [FormNames -> SUBSET have]
  /\ late \in BOOLEAN /\ without \subseteq FormNames
  /\ \A f \in DOMAIN scratch : scratch[f] \in OutputFile \cup {NoFileYet}
  /\ \A t \in DOMAIN drawn : drawn[t] \in Seq(OutputFile)
  /\ raw \in Seq(OutputFile)
  /\ made \in [FormNames -> Seq(OutputFile)]

\* Whatever the tools leave, a form is never empty, over its limit or longer
\* than the number of pages or frames allowed.
OutputBounded ==
  /\ \A f \in FormNames : \A i \in 1 .. Len(made[f]) : made[f][i].size = "fit"
  /\ Len(made["pages"]) <= MaxPages /\ Len(made["frames"]) <= MaxFrames

\* The text of a file comes from a run that succeeded, although the runs of
\* its ladder share a scratch directory.
TextGenuine == \A i \in 1 .. Len(made["text"]) : made["text"][i].ok

\* The pages, too: the comment of renderPDFPages promises it a directory of
\* its own, but a PDF may be rendered twice into the same one.
PagesGenuine == \A i \in 1 .. Len(made["pages"]) : made["pages"][i].ok

\* A file has no text, image or frames only after every tool of the ladder
\* that is installed was run, or one of them has found that it has no text.
LadderTried ==
  todo = << >> => \A f \in {"text", "image", "frames"} :
    tried[f] # {} /\ made[f] = << >> /\ f \notin without
      => tried[f] = have \cap ToolsOf(f)
=============================================================================
