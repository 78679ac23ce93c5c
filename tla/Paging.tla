------------------------------- MODULE Paging -------------------------------
(***************************************************************************)
(* read_file (analyze.go): the model reads a text page by page, asking for *)
(* the line after the last one the reply names.  The readable text is a    *)
(* prefix of the file, a page is limited in lines and in bytes, and a line *)
(* that is too long for a reply is cut.                                    *)
(*                                                                         *)
(* A text is a sequence of bytes: a line feed, or any other byte.          *)
(***************************************************************************)
EXTENDS FiniteSets, Integers, Sequences

CONSTANTS
  ReadMax,       \* readFileMaxBytes: the prefix of a file that can be read
  ReplyMax,      \* analyzeTextMaxBytes: the body of one reply
  DefaultLimit,  \* readFileDefaultLimit
  MaxLimit,      \* readFileMaxLimit
  MaxText,       \* bound: bytes of a file
  Limits         \* bound: the page sizes a model asks for

ASSUME PagingAssumption ==
  /\ {ReadMax, ReplyMax, DefaultLimit, MaxLimit} \subseteq Nat \ {0}
  /\ MaxText \in Nat /\ Limits \subseteq Int

LF   == "line feed"
Char == "char"

VARIABLES
  file,    \* the bytes of the staged or converted text
  lines,   \* the lines of its readable prefix
  offset,  \* the line the model asks for next
  start,   \* the line it began with
  read,    \* the lines it was given: number in the file and bytes shown
  body,    \* the bytes of the last reply
  over     \* it was told that there is nothing at its offset

pagingVars == <<file, lines, offset, start, read, body, over>>

Smaller(a, b) == IF a < b THEN a ELSE b
Larger(a, b)  == IF a < b THEN b ELSE a

Readable(bytes) == SubSeq(bytes, 1, Smaller(Len(bytes), ReadMax))

\* Where the lines of a text begin: a trailing line feed starts no line.
Starts(bytes) ==
  {i \in {1} \cup {j + 1 : j \in {k \in 1 .. Len(bytes) : bytes[k] = LF}} : i <= Len(bytes)}

\* Its lines as stretches of bytes; an empty line ends before it begins.
Lines(bytes) ==
  LET Feed(i) == i > Len(bytes) \/ bytes[i] = LF IN
  [n \in 1 .. Cardinality(Starts(bytes)) |->
     LET first == CHOOSE i \in Starts(bytes) : Cardinality(Starts(bytes) \cap 1 .. i) = n IN
     [from |-> first,
      to   |-> CHOOSE i \in first - 1 .. Len(bytes) :
                 Feed(i + 1) /\ \A j \in first .. i : ~Feed(j)]]

\* countTextLines: the number of lines the roster announces.
CountTextLines(bytes) ==
  IF bytes = << >> THEN 0
  ELSE Cardinality({i \in 1 .. Len(bytes) : bytes[i] = LF})
         + IF bytes[Len(bytes)] = LF THEN 0 ELSE 1

\* The bytes of lines a .. b with the line feeds between them.
Joined(a, b) == lines[b].to - lines[a].from + 1

\* The last line shown of a page from a to b: whole trailing lines are
\* dropped until the reply fits, but never the first one.
Fitted(a, b) ==
  CHOOSE c \in a .. b :
    /\ c = a \/ Joined(a, c) <= ReplyMax
    /\ \A d \in c + 1 .. b : Joined(a, d) > ReplyMax

PageSize(limit) == Smaller(IF limit <= 0 THEN DefaultLimit ELSE limit, MaxLimit)

\* A reply with lines a .. b.  A single line that is too long is cut where a
\* character ends, which may be anywhere before the limit.
Reply(a, b) ==
  \E cut \in IF Joined(a, a) <= ReplyMax THEN {Joined(a, a)} ELSE 0 .. ReplyMax :
    /\ read' = read \o [i \in 1 .. b - a + 1 |->
         [line |-> a + i - 1, bytes |-> IF i = 1 THEN cut ELSE Joined(a + i - 1, a + i - 1)]]
    /\ body' = Joined(a, b) - Joined(a, a) + cut

\* Seeded fault: the header names the page that was asked for.
ReadPageHeader(limit) ==
  /\ ~over
  /\ LET first == Larger(offset, 1)
         end   == Smaller(first + PageSize(limit) - 1, Len(lines))
     IN IF first > Len(lines)
          THEN over' = TRUE /\ UNCHANGED <<offset, read, body>>
          ELSE /\ Reply(first, Fitted(first, end))
               /\ offset' = end + 1
               /\ over' = over
  /\ UNCHANGED <<file, lines, start>>

\* Seeded fault: a page gives up its first line too when that does not fit.
ReadPageEmpty(limit) ==
  /\ ~over
  /\ LET first == Larger(offset, 1)
         end   == Smaller(first + PageSize(limit) - 1, Len(lines))
     IN IF first > Len(lines)
          THEN over' = TRUE /\ UNCHANGED <<offset, read, body>>
          ELSE /\ IF Joined(first, first) > ReplyMax
                    THEN body' = 0 /\ UNCHANGED <<offset, read>>
                    ELSE Reply(first, Fitted(first, end)) /\ offset' = Fitted(first, end) + 1
               /\ over' = over
  /\ UNCHANGED <<file, lines, start>>

\* pagedText
ReadPage(limit) ==
  /\ ~over
  /\ LET first == Larger(offset, 1)
         end   == Smaller(first + PageSize(limit) - 1, Len(lines))
     IN IF first > Len(lines)
          THEN over' = TRUE /\ UNCHANGED <<offset, read, body>>
          ELSE /\ Reply(first, Fitted(first, end))
               /\ offset' = Fitted(first, end) + 1
               /\ over' = over
  /\ UNCHANGED <<file, lines, start>>

PagingInit ==
  /\ \E n \in 0 .. MaxText : file \in [1 .. n -> {LF, Char}]
  /\ lines = Lines(Readable(file))
  /\ offset \in {-1, 0, 1, 2, MaxText + 1}
  /\ start = Larger(offset, 1)
  /\ read = << >> /\ body = 0 /\ over = FALSE

PagingNext == \E limit \in Limits : ReadPage(limit)

PagingSpec == PagingInit /\ [][PagingNext]_pagingVars

-----------------------------------------------------------------------------
\* Properties

PagingTypeOK ==
  /\ file \in Seq({LF, Char})
  /\ lines \in Seq([from : Nat \ {0}, to : Nat])
  /\ {offset, start} \subseteq Int /\ body \in Nat
  /\ read \in Seq([line : Nat \ {0}, bytes : Nat])
  /\ over \in BOOLEAN

\* A model that goes on where the last reply ended is given every line once
\* and whole, in order, in replies within the limit; a line is cut only when
\* it does not fit a reply; and the end comes after as many lines as the
\* roster announced.
PagesTile ==
  /\ \A i \in 1 .. Len(read) :
       /\ read[i].line = start + i - 1
       /\ LET whole == Joined(read[i].line, read[i].line) IN
          \/ read[i].bytes = whole
          \/ read[i].bytes <= ReplyMax /\ whole > ReplyMax
  /\ body <= ReplyMax
  /\ over => start + Len(read) = Larger(start, CountTextLines(Readable(file)) + 1)

\* It comes to the end: no reply is empty.
PagesEnd == <>over

=============================================================================
