------------------------------ MODULE MCPages ------------------------------
(***************************************************************************)
(* Instances for TLC of what is behind the pages: the listing of a bundle  *)
(* (Listing), the browse page (Calendar), titles and names (Titles),       *)
(* logging in (Sessions) and the queue of the upload page (UploadQueue).   *)
(*                                                                         *)
(* They share no state, so a behaviour here is a behaviour of one of them, *)
(* with the others standing still.                                         *)
(***************************************************************************)
EXTENDS Listing, Calendar, Titles, Sessions, UploadQueue

VARIABLE part  \* the one that moves

\* The last of January and of February 2020, and the days around the end of that
\* year, of four years from 2018 on; February 2021 is four whole weeks.
FourDates == {760, 789, 1095, 1096}

NoGaps == {}

SevenKeys == 1 .. 7

ListIdle ==
  /\ bundle = FALSE /\ objects = {} /\ digests = FALSE
  /\ marker = 0 /\ listed = {} /\ entries = 0 /\ listing = "done"

CalIdle ==
  /\ today = 760 /\ bundles = {} /\ page = Never
  /\ asked = [month |-> Absent, day |-> Absent]

TitleIdle ==
  /\ typed = << >> /\ draft = << >> /\ chosen = FALSE /\ title = << >>
  /\ name = << >> /\ deleted = << >>

PagesInit ==
  /\ part \in {"listing", "calendar", "titles", "sessions", "queue"}
  /\ IF part = "listing" THEN ListInit ELSE ListIdle
  /\ IF part = "calendar" THEN CalInit ELSE CalIdle
  /\ IF part = "titles" THEN TitleInit ELSE TitleIdle
  /\ SessionInit /\ QueueInit

PagesNext ==
  \/ /\ part = "listing" /\ ListNext
     /\ UNCHANGED <<part, calVars, titleVars, sessionVars, queueVars>>
  \/ /\ part = "calendar" /\ CalNext
     /\ UNCHANGED <<part, listVars, titleVars, sessionVars, queueVars>>
  \/ /\ part = "titles" /\ TitleNext
     /\ UNCHANGED <<part, listVars, calVars, sessionVars, queueVars>>
  \/ /\ part = "sessions" /\ SessionNext
     /\ UNCHANGED <<part, listVars, calVars, titleVars, queueVars>>
  \/ /\ part = "queue" /\ QueueNext
     /\ UNCHANGED <<part, listVars, calVars, titleVars, sessionVars>>

pagesVars == <<part, listVars, calVars, titleVars, sessionVars, queueVars>>

\* The fairness of SessionSpec and of QueueSpec: the server answers, and the page
\* goes on when it has an answer.
PagesSpec ==
  /\ PagesInit /\ [][PagesNext]_pagesVars
  /\ WF_sessionVars(Answer) /\ WF_queueVars(ServerStep) /\ WF_queueVars(PageStep)

=============================================================================
