----------------------------- MODULE MCAnalyze -----------------------------
(***************************************************************************)
(* Instances for TLC of the parts of one analyze run: its conversation     *)
(* (AnalyzeChat), the names of its files and forms (AnalyzeForms), the     *)
(* pages of read_file (Paging) and the conversion of a file (Conversion).  *)
(*                                                                         *)
(* The parts share no state, so a behaviour here is a behaviour of one of  *)
(* them, with the others standing still in a state where they are done.    *)
(***************************************************************************)
EXTENDS AnalyzeChat, AnalyzeForms, Paging, Conversion

ChatIdle ==
  /\ pc = "failed" /\ messages = <<System, User>>
  /\ round = 0 /\ calls = 0 /\ pending = 0
  /\ extra = << >> /\ finished = FALSE
  /\ text = NoTitle /\ title = NoTitle /\ draft = NoTitle

FormsIdle ==
  /\ waiting = {}
  /\ entries = [n \in Names |-> NoFile]
  /\ kind = [f \in Files |-> "other"]
  /\ forms = [f \in Files |-> {}]
  /\ store = [n \in Forms |-> NoFile] /\ derived = store
  /\ marked = {} /\ digest = << >>

PagingIdle ==
  /\ file = << >> /\ lines = << >>
  /\ offset = 1 /\ start = 1 /\ read = << >> /\ body = 0
  /\ over = TRUE

ConvIdle ==
  /\ ext = "other" /\ todo = << >> /\ at = 1
  /\ have = {} /\ tried = [f \in FormNames |-> {}] /\ late = FALSE
  /\ scratch = [f \in {"txt", "csv", "pdf", "png", "2048", "1280", "800"} |-> NoFileYet]
  /\ drawn = [t \in {"pg", "mg"} |-> << >>] /\ raw = << >>
  /\ made = [f \in FormNames |-> << >>]
  /\ without = {}

RunInit ==
  \/ Init /\ FormsIdle /\ PagingIdle /\ ConvIdle
  \/ ChatIdle /\ FormsInit /\ PagingIdle /\ ConvIdle
  \/ ChatIdle /\ FormsIdle /\ PagingInit /\ ConvIdle
  \/ ChatIdle /\ FormsIdle /\ PagingIdle /\ ConvInit

RunNext ==
  \/ Next /\ UNCHANGED <<formsVars, pagingVars, convVars>>
  \/ FormsNext /\ UNCHANGED <<vars, pagingVars, convVars>>
  \/ PagingNext /\ UNCHANGED <<vars, formsVars, convVars>>
  \/ ConvNext /\ UNCHANGED <<vars, formsVars, pagingVars>>

runVars == <<vars, formsVars, pagingVars, convVars>>

\* Every request to the model ends (analyzeHTTPTimeout), and read_file always
\* answers: the conversation goes on, and so does the reading of a text.
RunSpec == RunInit /\ [][RunNext]_runVars /\ WF_vars(Next) /\ WF_pagingVars(PagingNext)

\* The parts keep to their types.
TypesOK == TypeOK /\ FormsTypeOK /\ PagingTypeOK /\ ConvTypeOK

=============================================================================
