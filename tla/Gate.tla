-------------------------------- MODULE Gate --------------------------------
(***************************************************************************)
(* What the upload page promises of analysis and push while the LLM is     *)
(* configured, told without names, drafts, locks and goroutines: staged    *)
(* contents may be published only while the gate is open, and the gate is  *)
(* open only for contents a successful analysis has seen.                  *)
(***************************************************************************)
CONSTANTS Contents   \* what a staged file may hold

VARIABLES
  batch,  \* the contents that are staged
  known,  \* the contents the last successful analysis has seen
  open,   \* a push would be let through
  out     \* the contents of the bundle that is being handed over, or {}

gate == <<batch, known, open, out>>

Init == batch = {} /\ known = {} /\ open = FALSE /\ out = {}

\* The user changes what is staged: the gate closes, or has been closed.
Change ==
  /\ out = {} /\ out' = {}
  /\ open' = FALSE
  /\ batch' \in SUBSET Contents
  /\ known' = known

\* A change is over and has changed nothing: the gate is as open as before.
Reopen ==
  /\ batch \subseteq known
  /\ open' = TRUE
  /\ UNCHANGED <<batch, known, out>>

\* An analysis succeeds: it has seen everything that is staged.
Analyze ==
  /\ out = {}
  /\ known' = batch
  /\ open' = TRUE
  /\ UNCHANGED <<batch, out>>

\* A bundle is recorded: it holds staged contents, and the gate is open.
Publish ==
  /\ open /\ out = {}
  /\ out' \in (SUBSET batch) \ {{}}
  /\ UNCHANGED <<batch, known, open>>

\* What has been recorded may leave the staging area, nothing else.
Remove ==
  /\ out # {} /\ out' = out
  /\ batch' \in SUBSET batch /\ batch \ batch' \subseteq out
  /\ UNCHANGED <<known, open>>

\* The hand-over is over.
Finish ==
  /\ out # {} /\ out' = {}
  /\ UNCHANGED <<batch, known, open>>

Next == Change \/ Reopen \/ Analyze \/ Publish \/ Remove \/ Finish

Spec == Init /\ [][Next]_gate
=============================================================================
