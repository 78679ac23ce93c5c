------------------------------- MODULE Archive -------------------------------
(***************************************************************************)
(* What filestor promises the person who stages files and pushes them.  A  *)
(* content is pending in the workspace until a recorded bundle holds it; a *)
(* bundle that was confirmed stays as it is.                               *)
(***************************************************************************)
CONSTANTS Ids, Files

VARIABLES
  pending,   \* contents in the workspace
  bundle,    \* id -> the files of a recorded bundle, {} when not recorded
  confirmed  \* pushes reported as done

vars == <<pending, bundle, confirmed>>

Held(b) == UNION {b[id] : id \in Ids}

Init ==
  /\ pending = {}
  /\ bundle = [id \in Ids |-> {}]
  /\ confirmed = {}

Submit(f) ==
  /\ f \notin pending \cup Held(bundle)
  /\ pending' = pending \cup {f}
  /\ UNCHANGED <<bundle, confirmed>>

\* A bundle of pending files is recorded.  Records nobody was told of may go
\* at the same moment, as long as the files they held are not lost with them.
Record(id) ==
  /\ bundle[id] = {}
  /\ bundle' \in [Ids -> SUBSET Files]
  /\ bundle'[id] \in (SUBSET pending) \ {{}}
  /\ \A other \in Ids \ {id} :
       bundle'[other] = bundle[other] \/ (other \notin confirmed /\ bundle'[other] = {})
  /\ Held(bundle) \subseteq pending \cup Held(bundle')
  /\ UNCHANGED <<pending, confirmed>>

Confirm(id) ==
  /\ bundle[id] # {}
  /\ confirmed' = confirmed \cup {id}
  /\ UNCHANGED <<pending, bundle>>

\* The staged copy of a recorded file goes.
Drop(f) ==
  /\ f \in pending \cap Held(bundle)
  /\ pending' = pending \ {f}
  /\ UNCHANGED <<bundle, confirmed>>

Next ==
  \/ \E f \in Files : Submit(f) \/ Drop(f)
  \/ \E id \in Ids : Record(id) \/ Confirm(id)

Spec == Init /\ [][Next]_vars
==============================================================================
