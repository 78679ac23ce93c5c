----------------------------- MODULE MCEventHub -----------------------------
(* Instances of EventHub for TLC.                                          *)
EXTENDS EventHub, TLC

Symmetry == Permutations(Workers) \cup Permutations(Pages)

\* What is left over of a connection or a snapshot is overwritten before it is
\* read again; of a page without a connection only the job it shows matters.
Live == [c \in Pages |->
          CASE stream[c] = "open" -> <<chan[c], page[c]>>
            [] stream[c] = "off"  -> <<page[c].shown>>
            [] OTHER              -> <<chan[c], page[c].shown, snap[c]>>]

View == <<lock, job, subs, closed, truth, worker, stream, drops, Live>>

=============================================================================
