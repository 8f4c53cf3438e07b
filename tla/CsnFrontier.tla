---------------------------- MODULE CsnFrontier ----------------------------
(***************************************************************************)
(* The publication frontier of commit sequence numbers (CSNs), as the      *)
(* engine's transaction status table keeps it.  `done' is the set of CSNs  *)
(* that have been completed or skipped but not yet consumed.               *)
(***************************************************************************)
EXTENDS Integers

\* Mutant: the frontier jumps over CSNs that are still unresolved.
AdvancePastGaps(published, done) ==
  CHOOSE k \in {published} \cup done :
    k >= published /\ \A j \in done : j <= k

\* advance_published_csn without the loop: the frontier moves over the
\* longest run of done CSNs that starts right after it.
AdvancePublished(published, done) ==
  CHOOSE k \in {published} \cup done :
    /\ k >= published
    /\ (published + 1)..k \subseteq done
    /\ k + 1 \notin done

\* The CSNs the loop removed from `completed' and `skipped'.
Consumed(published, done) == (published + 1)..AdvancePublished(published, done)
=============================================================================
