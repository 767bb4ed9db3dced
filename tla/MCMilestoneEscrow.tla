------------------------- MODULE MCMilestoneEscrow -------------------------
(* Small instances of MilestoneEscrow for TLC. *)
EXTENDS MilestoneEscrow, TLC

Symmetry == Permutations(Milestones) \cup Permutations(ClientTabs)

Busy == {s \in ClientTabs : req[s] # Idle}

\* Two requests of the client are in flight, or were, and nothing has put in
\* order since what they committed.
Overlap == Cardinality(Busy) > 1 \/ overtaken # {} \/ ~orderly

\* They overlap on contracts whose milestones all cost 1 and whose payments
\* neither failed nor were retried.
Bound ==
    Overlap =>
        /\ \A s \in FailureTabs : req[s] = Idle
        /\ \A p \in Payments : failed[p] = 0 /\ (p[2] > 1 => fundTx[p] = "none")
        /\ \A m \in Milestones : milestone[m].amount <= 1
        /\ \A s \in Sessions : req[s].amount <= 1
============================================================================
