--------------------------- MODULE MCOrderEscrow ---------------------------
(* Model-checking constants of OrderEscrow. *)
EXTENDS OrderEscrow, TLC

\* packages.revisions = -1: the buyer may ask again and again.
UnlimitedRevisions == -1

Symmetry == Permutations(Orders) \cup Permutations(Clients)
              \cup Permutations(Freelancers) \cup Permutations(Admins) \cup Permutations(Workers)
============================================================================
