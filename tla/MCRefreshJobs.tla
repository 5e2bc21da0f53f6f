--------------------------- MODULE MCRefreshJobs ---------------------------
(* Small instances of RefreshJobs for TLC. *)
EXTENDS RefreshJobs, TLC

\* Every property treats the members of these sets alike, and job numbers are
\* not permuted.
Symmetry == Permutations(Procs) \cup Permutations(Clients)
            \cup Permutations(Scopes) \cup Permutations(Pids)
=============================================================================
