------------------------- MODULE AcquisitionJobsMC -------------------------
(***************************************************************************)
(* Constants for checking AcquisitionJobs.                                 *)
(***************************************************************************)
EXTENDS AcquisitionJobs, TLC

CONSTANTS w1, w2, c1, c2, j1, j2

\* Without liveness, workers, threads and job ids are interchangeable.
Interchangeable == Permutations(Workers) \cup Permutations(Clients) \cup Permutations(Jobs)
============================================================================
