------------------------------- MODULE MCJobs -------------------------------
(* The instances of the job pipeline that TLC checks.                      *)
EXTENDS Jobs, TLC

(* Jobs and workers are interchangeable: sound for invariants.             *)
Symmetry == Permutations(Jobs) \cup Permutations(Workers)
=============================================================================
