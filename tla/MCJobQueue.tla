----------------------------- MODULE MCJobQueue -----------------------------
(* Instances of JobQueue for TLC. *)
EXTENDS JobQueue, TLC

\* Workers and jobs are interchangeable (used by the safety runs only).
Symmetry == Permutations(Worker) \cup Permutations(Job)
=============================================================================
