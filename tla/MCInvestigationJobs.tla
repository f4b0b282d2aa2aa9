------------------------ MODULE MCInvestigationJobs ------------------------
(* InvestigationJobs on a few jobs, workers and tasks.                     *)
EXTENDS InvestigationJobs, TLC

(* No worker and no task is distinguished; safety runs only.              *)
Symmetry == Permutations(Workers) \cup Permutations(Tasks)
=============================================================================
