------------------------------- MODULE MCJobs -------------------------------
EXTENDS Jobs, TLC
Symm == Permutations(Job) \cup Permutations(Kill)
=============================================================================
