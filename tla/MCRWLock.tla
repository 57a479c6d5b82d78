------------------------------- MODULE MCRWLock -------------------------------
(* RWLock with three threads and two counter lines.                        *)
EXTENDS RWLock, TLC

CONSTANTS t1, t2, t3

MCThreads == {t1, t2, t3}
Permuted == Permutations(MCThreads)
===============================================================================
