----------------------------- MODULE MCFileset -----------------------------
(* Model-checking instances of Fileset: the symmetry of the threads.       *)
EXTENDS Fileset, TLC

\* Threads are interchangeable: nothing orders or names them.
ThreadSymmetry == Permutations(Threads)
=============================================================================
