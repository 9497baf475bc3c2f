--------------------------- MODULE MCCoWorkDriver ---------------------------
(* The driver in one or two processes, on small pools.                     *)
EXTENDS CoWorkDriver, TLC

\* Session directories are interchangeable (nothing orders them but the
\* listing, and the driver takes one only when it is alone), and so are the
\* processes.  For the run that checks safety alone.
PoolSymmetry == Permutations(SessionIds) \cup Permutations(Procs)
=============================================================================
