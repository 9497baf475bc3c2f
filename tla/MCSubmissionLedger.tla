------------------------- MODULE MCSubmissionLedger -------------------------
EXTENDS SubmissionLedger, TLC

ProcSymmetry == Permutations(Procs)
=============================================================================
