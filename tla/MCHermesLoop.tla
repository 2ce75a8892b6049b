----------------------------- MODULE MCHermesLoop -----------------------------
EXTENDS HermesLoop, TLC

\* Signatures are compared with each other only.
Symmetry == Permutations(Sig)
=============================================================================
