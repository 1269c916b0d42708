----------------------------- MODULE MCJobScoring -----------------------------
EXTENDS JobScoring, TLC

symmetry == Permutations(Requests)
=============================================================================
