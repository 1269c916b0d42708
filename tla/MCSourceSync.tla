---------------------------- MODULE MCSourceSync ----------------------------
EXTENDS SourceSync, TLC

symmetry == Permutations(Requests)
=============================================================================
