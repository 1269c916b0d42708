-------------------------- MODULE MCEnrichmentQueue --------------------------
EXTENDS EnrichmentQueue, TLC

symmetry == Permutations(Users) \union Permutations(Persons)
              \union Permutations(Requests) \union Permutations(Workers)
=============================================================================
