-------------------------- MODULE MCImportWriteLock --------------------------
EXTENDS ImportWriteLock, TLC

symmetry ==
  Permutations(Users) \union Permutations(Contacts) \union Permutations(Profiles)
    \union Permutations(Requests) \union Permutations(Conns)
=============================================================================
