-------------------------- MODULE MCOrgEnrichment --------------------------
(***************************************************************************)
(* Two users, one of whom has strong ties at both companies.               *)
(***************************************************************************)
EXTENDS OrgEnrichment

CONSTANTS u1, u2, c1, c2

MCCompanies == <<c1, c2>>
MCOwn == [u \in Users |-> IF u = u1 THEN {c1, c2} ELSE {}]

OrgSpec == EnrichmentSpec /\ EnrichmentFairness

=============================================================================
