------------------------------ MODULE Accounts ------------------------------
(* The accounts (rows of users) that the components of the shared network  *)
(* speak about.                                                            *)
CONSTANTS Users, None

ASSUME AccountsAssumption == None \notin Users

=============================================================================
