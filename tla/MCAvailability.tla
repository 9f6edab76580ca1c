--------------------------- MODULE MCAvailability ---------------------------
(* Small instances of Availability: the runs of a scheduler and the         *)
(* administrators are interchangeable.                                      *)
EXTENDS Availability, TLC

Actors == Permutations(Runs) \union Permutations(Admins) \union Permutations(Incidents)
=============================================================================
