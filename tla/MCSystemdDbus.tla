----------------------------- MODULE MCSystemdDbus ----------------------------
(* TLC instances of SystemdDbus. *)
EXTENDS SystemdDbus, TLC

UnitSymmetry == Permutations(Units \ Ignored)

=============================================================================
