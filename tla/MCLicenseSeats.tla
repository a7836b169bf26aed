---------------------------- MODULE MCLicenseSeats ----------------------------
(* Instances of LicenseSeats for TLC. *)
EXTENDS LicenseSeats, TLC

\* Rows, holders and workers are interchangeable: no action names one.
Symmetry == Permutations(Rows) \cup Permutations(Holders) \cup Permutations(Workers)

=============================================================================
