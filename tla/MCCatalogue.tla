---------------------------- MODULE MCCatalogue ----------------------------
(* Names for the constants of the runs. *)
EXTENDS Catalogue

CONSTANTS i1, i2, i3, q1, q2

=============================================================================
