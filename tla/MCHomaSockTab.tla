---------------------------- MODULE MCHomaSockTab ----------------------------
(* Instantiation of HomaSockTab for TLC. *)
EXTENDS HomaSockTab, TLC

CONSTANTS s1, s2, s3

MCSocks == {s1, s2, s3}
MCSymmetry == Permutations(MCSocks)
=============================================================================
