---------------------------- MODULE MCHomaSocket ----------------------------
(* Instantiation of HomaSocket for TLC. *)
EXTENDS HomaSocket, TLC

CONSTANTS t1, t2, e1

MCThreads == {t1, t2}
MCAbortErrors == {e1}

MCSymmetry == Permutations(MCThreads)
=============================================================================
