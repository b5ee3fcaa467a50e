---------------------------- MODULE MCHomaConnect ----------------------------
(* Instantiation of HomaConnect for TLC. *)
EXTENDS HomaConnect

CONSTANTS t1, h1, h2

MCThreads == {t1}
MCHosts == {h1, h2}
=============================================================================
