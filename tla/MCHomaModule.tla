---------------------------- MODULE MCHomaModule ----------------------------
(* Instantiation of HomaModule for TLC: every step that can fail may, and  *)
(* one namespace besides init_net can come and go.                         *)
EXTENDS HomaModule

CONSTANTS n0, n1

MCCanFail == Failing
MCNets == {n0, n1}
=============================================================================
