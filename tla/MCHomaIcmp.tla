---- MODULE MCHomaIcmp ----
(* Instantiation of HomaIcmp for TLC: two hosts, one port, two client RPCs. *)
EXTENDS HomaIcmp, TLC
CONSTANTS h1, h2, r1, r2
MCHosts == {h1, h2}
MCRpcs == {r1, r2}
====
