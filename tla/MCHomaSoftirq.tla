---- MODULE MCHomaSoftirq ----
(* Instantiation of HomaSoftirq for TLC: two hosts, two sender ids. *)
EXTENDS HomaSoftirq, TLC
CONSTANTS a1, a2
MCSrcs == {a1, a2}
MCSymmetry == Permutations(MCSrcs)
====
