---- MODULE MCHomaWmem ----
(* Instantiation of HomaWmem for TLC: three senders, four RPC records. *)
EXTENDS HomaWmem, TLC
CONSTANTS t1, t2, t3, s1, s2, s3, s4
MCThreads == {t1, t2, t3}
MCSlots == {s1, s2, s3, s4}
====
