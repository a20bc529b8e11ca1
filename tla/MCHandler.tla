----------------------------- MODULE MCHandler -----------------------------
(* Handler for TLC. *)
EXTENDS Handler

CONSTANTS t1, m1, m2

MCTasks == {t1}
MCMessages == {m1, m2}
=============================================================================
