---------------------------- MODULE MCProcesses ----------------------------
(* Two Exec objects, both of them in a pipe; one of them ignores exit codes. *)
EXTENDS Processes

CONSTANTS e1, e2

MCExecs == {e1, e2}
MCItems == <<e1, e2>>
MCIgnoring == {e2}
MCFirst == {e1}
=============================================================================
