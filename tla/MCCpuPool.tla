----------------------------- MODULE MCCpuPool -----------------------------
(* CpuPool on small instances. *)
EXTENDS CpuPool

\* An inline run, and a job of three tasks in two units, the second short.
MCUneven == {1, 3}
=============================================================================
