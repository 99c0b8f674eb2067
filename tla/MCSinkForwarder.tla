-------------------------- MODULE MCSinkForwarder --------------------------
(* SinkForwarder on small instances. *)
EXTENDS SinkForwarder

CONSTANTS t1, t2, t3
=============================================================================
