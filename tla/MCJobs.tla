------------------------------- MODULE MCJobs -------------------------------
(***************************************************************************)
(* SlotJobs on small instances.                                            *)
(***************************************************************************)
EXTENDS SlotJobs
=============================================================================
