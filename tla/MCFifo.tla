------------------------------- MODULE MCFifo -------------------------------
(***************************************************************************)
(* Fifo on small instances.                                                *)
(***************************************************************************)
EXTENDS Fifo
=============================================================================
