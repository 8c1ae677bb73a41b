------------------------------- MODULE MCSmtp -------------------------------
(***************************************************************************)
(* Smtp on small instances.                                                *)
(***************************************************************************)
EXTENDS Smtp
=============================================================================
