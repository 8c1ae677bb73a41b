------------------------------- MODULE MCPop3 -------------------------------
(***************************************************************************)
(* Pop3 on small instances.                                                *)
(***************************************************************************)
EXTENDS Pop3
=============================================================================
