------------------------------- MODULE MCRpc -------------------------------
(***************************************************************************)
(* RpcService on small instances.                                          *)
(***************************************************************************)
EXTENDS RpcService
=============================================================================
