------------------------------- MODULE MCSsh --------------------------------
(***************************************************************************)
(* SshClient on small instances.                                           *)
(***************************************************************************)
EXTENDS SshClient
=============================================================================
