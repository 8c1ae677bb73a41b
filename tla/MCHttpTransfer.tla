--------------------------- MODULE MCHttpTransfer ---------------------------
(***************************************************************************)
(* HttpTransfer on small instances.                                        *)
(***************************************************************************)
EXTENDS HttpTransfer
=============================================================================
