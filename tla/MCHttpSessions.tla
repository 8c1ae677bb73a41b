--------------------------- MODULE MCHttpSessions ---------------------------
(***************************************************************************)
(* HttpSessions on a small instance: two browsers, services that may be    *)
(* shared between sessions, and more requests than session IDs.            *)
(***************************************************************************)
EXTENDS HttpSessions, TLC

Symmetry == Permutations(Keys) \cup Permutations(Devices) \cup Permutations(Services)
=============================================================================
