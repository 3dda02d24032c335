----------------------------- MODULE MCSessions -----------------------------
(***************************************************************************)
(* A small instance of the sessions and the listener.                      *)
(***************************************************************************)
EXTENDS Sessions, TLC

Symmetry == Permutations(Clients) \cup Permutations(Sockets) \cup Permutations(Users)
=============================================================================
