---------------------------- MODULE MCReadModels ----------------------------
(***************************************************************************)
(* A small instance of the caches.  Its player has no podium at first: the *)
(* first request that saves one inserts the row the later ones find.  An   *)
(* empty database has no settings yet: a request or the seed makes them.   *)
(***************************************************************************)
EXTENDS ReadModels

MCInit ==
    /\ Init
    /\ \A u \in Players : podium[u] = "missing"
    /\ version["teams"] = 0 => config["podium_deadline"] = NULL /\ config["reveal_predictions"] = 0

MCSpec == MCInit /\ [][Next]_vars
=============================================================================
