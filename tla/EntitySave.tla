----------------------------- MODULE EntitySave -----------------------------
(***************************************************************************)
(* How TypeORM's Repository.save writes an entity that has an id: it       *)
(* selects the row (seen), then updates the columns in which the entity    *)
(* differs from what it selected, on whatever the row has become by then.  *)
(***************************************************************************)

\* MUTANT of Saved: every column is written, changed or not.
SavedWhole(entity, seen, row) == entity

Saved(entity, seen, row) ==
    [c \in DOMAIN row |-> IF entity[c] # seen[c] THEN entity[c] ELSE row[c]]
=============================================================================
