------------------------------ MODULE MCSetup ------------------------------
(***************************************************************************)
(* A small instance of registrations and seeds.                            *)
(***************************************************************************)
EXTENDS Seeding
=============================================================================
