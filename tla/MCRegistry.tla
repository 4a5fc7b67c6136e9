------------------------------ MODULE MCRegistry ------------------------------
(***************************************************************************)
(* Four requests for three names, two of them for the same one.            *)
(***************************************************************************)
EXTENDS Registry, TLC

CONSTANTS app, lib, web, r1, r2, r3, r4

MCNameOf == (r1 :> app) @@ (r2 :> lib) @@ (r3 :> web) @@ (r4 :> app)
=============================================================================
