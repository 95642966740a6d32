-------------------------- MODULE MCEnvironmentCache --------------------------
(***************************************************************************)
(* Two submissions that share an environment and one that needs another.   *)
(***************************************************************************)
EXTENDS EnvironmentCache, TLC

CONSTANTS a, b, c, x, y

Needs == (a :> x) @@ (b :> x) @@ (c :> y)
===============================================================================
