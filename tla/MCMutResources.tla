--------------------------- MODULE MCMutResources ---------------------------
(* Three addresses, so that a list has a first, a middle and a last resource, *)
(* and enough backtraces for all of them, their consumers and one handler.    *)
EXTENDS MutResources

MCAddr == {8, 16, 24}
MCSize == {4}
MCBt == 1..7
=============================================================================
