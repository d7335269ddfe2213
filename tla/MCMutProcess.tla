---------------------------- MODULE MCMutProcess ----------------------------
(* A small target for MutProcess: three functions at 0, 2 and 4, cfree an    *)
(* alias of free, no calloc; a call site in the program and one in the       *)
(* library; one instruction int3 of the target's own.  Words of two bytes.   *)
EXTENDS MutProcess

MCFn == {"malloc", "calloc", "realloc", "free", "cfree"}
MCManage == <<"malloc", "calloc", "realloc", "free", "cfree">>
MCFound == MCFn \ {"calloc"}
MCAddrOf == [f \in MCFound |-> CASE f = "malloc" -> 0 [] f = "realloc" -> 2 [] OTHER -> 4]
MCConsumers == {"free", "cfree"}
MCTextAddr == -2..13
MCOrig == [x \in MCTextAddr |-> IF x = 12 THEN "int3" ELSE "own"]
MCSites == {6, 8}
MCOther == {12}
=============================================================================
