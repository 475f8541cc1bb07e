---------------------------- MODULE MCServerAux ----------------------------
(***************************************************************************)
(* Constants of the model-checking runs of ServerAux: a server that has    *)
(* Out partners only, so that the phases of the parallel network, not the  *)
(* In list, take up the states.                                            *)
(***************************************************************************)
EXTENDS ServerAux, TLC

CONSTANTS p1, p2

TwoOut == [L \in Lists |-> IF L = "Out" THEN 2 ELSE 0]
OneOut == [L \in Lists |-> IF L = "Out" THEN 1 ELSE 0]
NoDrop == [L \in Lists |-> 0]

SameSize == (p1 :> {1}) @@ (p2 :> {1})
=============================================================================
