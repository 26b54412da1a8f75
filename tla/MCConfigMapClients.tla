------------------------- MODULE MCConfigMapClients -------------------------
(* Model-checking instance of ConfigMapClients.                            *)
EXTENDS ConfigMapClients, TLC

(* Every map starts empty.                                                 *)
MCInitialContents == {[n \in Names |-> EmptyMap]}
=============================================================================
