---------------------------- MODULE MCPropagation ----------------------------
(* Two messages for a phone, one of them this node's own, and one for the    *)
(* node itself.                                                              *)
EXTENDS Propagation

MCTo == [m \in Msgs |-> IF m = 2 THEN "here" ELSE "phone"]
=============================================================================
