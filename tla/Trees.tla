-------------------------------- MODULE Trees --------------------------------
(* Trees as sequences of nodes: the children of a node are the numbers of    *)
(* nodes before it, and the last node is the root.                           *)
EXTENDS Naturals, Sequences, SequencesExt

\* For each node that has inputs, the nodes from it downwards in preorder.
PreOrders(inputs) ==
  LET From[i \in DOMAIN inputs] ==
        <<i>> \o FlattenSeq([k \in DOMAIN inputs[i] |-> From[inputs[i][k]]])
  IN From
=============================================================================
