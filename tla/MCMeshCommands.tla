--------------------------- MODULE MCMeshCommands ---------------------------
(***************************************************************************)
(* The commands of the mesh demo, two in a row, with words that all stand  *)
(* for one number but one of them.                                         *)
(***************************************************************************)
EXTENDS MeshCommands

\* Zero, a number of more than eight bits, a vendor's model identifier of more
\* than sixteen, and the lengths that a uuid and its handlers ask for.
MCNumbers == {0, 1, 257, 104660993}
MCAssignments ==
  {[word \in Words |-> IF word = odd THEN n ELSE m] :
     odd \in Words, m \in {1, 32}, n \in MCNumbers}
=============================================================================
