--------------------------- MODULE BlockFinality ---------------------------
(***************************************************************************)
(* What dBFT promises for one block height: at most one block becomes      *)
(* final, it stays final, and it is the only one a validator imports.  A   *)
(* restart may lose an import, which can only be made good by importing    *)
(* the same block again.                                                   *)
(***************************************************************************)
CONSTANTS Nodes, Blocks, NoBlock

VARIABLES
    final,      \* the final block of the height
    imported    \* the block each node has at the height

Init == final = NoBlock /\ imported = [n \in Nodes |-> NoBlock]

(* A quorum of signatures for b is complete. *)
Finalize(b) == final = NoBlock /\ final' = b /\ UNCHANGED imported

Import(n) ==
    /\ final # NoBlock /\ imported[n] = NoBlock
    /\ imported' = [imported EXCEPT ![n] = final]
    /\ UNCHANGED final

LoseImport(n) == imported' = [imported EXCEPT ![n] = NoBlock] /\ UNCHANGED final

Next ==
    \/ \E b \in Blocks : Finalize(b)
    \/ \E n \in Nodes : Import(n) \/ LoseImport(n)

Spec == Init /\ [][Next]_<<final, imported>>
=============================================================================
