-------------------------- MODULE MCDbftConsensus --------------------------
(***************************************************************************)
(* Small instances of DbftConsensus for TLC: four validators, of which 0   *)
(* is the primary of view 0 and 3 the primary of view 1.                   *)
(***************************************************************************)
EXTENDS DbftConsensus

CONSTANTS First, Other    \* what two proposals of one primary differ in

Proposed(i, p) == [proposer |-> i, payload |-> p]

(* One block of each view's primary, or two of the primary of view 0. *)
TwoBlocks == {Proposed(0, First), Proposed(3, First)}
OneViewBlocks == {Proposed(0, First), Proposed(0, Other)}
=============================================================================
