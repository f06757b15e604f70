--------------------------- MODULE MCDbftRecovery ---------------------------
(***************************************************************************)
(* Instances of DbftRecovery for TLC: four validators, of which 0 is the   *)
(* primary of view 0 and 3 the primary of view 1.                          *)
(***************************************************************************)
EXTENDS DbftRecovery

CONSTANTS First, Other    \* what two proposals of one primary differ in

FirstBlock == [proposer |-> 0, payload |-> First]
OtherBlock == [proposer |-> 0, payload |-> Other]
LaterBlock == [proposer |-> 3, payload |-> First]
MCBlocks == {FirstBlock, OtherBlock, LaterBlock}

Asks(i, v) == Msg("ChangeView", v, i, NoBlock)

(* View 0 is left after validator 1 committed to its block; 0 soon asks to *)
(* leave view 1 as well, where others prepare.                             *)
TwoViewsSent ==
    {Asks(0, 0), Asks(2, 0), Asks(3, 0), Asks(0, 1),
     Msg("PrepareRequest", 0, 0, FirstBlock), Msg("Commit", 0, 1, FirstBlock),
     Msg("PrepareRequest", 1, 3, LaterBlock), Msg("PrepareResponse", 1, 0, LaterBlock),
     Msg("Commit", 1, 3, LaterBlock)}

(* The responses of one view acknowledge two requests of its primary. *)
TwoHashesSent ==
    {Msg("PrepareRequest", 0, 0, FirstBlock), Msg("PrepareResponse", 0, 1, FirstBlock),
     Msg("PrepareResponse", 0, 3, OtherBlock)}
=============================================================================
