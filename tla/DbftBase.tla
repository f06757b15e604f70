------------------------------ MODULE DbftBase ------------------------------
(***************************************************************************)
(* What every part of the Neo X dBFT implementation agrees on: the         *)
(* validator set of one block height, the quorum, the primary of a view    *)
(* and the messages of the protocol.                                       *)
(***************************************************************************)
EXTENDS Integers, FiniteSets

CONSTANTS
    N,              \* number of validators in the Governance set
    Height,         \* the block height being agreed on
    HeightModulus,  \* heights the primary selection tells apart (2^32)
    MaxView,        \* bound: the last view (255 in the code)
    Blocks,         \* the blocks that may be proposed, by header
    NoBlock         \* no block

ASSUME NAssumption == N \in Nat \ {0}
ASSUME HeightAssumption == Height \in Nat /\ HeightModulus \in Nat \ {0}
ASSUME MaxViewAssumption == MaxView \in Nat
ASSUME NoBlockAssumption == NoBlock \notin Blocks

Validators == 0 .. N - 1
Views == 0 .. MaxView

(* bft_honest_node_count, and the number of faults that leaves. *)
MaxFaulty == (N - 1) \div 3
Quorum == N - MaxFaulty

(* DbftRoundState::primary_index: the height is truncated first. *)
Primary(v) == ((Height % HeightModulus) + N - (v % N)) % N

(* The nonce of a block's header names the validator that proposed it. *)
ASSUME BlocksAssumption == \A b \in Blocks : b.proposer \in Validators

(* The message kinds, with what the properties tell apart in a payload:    *)
(* the block that is proposed, acknowledged or signed.                     *)
Kinds == {"PrepareRequest", "PrepareResponse", "PreCommit", "Commit",
          "ChangeView"}

Message == [kind : Kinds, view : Views, from : Validators, block : Blocks \cup {NoBlock}]

Msg(k, v, i, b) == [kind |-> k, view |-> v, from |-> i, block |-> b]
=============================================================================
