--------------------------- MODULE MCMessageParts ---------------------------
(***************************************************************************)
(* What a validator keeps of its own and other validators' messages, part  *)
(* by part: the duty journal, the gossip of signed messages and the        *)
(* recovery of a round.  A behaviour exercises one part, chosen at the     *)
(* start; interleaving steps of parts that do not read each other's state  *)
(* would add states and no behaviour of any part.                          *)
(***************************************************************************)
EXTENDS MCDbftRecovery, DbftGossip, DutyJournal

CONSTANTS s1, s2, c1, c2, peer

VARIABLE part

(* Two messages of one validator and one of another; two connections of    *)
(* one peer, of which the second may be refused or outlive the first.      *)
MCWireMessages ==
    {[no |-> 1, sender |-> s1, index |-> 1, height |-> 1, bytes |-> 1],
     [no |-> 2, sender |-> s1, index |-> 1, height |-> 1, bytes |-> 2],
     [no |-> 3, sender |-> s2, index |-> 1, height |-> 1, bytes |-> 1]}
MCCommittees == {<<s1>>, <<s2>>}
MCPeerOf == [c \in {c1, c2} |-> peer]

partVars == <<part, vars, gossipVars, recoveryVars>>

PartsInit ==
    /\ part \in {"journal", "gossip", "recovery"}
    /\ Init /\ GossipInit /\ RecoveryInit

Journal ==
    part = "journal" /\ Next /\ UNCHANGED <<part, gossipVars, recoveryVars>>

Gossip ==
    part = "gossip" /\ GossipNext /\ UNCHANGED <<part, vars, recoveryVars>>

Recovery ==
    part = "recovery" /\ RecoveryNext /\ UNCHANGED <<part, vars, gossipVars>>

PartsNext == Journal \/ Gossip \/ Recovery

PartsSpec == PartsInit /\ [][PartsNext]_partVars

(* The shape of what is kept: the gossip cache within its bounds, no       *)
(* sender beyond its share, the bytes counted those held, and the channel  *)
(* of events with room for all that was reserved.                          *)
MessageStateOK ==
    /\ GossipTypeOK /\ CacheBounded /\ ChannelFits
    /\ RecoveryTypeOK

=============================================================================
