---------------------------- MODULE MCSyncParts ----------------------------
(***************************************************************************)
(* Parts of the sync driver that ask peers for something, the transactions *)
(* of a proposal, announced heads and the sidecars of blocks, and the      *)
(* imports that move the canonical head.                                   *)
(* A behaviour exercises one of them, chosen at the start; interleaving    *)
(* steps of parts that do not read each other's state would add states and *)
(* no behaviour of any part.                                               *)
(***************************************************************************)
EXTENDS ProposalSync, DescendantSync, SidecarSync, ChainImports

CONSTANTS h1, h2

VARIABLE part

MCTargets == {[hash |-> h1, number |-> 2], [hash |-> h1, number |-> 3],
              [hash |-> h2, number |-> 3]}

partVars == <<part, proposalVars, descendantVars, sidecarVars, chainVars>>

PartsInit ==
    /\ part \in {"proposal", "descendant", "sidecar", "chain"}
    /\ ProposalInit /\ DescendantInit /\ SidecarInit /\ ChainInit

Proposal == part = "proposal" /\ ProposalNext /\ UNCHANGED <<part, descendantVars, sidecarVars, chainVars>>
Descendant == part = "descendant" /\ DescendantNext /\ UNCHANGED <<part, proposalVars, sidecarVars, chainVars>>
Sidecar == part = "sidecar" /\ SidecarNext /\ UNCHANGED <<part, proposalVars, descendantVars, chainVars>>
Chain == part = "chain" /\ ChainNext /\ UNCHANGED <<part, proposalVars, descendantVars, sidecarVars>>

PartsNext == Proposal \/ Descendant \/ Sidecar \/ Chain

(* The fairness of each part, while it is the one that moves. *)
PartsFairness ==
    /\ WF_proposalVars(part = "proposal" /\ ExpireRequests(PendingViews(txSync) \ Idle(txSync)))
    /\ SF_proposalVars(/\ part = "proposal"
                       /\ \E p \in Helpful, i \in Ids, txs \in SUBSET Txs : Supply(p, i, txs))
    /\ WF_descendantVars(part = "descendant" /\ RetryTarget)
    /\ WF_descendantVars(part = "descendant" /\ PauseEnds)
    /\ WF_descendantVars(/\ part = "descendant"
                         /\ \E terminal \in BOOLEAN : CompleteRequest(terminal))
    /\ WF_sidecarVars(part = "sidecar" /\ \E p \in Holders : ConnectBeacon(p))
    /\ WF_sidecarVars(part = "sidecar" /\ Ticks)
    /\ SF_sidecarVars(part = "sidecar" /\ HolderAnswers)

PartsSpec == PartsInit /\ [][PartsNext]_partVars /\ PartsFairness

(* The shape of what is asked of peers: a fetch is of the current view,    *)
(* and its candidates are exactly the connected peers; a block's sidecars  *)
(* are asked for in one place at a time, and never of the peer for which   *)
(* the request is forwarded, however requests fail, time out, are split    *)
(* and queued again; the Engine's tree has the ancestors of its blocks.    *)
SyncStateOK ==
    /\ ProposalTypeOK /\ FetchesCurrent /\ CandidatesConnected
    /\ DescendantTypeOK
    /\ SidecarTypeOK /\ AskedOnce /\ NotSentBack
    /\ ChainTypeOK

=============================================================================
