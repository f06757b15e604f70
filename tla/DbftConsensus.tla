---------------------------- MODULE DbftConsensus ----------------------------
(***************************************************************************)
(* The validators of one Neo X block height, running the dBFT driver of    *)
(* crates/neox/node/src/sync.rs over the round state of validator.rs and   *)
(* the signer of signer.rs.                                                *)
(*                                                                         *)
(* `msgs' is every message a correct validator has signed.  The network    *)
(* may lose, delay, duplicate and reorder: a validator has received any    *)
(* part of msgs, so a step that needs a quorum of messages is enabled as   *)
(* soon as msgs holds one, and may be taken at any later time or never.    *)
(* A faulty validator may have signed anything: it is counted in every     *)
(* quorum.  A message is never forgotten, so msgs is also what the duty    *)
(* journal of every validator holds (modules DutyJournal, SafeSigner).     *)
(***************************************************************************)
EXTENDS DbftBase

CONSTANTS
    Faulty,       \* the faulty validators
    AntiMev,      \* whether the height requires the Anti-MEV pre-commit phase
    MaxCrashes    \* bound: crashes of correct validators

ASSUME FaultyAssumption ==
    Faulty \subseteq Validators /\ Cardinality(Faulty) <= MaxFaulty
ASSUME AntiMevAssumption == AntiMev \in BOOLEAN
ASSUME MaxCrashesAssumption == MaxCrashes \in Nat

Correct == Validators \ Faulty

VARIABLES
    msgs,       \* messages signed by correct validators
    view,       \* current_view of each round
    proposal,   \* the accepted PrepareRequest of each view
    stage,      \* how far the execution of each view's proposal got
    own,        \* own messages kept in the round, as <<kind, view>>
    reached,    \* history: the highest view each validator was ever in
    imported,   \* the sealed block of this height in the local chain
    crashes     \* number of crashes so far

vars == <<msgs, view, proposal, stage, own, reached, imported, crashes>>

(* A proposal is "pending" while its transactions are fetched and executed. *)
(* It is in verified_proposals when it is "pre" (an Anti-MEV proposal whose *)
(* envelopes are still encrypted) or "final" (its header is known).         *)
Stages == {"none", "pending", "pre", "final"}
Contributions == {"PreCommit", "Commit"}

Init ==
    /\ msgs = {}
    /\ view = [n \in Correct |-> 0]
    /\ proposal = [n \in Correct |-> [v \in Views |-> NoBlock]]
    /\ stage = [n \in Correct |-> [v \in Views |-> "none"]]
    /\ own = [n \in Correct |-> {}]
    /\ reached = [n \in Correct |-> 0]
    /\ imported = [n \in Correct |-> NoBlock]
    /\ crashes = 0
-----------------------------------------------------------------------------
(* The validators that may have signed a message of this kind, view and    *)
(* block, as any receiver can see.                                         *)
Signers(k, v, b) == {m.from : m \in {x \in msgs : x.kind = k /\ x.view = v /\ x.block = b}}
Voters(k, v, b) == Signers(k, v, b) \cup Faulty

(* As JournalAllows, had the journal only recorded the Commit duties.     *)
JournalAllowsPreparations(k, n, v, b) ==
    \A m \in msgs : k = "Commit" /\ m.kind = k /\ m.from = n /\ m.view = v => m.block = b

(* The duty journal: another payload for a duty already signed is refused. *)
JournalAllows(k, n, v, b) ==
    \A m \in msgs : m.kind = k /\ m.from = n /\ m.view = v => m.block = b

(* As HeaderAllows, had the header duty been recorded under its view.     *)
HeaderAllowsPerView(n, b) ==
    \A m \in msgs : m.kind = "Commit" /\ m.from = n /\ m.view = view[n] => m.block = b

(* The header duty: one header per height, in whatever view it was signed. *)
HeaderAllows(n, b) ==
    \A m \in msgs : m.kind = "Commit" /\ m.from = n => m.block = b

(* DbftRoundState::progress: the primary's request and matching responses  *)
(* of the others reach the quorum ...                                      *)
Prepared(v, b) ==
    Cardinality({Primary(v)} \cup (Voters("PrepareResponse", v, b) \ {Primary(v)}))
        >= Quorum

(* ... and, with Anti-MEV, so do the decryption shares of the view.        *)
PreCommits(v) == UNION {Voters("PreCommit", v, b) : b \in Blocks}

(* As PreCommitted, had the shares of the view not been awaited.          *)
PreCommittedEarly(v, b) == Prepared(v, b)

PreCommitted(v, b) ==
    /\ Prepared(v, b)
    /\ AntiMev => Cardinality(PreCommits(v)) >= Quorum

(* As Committed, with one commit too few.                                 *)
CommittedShort(v, b) ==
    /\ PreCommitted(v, b)
    /\ Cardinality(Voters("Commit", v, b)) >= Quorum - 1

(* verify_commit_quorum: a quorum of the view's commits signs the header.  *)
Committed(v, b) ==
    /\ PreCommitted(v, b)
    /\ Cardinality(Voters("Commit", v, b)) >= Quorum

(* A header with a quorum of validator signatures, in whatever views they  *)
(* were given: what any node accepts as the block of this height.          *)
HeaderSigners(b) == UNION {Voters("Commit", v, b) : v \in Views}
Sealed(b) == Cardinality(HeaderSigners(b)) >= Quorum

(* validate_proposal_primary: the nonce of the header is the index of the  *)
(* view's primary.                                                         *)
NamesPrimary(b, v) == b.proposer = Primary(v)

(* The round of this height is still active at n. *)
Active(n) == imported[n] = NoBlock

(* The proposal of view v, executed and kept in verified_proposals. *)
Verified(n, v) == stage[n][v] \in {"pre", "final"}

Publish(m) == msgs' = msgs \cup {m}

(* A new round: activate_dbft_round after a restart or for the next height. *)
ResetRound(n) ==
    /\ view' = [view EXCEPT ![n] = 0]
    /\ proposal' = [proposal EXCEPT ![n] = [v \in Views |-> NoBlock]]
    /\ stage' = [stage EXCEPT ![n] = [v \in Views |-> "none"]]
    /\ own' = [own EXCEPT ![n] = {}]
-----------------------------------------------------------------------------
(* handle_primary_proposal: the block built for the current view is signed *)
(* as its PrepareRequest, unless there is a proposal already, and executed *)
(* again unless it could not be published.                                 *)
Propose(n, b) ==
    LET v == view[n] IN
    /\ Active(n)
    /\ n = Primary(v) /\ b.proposer = n
    /\ proposal[n][v] = NoBlock
    /\ JournalAllows("PrepareRequest", n, v, b)
    /\ Publish(Msg("PrepareRequest", v, n, b))
    /\ proposal' = [proposal EXCEPT ![n][v] = b]
    /\ \/ stage' = [stage EXCEPT ![n][v] = "pending"]
       \/ UNCHANGED stage
    /\ UNCHANGED <<view, own, reached, imported, crashes>>

(* process, PrepareRequest: the primary's first one of the current view is *)
(* accepted, whatever it proposes, and its transactions are recovered.     *)
AcceptProposal(n, b) ==
    LET v == view[n] IN
    /\ Active(n)
    /\ proposal[n][v] = NoBlock
    /\ Primary(v) \in Voters("PrepareRequest", v, b)
    /\ proposal' = [proposal EXCEPT ![n][v] = b]
    /\ stage' = [stage EXCEPT ![n][v] = "pending"]
    /\ UNCHANGED <<msgs, view, own, reached, imported, crashes>>

(* handle_proposal_verification, the proposal executed well: it is kept,   *)
(* and a backup signs its PrepareResponse if the journal lets it.          *)
VerifyProposal(n) ==
    LET v == view[n]
        b == proposal[n][v] IN
    /\ Active(n)
    /\ stage[n][v] = "pending"
    /\ NamesPrimary(b, v)
    /\ stage' = [stage EXCEPT ![n][v] = IF AntiMev THEN "pre" ELSE "final"]
    /\ IF n # Primary(v) /\ JournalAllows("PrepareResponse", n, v, b)
       THEN Publish(Msg("PrepareResponse", v, n, b))
       ELSE UNCHANGED msgs
    /\ UNCHANGED <<view, proposal, own, reached, imported, crashes>>

(* maybe_publish_antimev_precommit, in any view whose verified proposal is *)
(* still kept.                                                             *)
SendPreCommit(n, v) ==
    LET b == proposal[n][v] IN
    /\ Active(n) /\ AntiMev
    /\ Verified(n, v) /\ Prepared(v, b)
    /\ <<"PreCommit", v>> \notin own[n]
    /\ JournalAllows("PreCommit", n, v, b)
    /\ Publish(Msg("PreCommit", v, n, b))
    /\ own' = [own EXCEPT ![n] = @ \cup {<<"PreCommit", v>>}]
    /\ UNCHANGED <<view, proposal, stage, reached, imported, crashes>>

(* handle_antimev_reconstruction: the shares gave the final block.         *)
Reconstruct(n) ==
    LET v == view[n] IN
    /\ Active(n)
    /\ stage[n][v] = "pre" /\ PreCommitted(v, proposal[n][v])
    /\ stage' = [stage EXCEPT ![n][v] = "final"]
    /\ UNCHANGED <<msgs, view, proposal, own, reached, imported, crashes>>

(* maybe_publish_antimev_commit and maybe_publish_pre_antimev_commit: the  *)
(* header duty is recorded first, then the duty of this view's Commit.     *)
SendCommit(n, v) ==
    LET b == proposal[n][v] IN
    /\ Active(n)
    /\ stage[n][v] = "final" /\ PreCommitted(v, b)
    /\ <<"Commit", v>> \notin own[n]
    /\ HeaderAllows(n, b)
    /\ JournalAllows("Commit", n, v, b)
    /\ Publish(Msg("Commit", v, n, b))
    /\ own' = [own EXCEPT ![n] = @ \cup {<<"Commit", v>>}]
    /\ UNCHANGED <<view, proposal, stage, reached, imported, crashes>>

(* schedule_committed_proposal and import_committed_block: the proposal    *)
(* leaves verified_proposals whether or not the engine takes the block.    *)
ImportCommitted(n, v) ==
    LET b == proposal[n][v] IN
    /\ Active(n)
    /\ stage[n][v] = "final" /\ Committed(v, b)
    /\ \/ imported' = [imported EXCEPT ![n] = b] /\ ResetRound(n)
       \/ /\ stage' = [stage EXCEPT ![n][v] = "none"]
          /\ UNCHANGED <<view, proposal, own, imported>>
    /\ UNCHANGED <<msgs, reached, crashes>>

(* import_propagated_block: a peer sends the sealed block.                 *)
ImportPropagated(n, b) ==
    /\ Active(n)
    /\ Sealed(b)
    /\ imported' = [imported EXCEPT ![n] = b]
    /\ ResetRound(n)
    /\ UNCHANGED <<msgs, reached, crashes>>
-----------------------------------------------------------------------------
(* process, ChangeView: the validators whose latest request targets t or   *)
(* a later view.                                                           *)
Requesting(t) ==
    {m.from : m \in {x \in msgs : x.kind = "ChangeView" /\ x.view + 1 >= t}} \cup Faulty

EnterView(n, t) ==
    /\ view' = [view EXCEPT ![n] = t]
    /\ reached' = [reached EXCEPT ![n] = IF @ < t THEN t ELSE @]

(* process_dbft_messages, a received ChangeView completes the quorum: the  *)
(* round moves to its target and the verified proposals are dropped.       *)
ChangeView(n, t) ==
    /\ Active(n)
    /\ t > view[n]
    /\ Faulty # {} \/ \E m \in msgs : m.kind = "ChangeView" /\ m.view + 1 = t
    /\ Cardinality(Requesting(t)) >= Quorum
    /\ EnterView(n, t)
    /\ stage' = [stage EXCEPT ![n] = [v \in Views |-> "none"]]
    /\ UNCHANGED <<msgs, proposal, own, imported, crashes>>

(* As AskChangeView, without the checked addition at the last view.       *)
AskChangeViewUnchecked(n) ==
    LET v == view[n] IN
    /\ Publish(Msg("ChangeView", v, n, NoBlock))
    /\ own' = [own EXCEPT ![n] = @ \cup {<<"ChangeView", v>>}]
    /\ \/ UNCHANGED <<view, reached>>
       \/ /\ <<"ChangeView", v>> \notin own[n]
          /\ Cardinality(Requesting(v + 1) \cup {n}) >= Quorum
          /\ EnterView(n, v + 1)

(* publish_local_change_view: the validator asks to leave its view.  Its   *)
(* request may complete the quorum, and the round moves on with what is in *)
(* verified_proposals; one already in the round is only published again.   *)
AskChangeView(n) ==
    LET v == view[n] IN
    /\ v < MaxView
    /\ Publish(Msg("ChangeView", v, n, NoBlock))
    /\ own' = [own EXCEPT ![n] = @ \cup {<<"ChangeView", v>>}]
    /\ \/ UNCHANGED <<view, reached>>
       \/ /\ <<"ChangeView", v>> \notin own[n]
          /\ Cardinality(Requesting(v + 1) \cup {n}) >= Quorum
          /\ EnterView(n, v + 1)

(* handle_proposal_verification, or ProposalRecovery::begin, rejects the   *)
(* proposal of the current view: it is not executed again.                 *)
RejectProposal(n) ==
    LET v == view[n] IN
    /\ Active(n)
    /\ stage[n][v] = "pending"
    /\ stage' = [stage EXCEPT ![n][v] = "none"]
    /\ IF v < MaxView THEN AskChangeView(n) ELSE UNCHANGED <<msgs, view, own, reached>>
    /\ UNCHANGED <<proposal, imported, crashes>>

HasContributed(n, v) == \E k \in Contributions : <<k, v>> \in own[n]
HasAnyContribution(n) == \E v \in Views : HasContributed(n, v)

(* more_than_f_committed_or_failed is false for some of the messages n may *)
(* have received: all validators but f were heard of in this view or later *)
(* and not by a PreCommit or a Commit.  A validator that was in the view   *)
(* may have sent a RecoveryRequest or a RecoveryMessage there, which carry *)
(* nothing that msgs does not hold.                                        *)
HeardOf(v) == Faulty \cup {i \in Correct : reached[i] >= v}

MayChangeView(n, v) ==
    Cardinality((Validators \ (HeardOf(v) \cup {n}))
                  \cup (IF HasAnyContribution(n) THEN {n} ELSE {})) <= MaxFaulty

(* handle_dbft_timeout: a primary without a proposal only waits again, and *)
(* a validator that has contributed, or finds too many others committed or *)
(* lost, only sends or asks for recovery.  The rest ask to change view and *)
(* give up the transactions they still wait for.                           *)
Timeout(n) ==
    LET v == view[n] IN
    /\ Active(n)
    /\ ~(n = Primary(v) /\ proposal[n][v] = NoBlock)
    /\ ~HasContributed(n, v) /\ MayChangeView(n, v)
    /\ AskChangeView(n)
    /\ \/ UNCHANGED stage
       \/ /\ stage[n][v] = "pending"
          /\ stage' = [stage EXCEPT ![n][v] = "none"]
    /\ UNCHANGED <<proposal, imported, crashes>>

(* process, RecoveryMessage: after a restart the validator's own messages  *)
(* come back to it, contributions only in the views it has reached.        *)
RecoverOwn(n) ==
    /\ Active(n)
    /\ \E m \in msgs :
          /\ m.from = n
          /\ \/ m.kind \in Contributions /\ m.view <= view[n]
             \/ m.kind = "ChangeView"
          /\ <<m.kind, m.view>> \notin own[n]
          /\ own' = [own EXCEPT ![n] = @ \cup {<<m.kind, m.view>>}]
    /\ UNCHANGED <<msgs, view, proposal, stage, reached, imported, crashes>>

(* The process stops and starts again: the journal is on disk, the round   *)
(* is not, and the imported block may not have been written yet.           *)
Crash(n) ==
    /\ crashes < MaxCrashes
    /\ crashes' = crashes + 1
    /\ ResetRound(n)
    /\ \/ UNCHANGED imported
       \/ imported' = [imported EXCEPT ![n] = NoBlock]
    /\ UNCHANGED <<msgs, reached>>
-----------------------------------------------------------------------------
Next ==
    \E n \in Correct :
        \/ \E b \in Blocks :
              \/ Propose(n, b)
              \/ AcceptProposal(n, b)
              \/ ImportPropagated(n, b)
        \/ \E v \in Views :
              \/ SendPreCommit(n, v)
              \/ SendCommit(n, v)
              \/ ImportCommitted(n, v)
              \/ ChangeView(n, v)
        \/ VerifyProposal(n)
        \/ RejectProposal(n)
        \/ Reconstruct(n)
        \/ Timeout(n)
        \/ RecoverOwn(n)
        \/ Crash(n)

Spec == Init /\ [][Next]_vars
-----------------------------------------------------------------------------
(* Type correctness of the rounds: no view beyond the last one, and only   *)
(* what validators of this height may sign.                                *)
TypeOK ==
    /\ msgs \in SUBSET Message
    /\ view \in [Correct -> Views]
    /\ proposal \in [Correct -> [Views -> Blocks \cup {NoBlock}]]
    /\ stage \in [Correct -> [Views -> Stages]]
    /\ own \in [Correct -> SUBSET (Kinds \X Views)]
    /\ reached \in [Correct -> Views]
    /\ imported \in [Correct -> Blocks \cup {NoBlock}]
    /\ crashes \in Nat

(* One block per height: no two different headers ever collect a quorum of *)
(* signatures, in whatever views they were given (DbftSigner's header duty *)
(* is the only lock that outlives a view change or a restart).             *)
OneSealPerHeight == \A a, b \in Blocks : Sealed(a) /\ Sealed(b) => a = b

(* Correct validators never import different blocks at the height, by      *)
(* import_committed_block or by import_propagated_block.                   *)
Agreement ==
    \A n, o \in Correct :
        imported[n] # NoBlock /\ imported[o] # NoBlock => imported[n] = imported[o]

(* In one view at most one block is proposed and collects a preparation    *)
(* quorum (DbftRoundState::progress), even when the primary sends          *)
(* different proposals and validators restart between them.                *)
OnePreparedPerView ==
    \A v \in Views : \A a, b \in Blocks :
        /\ Prepared(v, a) /\ Primary(v) \in Voters("PrepareRequest", v, a)
        /\ Prepared(v, b) /\ Primary(v) \in Voters("PrepareRequest", v, b)
        => a = b

(* A sealed block went through every phase in one view: its proposer was   *)
(* the primary, a quorum prepared it and, with Anti-MEV, a quorum had      *)
(* released decryption shares before any correct validator signed it.      *)
SealedAfterShares ==
    \A b \in Blocks : Sealed(b) =>
        \E v \in Views :
            /\ b.proposer = Primary(v)
            /\ Prepared(v, b)
            /\ AntiMev => Cardinality(PreCommits(v)) >= Quorum

(* dBFT implements single-block finality: the block with a quorum of       *)
(* header signatures is final.                                             *)
FinalBlock == IF \E b \in Blocks : Sealed(b) THEN CHOOSE b \in Blocks : Sealed(b) ELSE NoBlock

Finality == INSTANCE BlockFinality WITH Nodes <- Correct, final <- FinalBlock

FinalitySpec == Finality!Spec
=============================================================================
