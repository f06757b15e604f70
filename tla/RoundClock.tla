----------------------------- MODULE RoundClock -----------------------------
(***************************************************************************)
(* The sync driver of one node as the owner of the dBFT round: which       *)
(* canonical head the round stands on, which timeout is armed for it and   *)
(* which proposal builds run for it.  Sleeps, builds, canonical            *)
(* notifications and peers' messages interleave with the driver's loop;    *)
(* what the round itself concludes from a message is left to DbftConsensus *)
(* and appears here as the outcomes the driver reacts to.                  *)
(***************************************************************************)
EXTENDS Naturals, Sequences, FiniteSets

CONSTANTS
    MaxNumber,      \* highest block number
    MaxView,        \* 255 in the code
    Variants,       \* 0 .. n: differently sealed blocks of one number
    N, Local,       \* the validators, and the index of this one
    MaxNotes,       \* notifications the stream holds
    MaxTokens,      \* tokens the timer's channel holds
    Nil

ASSUME ClockAssumption ==
    /\ MaxNumber \in Nat /\ MaxView \in Nat
    /\ Nil \notin Nat \X Nat
    /\ Nil \notin [height : Nat, view : Nat, member : BOOLEAN,
                  proposal : BOOLEAN, here : BOOLEAN, ever : BOOLEAN, voted : BOOLEAN]

VARIABLES
    canon,          \* the provider's canonical chain: the variant of each number
    notes,          \* tips of the notifications not yet seen
    status,         \* the chain up to beacon.status()
    round,          \* dbft_round, with what the driver asks of it
    activeHead,     \* active_round_head
    timer,          \* the armed (height, view), its delay, and whether it sleeps
    channel,        \* tokens sent, and whether the timer would still take them
    builds,         \* primary_builds
    building,       \* build tasks per (height, view) whose result is not handled
    replaying       \* the epoch changed: cached messages are replayed next

driver == <<status, round, activeHead, replaying>>
clock == <<timer, channel>>
tasks == <<builds, building>>
clockVars == <<canon, notes, driver, clock, tasks>>

Chains == UNION {[1 .. n -> Variants] : n \in 0 .. MaxNumber}
ClockViews == 0 .. MaxView
Epochs == (1 .. MaxNumber + 1) \X ClockViews
RoundState == [height : 1 .. MaxNumber + 1, view : ClockViews, member : BOOLEAN,
               proposal : BOOLEAN, here : BOOLEAN, ever : BOOLEAN, voted : BOOLEAN]

(* here, ever: the own PreCommit or Commit of this view, of any view.  *)
RoundAt(h, member) ==
    [height |-> h, view |-> 0, member |-> member, proposal |-> FALSE,
     here |-> FALSE, ever |-> FALSE, voted |-> FALSE]

InView(r, v) == [r EXCEPT !.view = v, !.proposal = FALSE, !.here = FALSE, !.voted = FALSE]

Epoch(r) == IF r = Nil THEN Nil ELSE <<r.height, r.view>>
Validating(r) == r # Nil /\ r.member
Leads(r) == r.member /\ (r.height + N - (r.view % N)) % N = Local

(* Delays in block periods. *)
RoundTimeout(r) == IF ~Leads(r) THEN 2 ^ (r.view + 1) ELSE IF r.view = 0 THEN 1 ELSE 0
PostProposalTimeout(v) == IF v = 0 THEN 1 ELSE 2 ^ (v + 1)
ChangeViewTimeout(v) == 2 ^ (v + 2)
ContributionTimeout == 1
RecoveryTimeout == 2

Unarmed == [armed |-> Nil, delay |-> 0, asleep |-> FALSE]

(* Every arm and disarm advances the generation: no token sent before is   *)
(* taken again.  The superseded sleep is aborted, unless it is just over.  *)
Superseded(t, ch) ==
    LET old == {[k EXCEPT !.live = FALSE] : k \in ch}
        late == old \cup {[epoch |-> t.armed, live |-> FALSE]}
    IN  IF t.asleep /\ Cardinality(late) < MaxTokens THEN {old, late} ELSE {old}

Arm(t, ch, e, delay) ==
    /\ timer' = [armed |-> e, delay |-> delay, asleep |-> TRUE]
    /\ channel' \in Superseded(t, ch)

Disarm(t, ch) == timer' = Unarmed /\ channel' \in Superseded(t, ch)

Reset(t, ch, r) ==
    IF Validating(r) THEN Arm(t, ch, Epoch(r), RoundTimeout(r)) ELSE Disarm(t, ch)

(* maybe_schedule_primary_proposal, after b builds are known. *)
ScheduleBuild(r, b) ==
    IF r # Nil /\ Leads(r) /\ ~r.proposal /\ Epoch(r) \notin b
    THEN /\ builds' = b \cup {Epoch(r)}
         /\ building' = [building EXCEPT ![Epoch(r)] = @ + 1]
    ELSE builds' = b /\ UNCHANGED building

(* The end of a loop iteration compares the epoch with the one before. *)
Settle(r) ==
    /\ round' = r
    /\ replaying' = (r # Nil /\ (replaying \/ Epoch(r) # Epoch(round)))

ClockInit ==
    /\ canon = <<>> /\ notes = <<>> /\ status = <<>>
    /\ round \in {Nil} \cup {RoundAt(1, member) : member \in BOOLEAN}
    /\ activeHead = (IF round = Nil THEN Nil ELSE <<>>) /\ replaying = FALSE
    /\ timer = IF Validating(round)
               THEN [armed |-> Epoch(round), delay |-> RoundTimeout(round), asleep |-> TRUE]
               ELSE Unarmed
    /\ channel = {}
    /\ builds = IF round # Nil /\ Leads(round) THEN {Epoch(round)} ELSE {}
    /\ building = [e \in Epochs |-> IF e \in builds THEN 1 ELSE 0]

-----------------------------------------------------------------------------
(* The chain.  A block that was replaced does not come back. *)
CanonMoves ==
    /\ canon' \in {c \in Chains :
                     \/ \E v \in Variants : c = Append(canon, v)
                     \/ \E n \in {Len(canon)}, v \in Variants :
                           n > 0 /\ v > canon[n] /\ c = [canon EXCEPT ![n] = v]}
    /\ notes' \in {notes} \cup {m \in {Append(notes, canon')} : Len(m) <= MaxNotes}
    /\ UNCHANGED <<driver, clock, tasks>>

(* activate_dbft_round and the reset of the timer that follows it. *)
Activate(t, ch, head, ok, member) ==
    LET r == IF ok THEN RoundAt(Len(head) + 1, member) ELSE Nil
    IN  /\ Settle(r)
        /\ activeHead' = IF ok THEN head ELSE Nil
        /\ Reset(t, ch, r)

AdoptAlways(ok, member) ==
    /\ status' = canon
    /\ builds' = {}
    /\ Activate(timer, channel, canon, ok, member)
    /\ UNCHANGED <<canon, building>>

(* A notification is resolved to the provider's head; a stale one, and one *)
(* for the head the round already stands on, change nothing.               *)
NotifiedBlindly(ok, member) ==
    /\ ~replaying /\ notes # <<>>
    /\ notes' = Tail(notes)
    /\ IF status = canon /\ Head(notes) # status
       THEN UNCHANGED <<canon, driver, clock, tasks>>
       ELSE AdoptAlways(ok, member)

Notified(ok, member) ==
    /\ ~replaying /\ notes # <<>>
    /\ notes' = Tail(notes)
    /\ IF status = canon /\ (Head(notes) # status \/ activeHead = status)
       THEN UNCHANGED <<canon, driver, clock, tasks>>
       ELSE AdoptAlways(ok, member)

(* The provider could not resolve it. *)
NotificationLost ==
    /\ ~replaying /\ notes # <<>>
    /\ notes' = Tail(notes)
    /\ UNCHANGED <<canon, driver, clock, tasks>>

(* The maintenance tick repairs a missed notification. *)
TickMatchesNumber(ok, member) ==
    /\ ~replaying /\ Len(status) # Len(canon)
    /\ AdoptAlways(ok, member)
    /\ UNCHANGED notes

Tick(ok, member) ==
    /\ ~replaying /\ status # canon
    /\ AdoptAlways(ok, member)
    /\ UNCHANGED notes

(* As Established, on the provider's head. *)
EstablishedOnCanon(ok, member) ==
    /\ ~replaying /\ round = Nil
    /\ Activate(timer, channel, canon, ok, member)
    /\ UNCHANGED <<canon, notes, status, tasks>>

(* A beacon peer is established while there is no round. *)
Established(ok, member) ==
    /\ ~replaying /\ round = Nil
    /\ Activate(timer, channel, status, ok, member)
    /\ UNCHANGED <<canon, notes, status, tasks>>

-----------------------------------------------------------------------------
(* publish_local_change_view of a validator, t and ch being what the       *)
(* caller left of the timer: the vote is repeated, or cast and then        *)
(* complete or not; a vote that cannot be signed, or has no next view,     *)
(* arms nothing.                                                           *)
VoteRefused(t, ch, r) ==
    /\ ~r.voted \/ r.view = MaxView
    /\ Settle(r) /\ timer' = t /\ channel' = ch

VoteCast(t, ch, r) ==
    /\ r.view < MaxView
    /\ \/ /\ Settle([r EXCEPT !.voted = TRUE])
          /\ Arm(t, ch, Epoch(r), ChangeViewTimeout(r.view))
       \/ /\ ~r.voted
          /\ Settle(InView(r, r.view + 1))
          /\ Reset(t, ch, InView(r, r.view + 1))

LocalChangeView(t, ch, r) ==
    IF r.member THEN VoteRefused(t, ch, r) \/ VoteCast(t, ch, r)
    ELSE Settle(r) /\ timer' = t /\ channel' = ch

(* maybe_publish_consensus_contribution: the first one shortens the wait.  *)
Contribute ==
    /\ round.member /\ round.proposal /\ ~round.here
    /\ Settle([round EXCEPT !.here = TRUE, !.ever = TRUE])
    /\ IF round.ever THEN UNCHANGED clock
       ELSE Arm(timer, channel, Epoch(round), ContributionTimeout)

(* One message through process_dbft_messages: it brings the proposal,      *)
(* whose transaction list may be refused; or a quorum; or an own message   *)
(* of before a restart; or the votes that complete a view change.          *)
TakeMessage ==
    \/ /\ ~round.proposal
       /\ LET r == [round EXCEPT !.proposal = TRUE]
          IN  \/ Settle(r) /\ UNCHANGED clock
             \/ LocalChangeView(timer, channel, r)
       /\ UNCHANGED <<builds, building>>
    \/ Contribute /\ UNCHANGED <<builds, building>>
    \/ /\ round.member
       /\ \E r \in {[round EXCEPT !.here = TRUE, !.ever = TRUE], [round EXCEPT !.voted = TRUE]} :
             Settle(r)
       /\ UNCHANGED <<clock, builds, building>>
    \/ \E v \in (round.view + 1) .. MaxView :
          /\ Settle(InView(round, v))
          /\ Reset(timer, channel, InView(round, v))
          /\ ScheduleBuild(InView(round, v), builds)

DeliverNote ==
    /\ ~replaying /\ round # Nil
    /\ TakeMessage
    /\ UNCHANGED <<canon, notes, status, activeHead>>

(* replay_cached_dbft_messages takes cached messages until none is left. *)
Replay ==
    /\ replaying /\ TakeMessage
    /\ UNCHANGED <<canon, notes, status, activeHead>>

ReplayEnds ==
    /\ replaying
    /\ replaying' = FALSE
    /\ UNCHANGED <<canon, notes, status, round, activeHead, clock, tasks>>

(* handle_proposal_verification, when the result belongs to the round: a   *)
(* verified proposal may complete a quorum, a refused one is voted down.   *)
Verified ==
    /\ ~replaying /\ round # Nil /\ round.proposal
    /\ \/ Contribute /\ ScheduleBuild(round, builds)
       \/ LocalChangeView(timer, channel, round) /\ ScheduleBuild(round', builds)
    /\ UNCHANGED <<canon, notes, status, activeHead>>

-----------------------------------------------------------------------------
(* The sleep is over and its task sends the token. *)
Fire ==
    /\ timer.asleep /\ Cardinality(channel) < MaxTokens
    /\ timer' = [timer EXCEPT !.asleep = FALSE]
    /\ channel' = channel \cup {[epoch |-> timer.armed, live |-> TRUE]}
    /\ UNCHANGED <<canon, notes, driver, tasks>>

(* As Consumes, comparing only what the token is about. *)
ConsumesEpoch(k) == timer.armed = k.epoch

Consumes(k) == timer.armed # Nil /\ k.live

TimeoutStale(k) ==
    /\ ~replaying /\ k \in channel /\ ~Consumes(k)
    /\ channel' = channel \ {k}
    /\ ScheduleBuild(round, builds)
    /\ UNCHANGED <<canon, notes, driver, timer>>

(* A timeout of an epoch the round has left, or of no validator, is        *)
(* dropped.                                                                *)
Expired(k) == /\ ~replaying /\ k \in channel /\ Consumes(k)
              /\ Validating(round) /\ Epoch(round) = k.epoch

TimeoutDropped(k) ==
    /\ ~replaying /\ k \in channel /\ Consumes(k)
    /\ ~(Validating(round) /\ Epoch(round) = k.epoch)
    /\ timer' = Unarmed /\ channel' = channel \ {k}
    /\ ScheduleBuild(round, builds)
    /\ UNCHANGED <<canon, notes, driver>>

(* As TimeoutPrimary, had the primary waited for its build unguarded. *)
TimeoutPrimaryUnarmed(k) ==
    /\ Expired(k) /\ Leads(round) /\ ~round.proposal
    /\ timer' = Unarmed /\ channel' = channel \ {k}
    /\ ScheduleBuild(round, builds)
    /\ UNCHANGED <<canon, notes, driver>>

(* As TimeoutPrimary, had the build been left to later events. *)
TimeoutPrimaryWaits(k) ==
    /\ Expired(k) /\ Leads(round) /\ ~round.proposal
    /\ Arm(Unarmed, channel \ {k}, k.epoch, PostProposalTimeout(round.view))
    /\ UNCHANGED <<canon, notes, driver, tasks>>

TimeoutPrimary(k) ==
    /\ Expired(k) /\ Leads(round) /\ ~round.proposal
    /\ Arm(Unarmed, channel \ {k}, k.epoch, PostProposalTimeout(round.view))
    /\ ScheduleBuild(round, builds)
    /\ UNCHANGED <<canon, notes, driver>>

(* The own contribution is repeated by recovery; without one, recovery is  *)
(* asked for when more than f validators committed or are silent.          *)
TimeoutRecovery(k) ==
    /\ Expired(k) /\ ~(Leads(round) /\ ~round.proposal)
    /\ IF round.here THEN Arm(Unarmed, channel \ {k}, k.epoch, RecoveryTimeout)
       ELSE /\ round.view < MaxView
            /\ Arm(Unarmed, channel \ {k}, k.epoch, ChangeViewTimeout(round.view))
    /\ UNCHANGED <<canon, notes, driver, tasks>>

TimeoutVote(k) ==
    /\ Expired(k) /\ ~(Leads(round) /\ ~round.proposal) /\ ~round.here
    /\ VoteCast(Unarmed, channel \ {k}, round)
    /\ ScheduleBuild(round', builds)
    /\ UNCHANGED <<canon, notes, status, activeHead>>

TimeoutRefused(k) ==
    /\ Expired(k) /\ ~(Leads(round) /\ ~round.proposal) /\ ~round.here
    /\ VoteRefused(Unarmed, channel \ {k}, round)
    /\ UNCHANGED <<canon, notes, status, activeHead, tasks>>

Timeout(k) ==
    \/ TimeoutStale(k) \/ TimeoutDropped(k) \/ TimeoutPrimary(k)
    \/ TimeoutRecovery(k) \/ TimeoutVote(k) \/ TimeoutRefused(k)

-----------------------------------------------------------------------------
(* A build task ends, and handle_primary_proposal takes its result: there  *)
(* is none, the signer or the round refuses its PrepareRequest, only the   *)
(* publication fails, or it is sent.                                       *)
Fates == {"failed", "unsigned", "unpublished", "published"}

ProposeBuilt(e, fate) ==
    IF /\ fate \in {"unpublished", "published"} /\ Epoch(round) = e
       /\ Leads(round) /\ ~round.proposal
    THEN /\ Settle([round EXCEPT !.proposal = TRUE])
         /\ IF fate = "published"
            THEN Arm(timer, channel, e, PostProposalTimeout(round.view))
            ELSE UNCHANGED clock
    ELSE UNCHANGED <<round, replaying, clock>>

BuildDone(e, fate) ==
    /\ ~replaying /\ building[e] > 0
    /\ building' = [building EXCEPT ![e] = @ - 1]
    /\ builds' = builds \ {e}
    /\ ProposeBuilt(e, fate)
    /\ UNCHANGED <<canon, notes, status, activeHead>>

-----------------------------------------------------------------------------
ClockNext ==
    \/ CanonMoves
    \/ \E ok, member \in BOOLEAN :
          Notified(ok, member) \/ Tick(ok, member) \/ Established(ok, member)
    \/ NotificationLost
    \/ DeliverNote \/ Replay \/ ReplayEnds \/ Verified
    \/ Fire
    \/ \E k \in channel : Timeout(k)
    \/ \E e \in Epochs, fate \in Fates : BuildDone(e, fate)

(* The loop selects among ready branches at random, so each is taken in    *)
(* the end; sleeps and tasks end; provider reads do not fail for ever.     *)
ClockFairness ==
    /\ WF_clockVars(\E ok, member \in BOOLEAN : Tick(ok, member))
    /\ WF_clockVars(ReplayEnds)
    /\ WF_clockVars(Fire)
    /\ WF_clockVars(\E k \in channel : Timeout(k))
    /\ WF_clockVars(\E e \in Epochs, fate \in Fates : BuildDone(e, fate))

ClockSpec == ClockInit /\ [][ClockNext]_clockVars /\ ClockFairness

(* Type correctness; a token the timer would take is the only one and      *)
(* stands for an arm whose sleep is over.                                  *)
ClockTypeOK ==
    /\ canon \in Chains /\ status \in Chains /\ notes \in Seq(Chains)
    /\ round \in RoundState \cup {Nil} /\ activeHead \in Chains \cup {Nil}
    /\ timer.armed \in Epochs \cup {Nil} /\ timer.asleep \in BOOLEAN
    /\ channel \subseteq [epoch : Epochs, live : BOOLEAN]
    /\ builds \subseteq Epochs /\ building \in [Epochs -> Nat]
    /\ replaying \in BOOLEAN /\ (replaying => round # Nil)
    /\ \A k \in channel : k.live => timer.armed = k.epoch /\ ~timer.asleep

(* The round always stands on the head the node advertises: notifications  *)
(* (in any order, late or lost), ticks, failed activations and new peers   *)
(* never leave a round of another height or on another parent.  And        *)
(* whatever re-arms it, the timer of a validator is armed for the height   *)
(* and view of its round or not at all.                                    *)
RoundOnStatus ==
    /\ round # Nil => activeHead = status /\ round.height = Len(status) + 1
    /\ IF Validating(round) THEN timer.armed \in {Nil, Epoch(round)} ELSE timer.armed = Nil

(* "A notification that resolves to this same head must not rebuild the    *)
(* round": while the head stays, no view is left backwards and nothing the *)
(* round recorded in a view is forgotten.                                  *)
RoundKept ==
    [][round # Nil /\ round' # Nil /\ activeHead' = activeHead =>
          \/ round'.view > round.view
          \/ /\ round'.view = round.view /\ round'.member = round.member
             /\ \A f \in {"proposal", "here", "ever", "voted"} : round[f] => round'[f]]_clockVars

(* A validator without a running timer would never act by itself again in  *)
(* the view: the one way to get there is a timeout whose ChangeView was    *)
(* refused by the signer or had no view to go to.                          *)
Unwatched == Validating(round) /\ timer.armed = Nil

StaysWatched ==
    [][~Unwatched /\ Unwatched' => \E k \in channel : TimeoutRefused(k)]_clockVars

(* "consume accepts only the currently active token": a timeout does       *)
(* nothing to the round or the timer while the armed sleep goes on.        *)
WaitedOut ==
    [][timer.asleep /\ channel' # channel /\ (\E k \in channel : Timeout(k)) =>
          UNCHANGED <<round, timer>>]_clockVars

(* A registered build runs or its result is on the way: no epoch stays     *)
(* registered for good, which would keep its primary from building again.  *)
BuildsTracked == \A e \in builds : building[e] > 0

(* Missed notifications are made up for: once the chain rests, the node    *)
(* advertises its head for good.                                           *)
HeadAdopted == <>[][UNCHANGED canon]_clockVars => <>[](status = canon)

(* A primary whose builds fail, or whose signer refuses, builds again as   *)
(* long as it is the primary and has not proposed.                         *)
IdlePrimary ==
    round # Nil /\ Leads(round) /\ ~round.proposal /\ Epoch(round) \notin builds

PrimaryRetries == IdlePrimary ~> ~IdlePrimary
=============================================================================
