-------------------------- MODULE RoundClockProofs --------------------------
(***************************************************************************)
(* The round stands on the advertised head, keeps what it recorded, and is *)
(* watched by a timer: for any chain, validators, views and interleaving.  *)
(***************************************************************************)
EXTENDS RoundClock, TLAPS

AnyRound == [height : Nat, view : Nat, member : BOOLEAN,
             proposal : BOOLEAN, here : BOOLEAN, ever : BOOLEAN, voted : BOOLEAN]
AnyEpoch == Nat \X Nat
Tokens == [epoch : AnyEpoch \cup {Nil}, live : BOOLEAN]

ClockTyped ==
    /\ Len(canon) \in Nat /\ Len(status) \in Nat
    /\ round \in AnyRound \cup {Nil}
    /\ {"armed", "asleep"} \subseteq DOMAIN timer
    /\ timer.armed \in AnyEpoch \cup {Nil} /\ timer.asleep \in BOOLEAN
    /\ channel \subseteq Tokens

(* A token that the timer would take is about what is armed, whose sleep   *)
(* is over.                                                                *)
LiveTokens == \A k \in channel : k.live => timer.armed = k.epoch /\ ~timer.asleep

ClockInv == ClockTyped /\ LiveTokens /\ RoundOnStatus

(* What a step may do, as RoundKept, StaysWatched and WaitedOut say.       *)
Kept ==
    round # Nil /\ round' # Nil /\ activeHead' = activeHead =>
        \/ round'.view > round.view
        \/ /\ round'.view = round.view /\ round'.member = round.member
           /\ \A f \in {"proposal", "here", "ever", "voted"} : round[f] => round'[f]

Watched == ~Unwatched /\ Unwatched' => \E k \in channel : TimeoutRefused(k)

StepOK == ClockInv' /\ Kept /\ Watched

(* The epoch of a round is a pair.                                         *)
LEMMA EpochType ==
    ASSUME NEW r \in AnyRound
    PROVE  /\ r # Nil /\ Epoch(r) = <<r.height, r.view>> /\ Epoch(r) \in AnyEpoch /\ Epoch(r) # Nil
           /\ Validating(r) <=> r.member
<1>1. r # Nil
  BY ClockAssumption DEF AnyRound
<1>2. r.height \in Nat /\ r.view \in Nat
  BY DEF AnyRound
<1>3. <<r.height, r.view>> \in AnyEpoch
  BY <1>2 DEF AnyEpoch
<1>4. Nil \notin AnyEpoch
  BY ClockAssumption DEF AnyEpoch
<1> QED
  BY <1>1, <1>3, <1>4 DEF Epoch, Validating

(* The clock afterwards: armed for e or, with Nil, disarmed, and no token  *)
(* from before is taken any more.                                          *)
ClockFor(e) ==
    /\ {"armed", "asleep"} \subseteq DOMAIN timer'
    /\ timer'.armed = e /\ timer'.asleep \in BOOLEAN
    /\ channel' \subseteq Tokens /\ \A k \in channel' : ~k.live

(* Every arm and disarm ends the tokens before it.                         *)
LEMMA SupersededTokens ==
    ASSUME ClockTyped, NEW t \in {timer, Unarmed}, NEW ch \in SUBSET channel, NEW c \in Superseded(t, ch)
    PROVE  c \subseteq Tokens /\ \A k \in c : ~k.live
<1> DEFINE old == {[k EXCEPT !.live = FALSE] : k \in ch}
           last == [epoch |-> t.armed, live |-> FALSE]
<1>1. ASSUME NEW k \in ch PROVE [k EXCEPT !.live = FALSE] \in Tokens /\ ~[k EXCEPT !.live = FALSE].live
  <2>1. k \in Tokens
    BY DEF ClockTyped
  <2> QED
    BY <2>1 DEF Tokens
<1>2. t.armed \in AnyEpoch \cup {Nil}
  BY DEF ClockTyped, Unarmed
<1>3. last \in Tokens /\ ~last.live
  BY <1>2 DEF Tokens
<1>4. c = old \/ c = old \cup {last}
  BY DEF Superseded
<1> QED
  BY <1>1, <1>3, <1>4

(* DbftTimer::arm                                                          *)
LEMMA ArmSets ==
    ASSUME ClockTyped, NEW t \in {timer, Unarmed}, NEW ch \in SUBSET channel, NEW e, NEW d, Arm(t, ch, e, d)
    PROVE  ClockFor(e)
<1>1. timer' = [armed |-> e, delay |-> d, asleep |-> TRUE] /\ channel' \in Superseded(t, ch)
  BY DEF Arm
<1>2. channel' \subseteq Tokens /\ \A k \in channel' : ~k.live
  BY <1>1, SupersededTokens
<1>3. {"armed", "asleep"} \subseteq DOMAIN timer' /\ timer'.armed = e /\ timer'.asleep \in BOOLEAN
  BY <1>1
<1> QED
  BY <1>2, <1>3 DEF ClockFor

(* DbftTimer::disarm                                                       *)
LEMMA DisarmSets ==
    ASSUME ClockTyped, NEW t \in {timer, Unarmed}, NEW ch \in SUBSET channel, Disarm(t, ch)
    PROVE  ClockFor(Nil)
<1>1. timer' = Unarmed /\ channel' \in Superseded(t, ch)
  BY DEF Disarm
<1>2. channel' \subseteq Tokens /\ \A k \in channel' : ~k.live
  BY <1>1, SupersededTokens
<1>3. {"armed", "asleep"} \subseteq DOMAIN timer' /\ timer'.armed = Nil /\ timer'.asleep \in BOOLEAN
  BY <1>1 DEF Unarmed
<1> QED
  BY <1>2, <1>3 DEF ClockFor

(* The timer is set for a round.                                           *)
LEMMA ResetSets ==
    ASSUME ClockTyped, NEW t \in {timer, Unarmed}, NEW ch \in SUBSET channel, NEW r, Reset(t, ch, r)
    PROVE  ClockFor(IF Validating(r) THEN Epoch(r) ELSE Nil)
BY ArmSets, DisarmSets DEF Reset

ClockOf(r) == IF Validating(r) THEN Epoch(r) ELSE Nil

(* Nothing is forgotten from one round to a later one of the same height.  *)
Later(r, s) ==
    /\ s \in AnyRound /\ s.height = r.height /\ s.member = r.member
    /\ \/ s.view > r.view
       \/ s.view = r.view /\ \A f \in {"proposal", "here", "ever", "voted"} : r[f] => s[f]

(* The invariant after a step that set the clock for its round.            *)
LEMMA SetClockIsSafe ==
    ASSUME ClockInv, Len(canon') \in Nat, Len(status') \in Nat, round' \in AnyRound \cup {Nil},
           round' # Nil => activeHead' = status' /\ round'.height = Len(status') + 1,
           ClockFor(ClockOf(round'))
    PROVE  ClockInv' /\ Watched
<1>1. ClockOf(round') \in AnyEpoch \cup {Nil} /\ (Validating(round') => ClockOf(round') # Nil)
  BY EpochType DEF ClockOf, Validating
<1>2. ClockTyped'
  BY <1>1 DEF ClockTyped, ClockFor
<1>3. LiveTokens'
  BY DEF LiveTokens, ClockFor
<1>4. RoundOnStatus'
  BY DEF RoundOnStatus, ClockFor, ClockOf, Validating, Epoch
<1>5. Watched
  BY <1>1 DEF Watched, Unwatched, ClockFor, Validating
<1> QED
  BY <1>2, <1>3, <1>4, <1>5 DEF ClockInv

(* A step within the round.                                                *)
LEMMA MoveIsSafe ==
    ASSUME ClockInv, round \in AnyRound, UNCHANGED <<canon, status, activeHead>>, Later(round, round'),
           \/ ClockFor(ClockOf(round'))
           \/ round'.view = round.view /\ timer' = timer /\ channel' = channel
    PROVE  StepOK
<1>0. /\ round # Nil /\ round' \in AnyRound /\ round' # Nil
      /\ round'.height = round.height /\ round'.member = round.member
      /\ Validating(round) <=> round.member
      /\ Validating(round') <=> round'.member
      /\ Epoch(round) = <<round.height, round.view>>
      /\ Epoch(round') = <<round'.height, round'.view>>
  BY EpochType DEF Later
<1>1. Kept
  BY DEF Kept, Later
<1>2. activeHead' = status' /\ round'.height = Len(status') + 1 /\ Len(canon') \in Nat /\ Len(status') \in Nat
  BY <1>0 DEF ClockInv, ClockTyped, RoundOnStatus
<1>3. CASE ClockFor(ClockOf(round'))
  BY <1>0, <1>1, <1>2, <1>3, SetClockIsSafe DEF StepOK
<1>4. CASE round'.view = round.view /\ timer' = timer /\ channel' = channel
  <2>1. ClockTyped'
    BY <1>0, <1>2, <1>4 DEF ClockInv, ClockTyped
  <2>2. LiveTokens'
    BY <1>4 DEF ClockInv, LiveTokens
  <2>3. Epoch(round') = Epoch(round) /\ (Validating(round') <=> Validating(round))
    BY <1>0, <1>4
  <2>4. RoundOnStatus'
    <3>1. IF Validating(round) THEN timer.armed \in {Nil, Epoch(round)} ELSE timer.armed = Nil
      BY DEF ClockInv, RoundOnStatus
    <3>2. IF Validating(round') THEN timer'.armed \in {Nil, Epoch(round')} ELSE timer'.armed = Nil
      BY <1>4, <2>3, <3>1
    <3> QED
      BY <1>2, <3>2 DEF RoundOnStatus, Validating, Epoch
  <2>5. Watched
    BY <1>4, <2>3 DEF Watched, Unwatched, Validating
  <2> QED
    BY <1>1, <2>1, <2>2, <2>4, <2>5 DEF StepOK, ClockInv
<1> QED
  BY <1>3, <1>4

(* A step that leaves the round and the timer.                             *)
LEMMA RestIsSafe ==
    ASSUME ClockInv, UNCHANGED <<status, round, activeHead, timer>>, Len(canon') \in Nat,
           channel' \subseteq channel
    PROVE  StepOK
<1>1. ClockTyped'
  BY DEF ClockInv, ClockTyped
<1>2. LiveTokens'
  BY DEF ClockInv, LiveTokens
<1>3. RoundOnStatus'
  BY DEF ClockInv, RoundOnStatus, Validating, Epoch
<1>4. Kept
  BY DEF Kept, ClockInv, ClockTyped, AnyRound
<1>5. Watched
  BY DEF Watched, Unwatched, Validating
<1> QED
  BY <1>1, <1>2, <1>3, <1>4, <1>5 DEF StepOK, ClockInv

(* What is changed of a round within its view, and its next views.         *)
LEMMA LaterRounds ==
    ASSUME NEW r \in AnyRound
    PROVE  /\ Later(r, r)
           /\ Later(r, [r EXCEPT !.proposal = TRUE]) /\ [r EXCEPT !.proposal = TRUE].view = r.view
           /\ Later(r, [r EXCEPT !.voted = TRUE]) /\ [r EXCEPT !.voted = TRUE].view = r.view
           /\ Later(r, [r EXCEPT !.here = TRUE, !.ever = TRUE])
           /\ [r EXCEPT !.here = TRUE, !.ever = TRUE].view = r.view
           /\ \A v \in Nat : v > r.view => Later(r, InView(r, v))
<1>1. Later(r, r)
  BY DEF Later, AnyRound
<1>2. Later(r, [r EXCEPT !.proposal = TRUE]) /\ [r EXCEPT !.proposal = TRUE].view = r.view
  BY DEF Later, AnyRound
<1>3. Later(r, [r EXCEPT !.voted = TRUE]) /\ [r EXCEPT !.voted = TRUE].view = r.view
  BY DEF Later, AnyRound
<1>4. /\ Later(r, [r EXCEPT !.here = TRUE, !.ever = TRUE])
      /\ [r EXCEPT !.here = TRUE, !.ever = TRUE].view = r.view
  BY DEF Later, AnyRound
<1>5. ASSUME NEW v \in Nat, v > r.view PROVE Later(r, InView(r, v))
  BY <1>5 DEF Later, AnyRound, InView
<1> QED
  BY <1>1, <1>2, <1>3, <1>4, <1>5

(* A later round of a later round.                                         *)
LEMMA LaterIsTransitive ==
    ASSUME NEW r \in AnyRound, NEW s, NEW u, Later(r, s), Later(s, u)
    PROVE  Later(r, u)
BY DEF Later, AnyRound

(* The clock is set again for a round of the same epoch.                   *)
LEMMA SameEpoch ==
    ASSUME NEW r \in AnyRound, NEW s, Later(r, s), s.view = r.view, r.member
    PROVE  ClockOf(s) = Epoch(r)
BY EpochType DEF Later, ClockOf

(* publish_local_change_view, when a ChangeView is cast.                   *)
LEMMA CastIsSafe ==
    ASSUME ClockInv, round \in AnyRound, UNCHANGED <<canon, status, activeHead>>,
           NEW r \in AnyRound, Later(round, r), r.member,
           NEW t \in {timer, Unarmed}, NEW ch \in SUBSET channel, VoteCast(t, ch, r)
    PROVE  StepOK
<1>0. ClockTyped
  BY DEF ClockInv
<1>1. CASE Settle([r EXCEPT !.voted = TRUE]) /\ Arm(t, ch, Epoch(r), ChangeViewTimeout(r.view))
  <2>1. round' = [r EXCEPT !.voted = TRUE]
    BY <1>1 DEF Settle
  <2>2. Later(r, round') /\ round'.view = r.view
    BY <2>1, LaterRounds
  <2>3. ClockFor(Epoch(r))
    BY <1>0, <1>1, ArmSets
  <2>4. ClockFor(ClockOf(round'))
    BY <2>2, <2>3, SameEpoch
  <2>5. Later(round, round')
    BY <2>2, LaterIsTransitive
  <2> QED
    BY <2>4, <2>5, MoveIsSafe
<1>2. CASE Settle(InView(r, r.view + 1)) /\ Reset(t, ch, InView(r, r.view + 1))
  <2>1. round' = InView(r, r.view + 1)
    BY <1>2 DEF Settle
  <2>2. r.view + 1 \in Nat /\ r.view + 1 > r.view
    BY DEF AnyRound
  <2>3. Later(r, round')
    BY <2>1, <2>2, LaterRounds
  <2>4. Later(round, round')
    BY <2>3, LaterIsTransitive
  <2>5. ClockFor(ClockOf(round'))
    BY <1>0, <1>2, <2>1, ResetSets DEF ClockOf
  <2> QED
    BY <2>4, <2>5, MoveIsSafe
<1> QED
  BY <1>1, <1>2 DEF VoteCast

(* publish_local_change_view while the timer runs.                         *)
LEMMA LocalVoteIsSafe ==
    ASSUME ClockInv, round \in AnyRound, UNCHANGED <<canon, status, activeHead>>,
           NEW r \in AnyRound, Later(round, r), r.view = round.view,
           LocalChangeView(timer, channel, r)
    PROVE  StepOK
<1>1. CASE r.member /\ VoteCast(timer, channel, r)
  BY <1>1, CastIsSafe
<1>2. CASE Settle(r) /\ timer' = timer /\ channel' = channel
  <2>1. round' = r
    BY <1>2 DEF Settle
  <2> QED
    BY <1>2, <2>1, MoveIsSafe
<1> QED
  BY <1>1, <1>2 DEF LocalChangeView, VoteRefused

(* maybe_publish_consensus_contribution                                    *)
LEMMA ContributeIsSafe ==
    ASSUME ClockInv, round \in AnyRound, UNCHANGED <<canon, status, activeHead>>, Contribute
    PROVE  StepOK
<1>1. round.member /\ round' = [round EXCEPT !.here = TRUE, !.ever = TRUE]
  BY DEF Contribute, Settle
<1>2. Later(round, round') /\ round'.view = round.view
  BY <1>1, LaterRounds
<1>3. CASE UNCHANGED clock
  BY <1>2, <1>3, MoveIsSafe DEF clock
<1>4. CASE Arm(timer, channel, Epoch(round), ContributionTimeout)
  <2>1. ClockFor(Epoch(round))
    BY <1>4, ArmSets DEF ClockInv
  <2>2. ClockFor(ClockOf(round'))
    BY <1>1, <1>2, <2>1, SameEpoch
  <2> QED
    BY <1>2, <2>2, MoveIsSafe
<1> QED
  BY <1>3, <1>4 DEF Contribute

(* process_dbft_messages                                                   *)
LEMMA MessageIsSafe ==
    ASSUME ClockInv, round \in AnyRound, UNCHANGED <<canon, status, activeHead>>, TakeMessage
    PROVE  StepOK
<1>1. CASE LET r == [round EXCEPT !.proposal = TRUE]
           IN  (Settle(r) /\ UNCHANGED clock) \/ LocalChangeView(timer, channel, r)
  <2> DEFINE r == [round EXCEPT !.proposal = TRUE]
  <2>1. r \in AnyRound /\ Later(round, r) /\ r.view = round.view
    BY LaterRounds DEF Later
  <2> HIDE DEF r
  <2>2. CASE Settle(r) /\ UNCHANGED clock
    BY <2>1, <2>2, MoveIsSafe DEF Settle, clock
  <2>3. CASE LocalChangeView(timer, channel, r)
    BY <2>1, <2>3, LocalVoteIsSafe
  <2> QED
    BY <1>1, <2>2, <2>3 DEF r
<1>2. CASE Contribute
  BY <1>2, ContributeIsSafe
<1>3. CASE /\ UNCHANGED clock
           /\ \E r \in {[round EXCEPT !.here = TRUE, !.ever = TRUE], [round EXCEPT !.voted = TRUE]} : Settle(r)
  <2>1. \/ round' = [round EXCEPT !.here = TRUE, !.ever = TRUE]
        \/ round' = [round EXCEPT !.voted = TRUE]
    BY <1>3 DEF Settle
  <2>2. Later(round, round') /\ round'.view = round.view
    BY <2>1, LaterRounds
  <2> QED
    BY <1>3, <2>2, MoveIsSafe DEF clock
<1>4. CASE \E v \in (round.view + 1) .. MaxView :
              Settle(InView(round, v)) /\ Reset(timer, channel, InView(round, v))
  <2>1. PICK v \in (round.view + 1) .. MaxView :
              Settle(InView(round, v)) /\ Reset(timer, channel, InView(round, v))
    BY <1>4
  <2>2. v \in Nat /\ v > round.view
    BY ClockAssumption DEF AnyRound
  <2>3. round' = InView(round, v)
    BY <2>1 DEF Settle
  <2>4. Later(round, round')
    BY <2>2, <2>3, LaterRounds
  <2>5. ClockFor(ClockOf(round'))
    BY <2>1, <2>3, ResetSets DEF ClockOf, ClockInv
  <2> QED
    BY <2>4, <2>5, MoveIsSafe
<1> QED
  BY <1>1, <1>2, <1>3, <1>4 DEF TakeMessage

(* activate_dbft_round: on another head than the round stood on, if any.   *)
LEMMA ActivateIsSafe ==
    ASSUME ClockInv, canon' = canon, NEW head, status' = head, Len(head) \in Nat,
           NEW ok \in BOOLEAN, NEW member \in BOOLEAN, Activate(timer, channel, head, ok, member),
           round # Nil => activeHead # head
    PROVE  StepOK
<1> DEFINE r == IF ok THEN RoundAt(Len(head) + 1, member) ELSE Nil
<1>1. round' = r /\ activeHead' = (IF ok THEN head ELSE Nil) /\ Reset(timer, channel, r)
  BY DEF Activate, Settle
<1>2. RoundAt(Len(head) + 1, member) \in AnyRound /\ RoundAt(Len(head) + 1, member).height = Len(head) + 1
  BY DEF RoundAt, AnyRound
<1>3. r \in AnyRound \cup {Nil} /\ (r # Nil => ok /\ r.height = Len(head) + 1)
  BY <1>2
<1> HIDE DEF r
<1>4. ClockFor(ClockOf(round'))
  BY <1>1, ResetSets DEF ClockOf, ClockInv
<1>5. Len(canon') \in Nat
  BY DEF ClockInv, ClockTyped
<1>6. ClockInv' /\ Watched
  BY <1>1, <1>3, <1>4, <1>5, SetClockIsSafe
<1>7. Kept
  BY <1>1, <1>3 DEF Kept
<1> QED
  BY <1>6, <1>7 DEF StepOK

(* adopt_canonical_status, when the head moved or there is no round.       *)
LEMMA AdoptIsSafe ==
    ASSUME ClockInv, NEW ok \in BOOLEAN, NEW member \in BOOLEAN, AdoptAlways(ok, member),
           status # canon \/ activeHead # status
    PROVE  StepOK
<1>1. /\ canon' = canon /\ status' = canon /\ Len(canon) \in Nat
      /\ Activate(timer, channel, canon, ok, member)
  BY DEF AdoptAlways, ClockInv, ClockTyped
<1>2. round # Nil => activeHead # canon
  BY DEF ClockInv, RoundOnStatus
<1> QED
  BY <1>1, <1>2, ActivateIsSafe

(* The token that is taken is the only one that would be.                  *)
LEMMA OneLiveToken ==
    ASSUME ClockInv, NEW k \in channel, k.live, NEW j \in channel \ {k}
    PROVE  ~j.live
<1>1. k \in Tokens /\ j \in Tokens
  BY DEF ClockInv, ClockTyped
<1>2. SUFFICES ASSUME j.live PROVE FALSE
  OBVIOUS
<1>3. j.epoch = k.epoch
  BY <1>2 DEF ClockInv, LiveTokens
<1>4. k.live = TRUE /\ j.live = TRUE
  BY <1>1, <1>2 DEF Tokens
<1>5. j = k
  BY <1>1, <1>3, <1>4 DEF Tokens
<1> QED
  BY <1>5

(* handle_dbft_timeout                                                     *)
LEMMA TimeoutIsSafe ==
    ASSUME ClockInv, NEW k \in channel, Timeout(k)
    PROVE  StepOK
<1>0. channel \ {k} \in SUBSET channel /\ ClockTyped
  BY DEF ClockInv
<1>1. CASE TimeoutStale(k)
  <2>1. UNCHANGED <<canon, status, round, activeHead, timer>> /\ channel' \subseteq channel
    BY <1>1 DEF TimeoutStale, driver
  <2> QED
    BY <2>1, RestIsSafe DEF ClockInv, ClockTyped
<1>2. CASE TimeoutDropped(k)
  <2>1. timer.armed # Nil /\ timer.armed = k.epoch
    BY <1>2 DEF TimeoutDropped, Consumes, ClockInv, LiveTokens
  <2>2. Validating(round) /\ Epoch(round) = k.epoch
    BY <2>1 DEF ClockInv, RoundOnStatus
  <2> QED
    BY <1>2, <2>2 DEF TimeoutDropped
<1>3. ASSUME Expired(k)
      PROVE  round \in AnyRound /\ round.member /\ Epoch(round) = k.epoch /\ k.live /\ Later(round, round)
             /\ ClockOf(round) = k.epoch
  <2>1. Validating(round) /\ Epoch(round) = k.epoch /\ k.live
    BY <1>3 DEF Expired, Consumes
  <2>2. round \in AnyRound
    BY <2>1 DEF Validating, ClockInv, ClockTyped
  <2> QED
    BY <2>1, <2>2, LaterRounds DEF Validating, ClockOf
<1>4. ASSUME Expired(k), UNCHANGED <<canon, status, round, activeHead>>,
             NEW d, Arm(Unarmed, channel \ {k}, k.epoch, d)
      PROVE  StepOK
  <2>1. ClockFor(k.epoch)
    BY <1>0, <1>4, ArmSets
  <2>2. ClockFor(ClockOf(round')) /\ Later(round, round')
    BY <1>3, <1>4, <2>1
  <2> QED
    BY <1>3, <1>4, <2>2, MoveIsSafe
<1>5. CASE TimeoutPrimary(k)
  BY <1>4, <1>5 DEF TimeoutPrimary, driver
<1>6. CASE TimeoutRecovery(k)
  BY <1>4, <1>6 DEF TimeoutRecovery, driver
<1>7. CASE TimeoutVote(k)
  <2>1. Expired(k) /\ VoteCast(Unarmed, channel \ {k}, round) /\ UNCHANGED <<canon, status, activeHead>>
    BY <1>7 DEF TimeoutVote
  <2> QED
    BY <1>0, <1>3, <2>1, CastIsSafe
<1>8. CASE TimeoutRefused(k)
  <2>1. /\ Expired(k) /\ UNCHANGED <<canon, status, activeHead, round>>
        /\ timer' = Unarmed /\ channel' = channel \ {k}
    BY <1>8 DEF TimeoutRefused, VoteRefused, Settle
  <2>2. {"armed", "asleep"} \subseteq DOMAIN timer' /\ timer'.armed = Nil /\ timer'.asleep \in BOOLEAN
    BY <2>1 DEF Unarmed
  <2>3. \A j \in channel' : ~j.live
    BY <1>3, <2>1, OneLiveToken
  <2>4. ClockTyped'
    BY <2>1, <2>2 DEF ClockInv, ClockTyped
  <2>5. LiveTokens'
    BY <2>3 DEF LiveTokens
  <2>6. RoundOnStatus'
    BY <2>1, <2>2 DEF ClockInv, RoundOnStatus, Validating, Epoch
  <2>7. Kept
    BY <2>1 DEF Kept, ClockInv, ClockTyped, AnyRound
  <2>8. Watched
    BY <1>8 DEF Watched
  <2> QED
    BY <2>4, <2>5, <2>6, <2>7, <2>8 DEF StepOK, ClockInv
<1> QED
  BY <1>1, <1>2, <1>5, <1>6, <1>7, <1>8 DEF Timeout

(* handle_primary_proposal                                                 *)
LEMMA BuildIsSafe ==
    ASSUME ClockInv, NEW e \in Epochs, NEW fate \in Fates, BuildDone(e, fate)
    PROVE  StepOK
<1>0. UNCHANGED <<canon, status, activeHead>> /\ ProposeBuilt(e, fate)
  BY DEF BuildDone
<1>1. CASE UNCHANGED <<round, replaying, clock>>
  BY <1>0, <1>1, RestIsSafe DEF clock, ClockInv, ClockTyped
<1>2. CASE ~UNCHANGED <<round, replaying, clock>>
  <2>1. /\ Epoch(round) = e /\ Leads(round)
        /\ round' = [round EXCEPT !.proposal = TRUE]
        /\ UNCHANGED clock \/ Arm(timer, channel, e, PostProposalTimeout(round.view))
    BY <1>0, <1>2 DEF ProposeBuilt, Settle
  <2>2. e # Nil
    BY ClockAssumption DEF Epochs, ClockViews
  <2>3. round \in AnyRound /\ round.member
    BY <2>1, <2>2 DEF Epoch, Leads, ClockInv, ClockTyped
  <2>4. Later(round, round') /\ round'.view = round.view
    BY <2>1, <2>3, LaterRounds
  <2>5. CASE UNCHANGED clock
    BY <1>0, <2>3, <2>4, <2>5, MoveIsSafe DEF clock
  <2>6. CASE Arm(timer, channel, e, PostProposalTimeout(round.view))
    <3>1. ClockFor(e)
      BY <2>6, ArmSets DEF ClockInv
    <3>2. ClockFor(ClockOf(round'))
      BY <2>1, <2>3, <2>4, <3>1, SameEpoch
    <3> QED
      BY <1>0, <2>3, <2>4, <3>2, MoveIsSafe
  <2> QED
    BY <2>1, <2>5, <2>6
<1> QED
  BY <1>1, <1>2

(* The round the node starts with, and its timer.                          *)
LEMMA ClockStart == ClockInit => ClockInv
<1> SUFFICES ASSUME ClockInit PROVE ClockInv
  OBVIOUS
<1>1. round \in AnyRound \cup {Nil} /\ (round # Nil => round.height = 1)
  <2>1. ASSUME NEW member \in BOOLEAN
        PROVE  RoundAt(1, member) \in AnyRound /\ RoundAt(1, member).height = 1
    BY DEF RoundAt, AnyRound
  <2>2. round = Nil \/ \E member \in BOOLEAN : round = RoundAt(1, member)
    BY DEF ClockInit
  <2> QED
    BY <2>1, <2>2
<1>2. Len(<<>>) = 0
  OBVIOUS
<1>3. Validating(round) => Epoch(round) \in AnyEpoch
  BY <1>1, EpochType DEF Validating
<1>4. /\ {"armed", "asleep"} \subseteq DOMAIN timer /\ timer.asleep \in BOOLEAN
      /\ timer.armed = (IF Validating(round) THEN Epoch(round) ELSE Nil)
  <2>1. CASE Validating(round)
    BY <2>1 DEF ClockInit
  <2>2. CASE ~Validating(round)
    BY <2>2 DEF ClockInit, Unarmed
  <2> QED
    BY <2>1, <2>2
<1>5. ClockTyped
  BY <1>1, <1>2, <1>3, <1>4 DEF ClockTyped, ClockInit
<1>6. LiveTokens
  BY DEF LiveTokens, ClockInit
<1>7. RoundOnStatus
  BY <1>1, <1>2, <1>4 DEF RoundOnStatus, ClockInit
<1> QED
  BY <1>5, <1>6, <1>7 DEF ClockInv

(* Cached messages are replayed for a round.                               *)
ReplayHasRound == replaying => round # Nil

(* The replay flag outlives no round.                                      *)
LEMMA ReplayStep == ReplayHasRound /\ [ClockNext]_clockVars => ReplayHasRound'
<1> SUFFICES ASSUME ReplayHasRound, [ClockNext]_clockVars PROVE ReplayHasRound'
  OBVIOUS
<1>1. ASSUME NEW r, Settle(r) PROVE ReplayHasRound'
  BY <1>1 DEF Settle, ReplayHasRound
<1>2. ASSUME UNCHANGED <<round, replaying>> PROVE ReplayHasRound'
  BY <1>2 DEF ReplayHasRound
<1>3. ASSUME NEW t, NEW ch, NEW r, VoteCast(t, ch, r) \/ VoteRefused(t, ch, r) \/ LocalChangeView(t, ch, r)
      PROVE  ReplayHasRound'
  BY <1>1, <1>3 DEF VoteCast, VoteRefused, LocalChangeView
<1>4. ASSUME TakeMessage PROVE ReplayHasRound'
  BY <1>1, <1>3, <1>4 DEF TakeMessage, Contribute
<1>5. ASSUME NEW ok \in BOOLEAN, NEW member \in BOOLEAN,
             Notified(ok, member) \/ Tick(ok, member) \/ Established(ok, member)
      PROVE  ReplayHasRound'
  BY <1>1, <1>2, <1>5 DEF Notified, Tick, Established, AdoptAlways, Activate, driver
<1>6. ASSUME NEW k \in channel, Timeout(k) PROVE ReplayHasRound'
  <2>1. CASE TimeoutVote(k) \/ TimeoutRefused(k)
    BY <1>3, <2>1 DEF TimeoutVote, TimeoutRefused
  <2>2. CASE ~(TimeoutVote(k) \/ TimeoutRefused(k))
    BY <1>2, <1>6, <2>2 DEF Timeout, TimeoutStale, TimeoutDropped, TimeoutPrimary, TimeoutRecovery, driver
  <2> QED
    BY <2>1, <2>2
<1>7. ASSUME NEW e \in Epochs, NEW fate \in Fates, BuildDone(e, fate) PROVE ReplayHasRound'
  BY <1>1, <1>2, <1>7 DEF BuildDone, ProposeBuilt
<1>8. CASE DeliverNote \/ Replay \/ Verified
  BY <1>1, <1>3, <1>4, <1>8 DEF DeliverNote, Replay, Verified, Contribute
<1>9. CASE CanonMoves \/ NotificationLost \/ Fire \/ UNCHANGED clockVars
  BY <1>2, <1>9 DEF CanonMoves, NotificationLost, Fire, clockVars, driver
<1>10. CASE ReplayEnds
  BY <1>10 DEF ReplayEnds, ReplayHasRound
<1> QED
  BY <1>5, <1>6, <1>7, <1>8, <1>9, <1>10 DEF ClockNext

(* Every step of the driver, its timer, its tasks and the chain.           *)
LEMMA ClockStep == ClockInv /\ ReplayHasRound /\ [ClockNext]_clockVars => StepOK
<1> SUFFICES ASSUME ClockInv, ReplayHasRound, [ClockNext]_clockVars PROVE StepOK
  OBVIOUS
<1>0. Len(canon) \in Nat /\ round \in AnyRound \cup {Nil}
  BY DEF ClockInv, ClockTyped
<1>1. CASE CanonMoves
  <2>1. canon' \in Chains /\ UNCHANGED <<driver, clock, tasks>>
    BY <1>1 DEF CanonMoves
  <2>2. Len(canon') \in Nat
    <3>1. PICK n \in 0 .. MaxNumber : canon' \in [1 .. n -> Variants]
      BY <2>1 DEF Chains
    <3>2. n \in Nat
      BY ClockAssumption
    <3>3. canon' \in Seq(Variants)
      BY <3>1, <3>2
    <3> QED
      BY <3>3
  <2> QED
    BY <2>1, <2>2, RestIsSafe DEF driver, clock
<1>2. ASSUME NEW ok \in BOOLEAN, NEW member \in BOOLEAN, Notified(ok, member)
      PROVE  StepOK
  <2>1. CASE UNCHANGED <<canon, driver, clock, tasks>>
    BY <1>0, <2>1, RestIsSafe DEF driver, clock
  <2>2. CASE AdoptAlways(ok, member) /\ ~(status = canon /\ (Head(notes) # status \/ activeHead = status))
    BY <2>2, AdoptIsSafe
  <2> QED
    BY <1>2, <2>1, <2>2 DEF Notified
<1>3. ASSUME NEW ok \in BOOLEAN, NEW member \in BOOLEAN, Tick(ok, member)
      PROVE  StepOK
  BY <1>3, AdoptIsSafe DEF Tick
<1>4. ASSUME NEW ok \in BOOLEAN, NEW member \in BOOLEAN, Established(ok, member)
      PROVE  StepOK
  <2>1. /\ round = Nil /\ canon' = canon /\ status' = status
        /\ Activate(timer, channel, status, ok, member)
    BY <1>4 DEF Established
  <2> QED
    BY <2>1, ActivateIsSafe DEF ClockInv, ClockTyped
<1>5. CASE NotificationLost \/ ReplayEnds \/ UNCHANGED clockVars
  <2>1. UNCHANGED <<canon, status, round, activeHead, timer, channel>>
    BY <1>5 DEF NotificationLost, ReplayEnds, clockVars, driver, clock
  <2> QED
    BY <1>0, <2>1, RestIsSafe
<1>6. CASE DeliverNote \/ Replay
  <2>1. TakeMessage /\ UNCHANGED <<canon, status, activeHead>>
    BY <1>6 DEF DeliverNote, Replay
  <2>2. CASE round = Nil
    BY <1>6, <2>2 DEF DeliverNote, Replay, ReplayHasRound
  <2> QED
    BY <1>0, <2>1, <2>2, MessageIsSafe
<1>7. CASE Verified
  <2>1. round \in AnyRound /\ UNCHANGED <<canon, status, activeHead>>
    BY <1>0, <1>7 DEF Verified
  <2>2. CASE Contribute
    BY <2>1, <2>2, ContributeIsSafe
  <2>3. CASE LocalChangeView(timer, channel, round)
    BY <2>1, <2>3, LaterRounds, LocalVoteIsSafe
  <2> QED
    BY <1>7, <2>2, <2>3 DEF Verified
<1>8. CASE Fire
  <2>1. /\ UNCHANGED <<canon, status, round, activeHead>> /\ timer.asleep
        /\ timer' = [timer EXCEPT !.asleep = FALSE]
        /\ channel' = channel \cup {[epoch |-> timer.armed, live |-> TRUE]}
    BY <1>8 DEF Fire, driver
  <2>2. /\ {"armed", "asleep"} \subseteq DOMAIN timer'
        /\ timer'.armed = timer.armed /\ timer'.asleep = FALSE
    BY <2>1 DEF ClockInv, ClockTyped
  <2>3. [epoch |-> timer.armed, live |-> TRUE] \in Tokens
    BY DEF Tokens, ClockInv, ClockTyped
  <2>4. ClockTyped'
    BY <2>1, <2>2, <2>3 DEF ClockInv, ClockTyped
  <2>5. \A k \in channel : ~k.live
    BY <2>1 DEF ClockInv, LiveTokens
  <2>6. LiveTokens'
    BY <2>1, <2>2, <2>5 DEF LiveTokens
  <2>7. RoundOnStatus'
    BY <2>1, <2>2 DEF ClockInv, RoundOnStatus, Validating, Epoch
  <2>8. Kept /\ Watched
    BY <2>1, <2>2 DEF Kept, Watched, Unwatched, Validating, ClockInv, ClockTyped, AnyRound
  <2> QED
    BY <2>4, <2>6, <2>7, <2>8 DEF StepOK, ClockInv
<1>9. CASE \E k \in channel : Timeout(k)
  BY <1>9, TimeoutIsSafe
<1>10. CASE \E e \in Epochs, fate \in Fates : BuildDone(e, fate)
  BY <1>10, BuildIsSafe
<1> QED
  BY <1>1, <1>2, <1>3, <1>4, <1>5, <1>6, <1>7, <1>8, <1>9, <1>10 DEF ClockNext

(* The inductive invariant holds in every state.                           *)
LEMMA ClockInvariant == ClockSpec => [](ClockInv /\ ReplayHasRound)
<1>1. ClockInit => ClockInv /\ ReplayHasRound
  BY ClockStart DEF ClockInit, ReplayHasRound
<1>2. ClockInv /\ ReplayHasRound /\ [ClockNext]_clockVars => (ClockInv /\ ReplayHasRound)'
  BY ClockStep, ReplayStep DEF StepOK
<1> QED
  BY <1>1, <1>2, PTL DEF ClockSpec

(* The round of the driver always stands on the head the node advertises,  *)
(* and the timer is armed for its height and view or not at all, however   *)
(* notifications, ticks, peers, messages and timeouts interleave.          *)
THEOREM RoundStandsOnStatus == ClockSpec => []RoundOnStatus
<1>1. ClockInv => RoundOnStatus
  BY DEF ClockInv
<1> QED
  BY <1>1, ClockInvariant, PTL

(* While the head stays, the round goes back to no view and forgets        *)
(* nothing that it recorded in its view.                                   *)
THEOREM RoundIsKept == ClockSpec => RoundKept
<1>1. ClockInv /\ ReplayHasRound /\ [ClockNext]_clockVars =>
        [round # Nil /\ round' # Nil /\ activeHead' = activeHead =>
          \/ round'.view > round.view
          \/ /\ round'.view = round.view /\ round'.member = round.member
             /\ \A f \in {"proposal", "here", "ever", "voted"} : round[f] => round'[f]]_clockVars
  BY ClockStep DEF StepOK, Kept
<1> QED
  BY <1>1, ClockInvariant, PTL DEF ClockSpec, RoundKept

(* A validator's timer stops running in one way only: its timeout's        *)
(* ChangeView was refused, or had no view to go to.                        *)
THEOREM TimerIsKept == ClockSpec => StaysWatched
<1>1. ClockInv /\ ReplayHasRound /\ [ClockNext]_clockVars =>
        [~Unwatched /\ Unwatched' => \E k \in channel : TimeoutRefused(k)]_clockVars
  BY ClockStep DEF StepOK, Watched
<1> QED
  BY <1>1, ClockInvariant, PTL DEF ClockSpec, StaysWatched

(* DbftTimer::consume takes no token of an earlier arm: while the armed    *)
(* sleep goes on, a timeout changes neither the round nor the timer.       *)
THEOREM TimerIsWaitedOut == ClockSpec => WaitedOut
<1>1. ASSUME ClockInv, timer.asleep, NEW k \in channel, Timeout(k)
      PROVE  UNCHANGED <<round, timer>>
  <2>1. ~k.live
    BY <1>1 DEF ClockInv, LiveTokens
  <2>2. TimeoutStale(k)
    BY <1>1, <2>1 DEF Timeout, TimeoutDropped, TimeoutPrimary, TimeoutRecovery, TimeoutVote,
                      TimeoutRefused, Expired, Consumes
  <2> QED
    BY <2>2 DEF TimeoutStale, driver
<1>2. ClockInv =>
        [timer.asleep /\ channel' # channel /\ (\E k \in channel : Timeout(k)) =>
            UNCHANGED <<round, timer>>]_clockVars
  BY <1>1
<1> QED
  BY <1>2, ClockInvariant, PTL DEF WaitedOut
=============================================================================
