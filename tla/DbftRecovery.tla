---------------------------- MODULE DbftRecovery ----------------------------
(***************************************************************************)
(* DbftRoundState, the round a validator keeps in memory, as it admits     *)
(* messages one by one and as it is compacted into a RecoveryMessage, sent *)
(* to another validator, expanded and replayed there.  The round of the    *)
(* validator Helper is compacted; the validator Lagging replays it.  Both  *)
(* hear some of the messages of Sent, in any order, and may miss others.   *)
(***************************************************************************)
EXTENDS DbftBase, SequencesExt

CONSTANTS
    Sent,       \* the messages validators have signed at this height
    AntiMev,    \* the round has pre-commits
    Helper,     \* the validator that answers with a RecoveryMessage
    Lagging     \* the validator it is sent to

ASSUME SentAssumption == Sent \subseteq Message
ASSUME AntiMevRoundAssumption == AntiMev \in BOOLEAN
ASSUME PartiesAssumption == {Helper, Lagging} \subseteq Validators /\ Helper # Lagging

VARIABLES
    round,      \* the two rounds: view, recorded messages, latest ChangeViews
    recovery    \* at most one: the last RecoveryMessage of Helper

recoveryVars == <<round, recovery>>

(* A ChangeView asks for the view after the one it was sent in. *)
Target(m) == m.view + 1

(* Requests for no view: the validator has not asked to leave view 0. *)
NewRound == [view |-> 0, messages |-> {}, latest |-> [i \in Validators |-> 0]]

(* The message kept for the view, kind and sender of m, if there is one.   *)
Slot(rd, m) ==
    {x \in rd.messages : x.kind = m.kind /\ x.view = m.view /\ x.from = m.from}

(* The kinds that are only taken in the current view, and up to it. *)
WrongView(rd, m) ==
    \/ m.kind \in {"PrepareRequest", "PrepareResponse"} /\ m.view # rd.view
    \/ m.kind \in {"PreCommit", "Commit"} /\ m.view > rd.view

(* What is only refused after the message was recorded. *)
Misplaced(m) ==
    \/ m.kind = "PrepareRequest" /\ m.from # Primary(m.view)
    \/ m.kind = "PrepareResponse" /\ m.from = Primary(m.view)
    \/ m.kind = "PreCommit" /\ ~AntiMev
    \/ m.kind = "ChangeView" /\ Target(m) > MaxView

Votes(latest, t) == {i \in Validators : latest[i] >= t}

(* As Tally, with one request too few. *)
TallyShort(rd, m) ==
    LET latest == [rd.latest EXCEPT ![m.from] = Target(m)]
    IN  IF Target(m) <= rd.view \/ Target(m) < rd.latest[m.from]
        THEN rd
        ELSE [rd EXCEPT !.latest = latest,
                        !.view = IF Cardinality(Votes(latest, Target(m))) >= Quorum - 1
                                 THEN Target(m) ELSE @]

(* A request for a later view replaces the validator's latest one, and a   *)
(* quorum of latest requests for its view or beyond moves the round there. *)
Tally(rd, m) ==
    LET latest == [rd.latest EXCEPT ![m.from] = Target(m)]
    IN  IF Target(m) <= rd.view \/ Target(m) < rd.latest[m.from]
        THEN rd
        ELSE [rd EXCEPT !.latest = latest,
                        !.view = IF Cardinality(Votes(latest, Target(m))) >= Quorum
                                 THEN Target(m) ELSE @]

Recorded(rd, m) == [rd EXCEPT !.messages = (@ \ Slot(rd, m)) \cup {m}]

(* What is refused outright: a message of another view, and a second,      *)
(* different message for a slot.  A ChangeView may fill its slot again.    *)
Refused(rd, m) ==
    \/ WrongView(rd, m)
    \/ m.kind # "ChangeView" /\ Slot(rd, m) \ {m} # {}

Outcome(ok, rd) == [ok |-> ok, round |-> rd]

(* process of any message but a RecoveryMessage. *)
Process(rd, m) ==
    CASE Refused(rd, m) -> Outcome(FALSE, rd)
      [] m.kind # "ChangeView" /\ m \in rd.messages -> Outcome(TRUE, rd)
      [] Misplaced(m) -> Outcome(FALSE, Recorded(rd, m))
      [] m.kind = "ChangeView" -> Outcome(TRUE, Tally(Recorded(rd, m), m))
      [] OTHER -> Outcome(TRUE, Recorded(rd, m))
-----------------------------------------------------------------------------
(* The parts of recovery_message: the preparations of the current view ... *)
Preparations(rd) ==
    {m \in rd.messages : m.kind \in {"PrepareRequest", "PrepareResponse"} /\ m.view = rd.view}

(* ... the requests that led to it, sent in the view before ... *)
ChangeViews(rd) ==
    {m \in rd.messages : m.kind = "ChangeView" /\ m.view = rd.view - 1}

(* ... and, once its sender has contributed one, the earliest contribution *)
(* of each validator.                                                      *)
Contributions(rd, k) ==
    LET all == {m \in rd.messages : m.kind = k}
    IN  IF Helper \in {m.from : m \in all}
        THEN {m \in all : \A x \in all : x.from = m.from => m.view <= x.view}
        ELSE {}

(* add_message refuses a second preparation of a validator. *)
Compactable(rd) ==
    \A m, x \in Preparations(rd) : m.from = x.from => m = x

(* add_message keeps one preparation hash: that of the request, or of the  *)
(* first response when the request is missing.                             *)
PreparationHash(rd) ==
    LET requests == {m \in Preparations(rd) : m.kind = "PrepareRequest"}
        Highest(ms) == CHOOSE m \in ms : \A x \in ms : x.from <= m.from
        Lowest(ms) == CHOOSE m \in ms : \A x \in ms : m.from <= x.from
    IN  CASE Preparations(rd) = {} -> NoBlock
          [] requests # {} -> Highest(requests).block
          [] OTHER -> Lowest(Preparations(rd)).block

Compact(rd) ==
    [view |-> rd.view, preparations |-> Preparations(rd), hash |-> PreparationHash(rd),
     changeViews |-> ChangeViews(rd), preCommits |-> Contributions(rd, "PreCommit"),
     commits |-> Contributions(rd, "Commit")]

(* expand rebuilds the primary's preparation only with the request.       *)
Requested(c) == \E m \in c.preparations : m.kind = "PrepareRequest"

Rebuildable(c) ==
    {m \in c.preparations : m.from = Primary(c.view) => Requested(c)}

(* What a compact preparation is rebuilt as.  Only the original message    *)
(* passes verify_recovered, because its witness signs the hash.            *)
Rebuilt(c, m) ==
    Msg(IF m.from = Primary(c.view) THEN "PrepareRequest" ELSE "PrepareResponse",
        c.view, m.from, c.hash)

Expandable(c) == \A m \in Rebuildable(c) : Rebuilt(c, m) = m

(* As Expanded, had the requests for the view been replayed last. *)
ExpandedLate(c) ==
    LET request == {m \in Rebuildable(c) : m.kind = "PrepareRequest"}
    IN  SetToSeq(request) \o SetToSeq(Rebuildable(c) \ request)
            \o SetToSeq(c.preCommits) \o SetToSeq(c.commits) \o SetToSeq(c.changeViews)

(* The order of replay: requests for the view, proposal, responses, shares *)
(* and commits.                                                            *)
Expanded(c) ==
    LET request == {m \in Rebuildable(c) : m.kind = "PrepareRequest"}
    IN  SetToSeq(c.changeViews) \o SetToSeq(request) \o SetToSeq(Rebuildable(c) \ request)
            \o SetToSeq(c.preCommits) \o SetToSeq(c.commits)

(* process of a RecoveryMessage: all of it or, after any error, none. *)
Replay(rd, c) ==
    LET Wanted(next, m) ==
            CASE m.kind = "ChangeView" -> c.view > rd.view
              [] m.kind \in {"PrepareRequest", "PrepareResponse"} -> c.view = next.view
              [] OTHER -> c.view <= next.view
        Step(out, m) ==
            IF out.ok /\ Wanted(out.round, m) THEN Process(out.round, m) ELSE out
        result == FoldLeft(Step, Outcome(TRUE, rd), Expanded(c))
    IN  IF Expandable(c) THEN result ELSE Outcome(FALSE, rd)
-----------------------------------------------------------------------------
RecoveryInit ==
    /\ round = [n \in {Helper, Lagging} |-> NewRound]
    /\ recovery = {}

(* A message reaches one of the two rounds; whether it is applied or not,  *)
(* it may come again.                                                      *)
Hear(n, m) ==
    /\ round' = [round EXCEPT ![n] = Process(@, m).round]
    /\ UNCHANGED recovery

(* publish_recovery_message: nothing is sent when compaction fails. *)
PublishRecovery ==
    /\ Compactable(round[Helper])
    /\ recovery' = {Compact(round[Helper])}
    /\ UNCHANGED round

(* The RecoveryMessage, perhaps late and perhaps not for the first time,   *)
(* reaches the other round.                                                *)
HearRecovery(c) ==
    /\ LET out == Replay(round[Lagging], c)
       IN  round' = IF out.ok THEN [round EXCEPT ![Lagging] = out.round] ELSE round
    /\ UNCHANGED recovery

RecoveryNext ==
    \/ \E n \in {Helper, Lagging}, m \in Sent : Hear(n, m)
    \/ PublishRecovery
    \/ \E c \in recovery : HearRecovery(c)

RecoverySpec == RecoveryInit /\ [][RecoveryNext]_recoveryVars
-----------------------------------------------------------------------------
(* Type correctness: the maps of DbftRoundState and the six parts of a     *)
(* DbftRecoveryMessage.                                                    *)
RecoveryTypeOK ==
    /\ \A n \in {Helper, Lagging} :
          /\ round[n].view \in Views /\ round[n].messages \subseteq Sent
          /\ \A i \in Validators : round[n].latest[i] \in Views
    /\ \A c \in recovery :
          /\ c.view \in Views /\ c.hash \in Blocks \cup {NoBlock}
          /\ c.preparations \cup c.changeViews \cup c.preCommits \cup c.commits \subseteq Sent

(* Requests that are superseded, arrive late, come again or are replayed   *)
(* from a RecoveryMessage never move a round on their own: for the view a  *)
(* round is in, it holds requests for that view or beyond of a quorum.     *)
ViewJustified ==
    \A n \in {Helper, Lagging} :
        round[n].view > 0 =>
            Cardinality({m.from : m \in {x \in round[n].messages :
                             x.kind = "ChangeView" /\ Target(x) >= round[n].view}})
                >= Quorum

(* Whatever a round has recorded, it can be compacted into a               *)
(* RecoveryMessage, and the receiver can authenticate every part of it     *)
(* (add_message: "erroring stalls recovery entirely").                     *)
RecoveryExpands ==
    Compactable(round[Helper]) /\ Expandable(Compact(round[Helper]))

(* A RecoveryMessage is enough to catch up.  A receiver in its view, or    *)
(* one behind it for which the message carries a quorum of requests, not   *)
(* all of them superseded, ends in that view with every preparation and    *)
(* contribution the message carries, however late the message is.          *)
Reaches(rd, c) ==
    \/ rd.view = c.view
    \/ /\ rd.view < c.view
       /\ Cardinality(c.changeViews) >= Quorum
       /\ \E m \in c.changeViews : rd.latest[m.from] <= c.view

RecoveryComplete ==
    \A c \in recovery : Reaches(round[Lagging], c) =>
        LET out == Replay(round[Lagging], c)
        IN  /\ out.ok
            /\ out.round.view = c.view
            /\ c.preparations \cup c.preCommits \cup c.commits \subseteq out.round.messages
=============================================================================
