--------------------------- MODULE DescendantSync ---------------------------
(***************************************************************************)
(* DescendantSyncTargets: which of the heads that peers announce is sent   *)
(* to the Engine as a backfill target, one at a time, with a pause after   *)
(* each request and a budget of requests that only canonical progress      *)
(* replenishes.  The worker that submits a target answers late, and by     *)
(* then the canonical head may have moved.                                 *)
(***************************************************************************)
EXTENDS Naturals, SequencesExt

CONSTANTS
    Sources,        \* beacon peers
    Targets,        \* what they announce: a block hash and its number
    NoTarget,       \* no announcement, no request
    Heads,          \* numbers of the canonical head
    MaxRequests     \* DESCENDANT_SYNC_TARGET_MAX_REQUESTS

ASSUME TargetsAssumption == \A t \in Targets : t.number \in Nat
ASSUME NoTargetAssumption == NoTarget \notin Targets
ASSUME HeadsAssumption == Heads \subseteq Nat /\ Heads # {}
ASSUME MaxRequestsAssumption == MaxRequests \in Nat \ {0}

VARIABLES
    targets,        \* the fields of DescendantSyncTargets
    headNumber,     \* the canonical head, beacon.status()
    cooling         \* retry_at is in the future

descendantVars == <<targets, headNumber, cooling>>

Hashes == {t.hash : t \in Targets}

(* in_flight: a target and the anchor it was requested under. *)
Request(h, a) == [hash |-> h, anchor |-> a]

Entry(h, ps, r) == [hash |-> h, sources |-> ps, requested |-> r]

Claimed(claims) == {claims[p].hash : p \in {q \in Sources : claims[q] # NoTarget}}
Claimants(claims, h) == {p \in Sources : claims[p] # NoTarget /\ claims[p].hash = h}

(* The entries of a queue that still have a source. *)
Sourced(q) == SelectSeq(q, LAMBDA e : e.sources # {})

(* A queue whose entries keep, of their sources, those keep has for the hash. *)
Retained(q, keep) ==
    Sourced([i \in DOMAIN q |->
                Entry(q[i].hash, q[i].sources \cap keep[q[i].hash], q[i].requested)])

(* rebuild_pending visits a hash map: the entries come in any order. *)
RebuiltQueue(claims) ==
    SetToSeqs({Entry(h, Claimants(claims, h), FALSE) : h \in Claimed(claims)})

(* reconcile, for an anchor that stays or one that moved. *)
Reconcile(s, a) ==
    LET claims == [p \in Sources |->
            IF s.claims[p] # NoTarget /\ s.claims[p].number > a THEN s.claims[p] ELSE NoTarget]
    IN  IF s.anchor = a
        THEN {[s EXCEPT !.claims = claims,
                        !.pending = Retained(@, [h \in Hashes |-> Claimants(claims, h)])]}
        ELSE {[s EXCEPT !.anchor = a, !.claims = claims, !.pending = q, !.requests = 0,
                        !.served = {}, !.terminal = {}] : q \in RebuiltQueue(claims)}

(* retry_at is cleared with the budget. *)
Cooling(s, a) == cooling /\ s.anchor = a

(* The first entry with a source that has not had a request, or the first. *)
Index(s) ==
    LET fresh == {i \in DOMAIN s.pending : s.pending[i].sources \ s.served # {}}
    IN  IF fresh = {} THEN 1 ELSE Min(fresh)

(* request_if_due: nothing is due while a request is in flight, during the *)
(* pause, without an entry or when the budget is spent.                    *)
Due(s, cool) ==
    s.inFlight = NoTarget /\ s.requests < MaxRequests /\ ~cool /\ s.pending # <<>>

RequestedTarget(s) ==
    LET e == s.pending[Index(s)]
        queue == Append(RemoveAt(s.pending, Index(s)), Entry(e.hash, e.sources, TRUE))
    IN  [s EXCEPT !.served = @ \cup e.sources,
                  !.requests = @ + 1,
                  !.inFlight = Request(e.hash, s.anchor),
                  !.pending = IF s.requests + 1 >= MaxRequests THEN <<>> ELSE queue]

RequestIfDue(s, cool) ==
    IF Due(s, cool)
    THEN targets' = RequestedTarget(s) /\ cooling' = TRUE
    ELSE /\ targets' = [s EXCEPT !.pending =
                        IF s.inFlight = NoTarget /\ s.requests >= MaxRequests THEN <<>> ELSE @]
         /\ cooling' = cool

(* As RemoveSourceClaim, had the queue been left alone. *)
ForgetSourceClaim(s, p) == [s EXCEPT !.claims[p] = NoTarget]

RemoveSourceClaim(s, p) ==
    [s EXCEPT !.claims[p] = NoTarget,
              !.pending = Retained(@, [h \in Hashes |-> Sources \ {p}])]

(* update_source_claim: the source joins the entry of its hash or opens one. *)
UpdateSourceClaim(s, p, t) ==
    LET left == [RemoveSourceClaim(s, p) EXCEPT !.claims[p] = t]
        joined == {i \in DOMAIN left.pending : left.pending[i].hash = t.hash}
    IN  CASE s.claims[p] = t -> s
          [] s.claims[p] # t /\ s.requests >= MaxRequests -> left
          [] s.claims[p] # t /\ s.requests < MaxRequests /\ joined = {} ->
                [left EXCEPT !.pending = Append(@, Entry(t.hash, {p}, FALSE))]
          [] OTHER ->
                LET i == CHOOSE j \in joined : TRUE
                IN  [left EXCEPT !.pending[i].sources = @ \cup {p},
                                 !.served = IF left.pending[i].requested
                                            THEN @ \cup {p} ELSE @]

Invalidate(s, h) ==
    [s EXCEPT !.terminal = @ \cup {h},
              !.claims = [p \in Sources |->
                  IF p \in Claimants(s.claims, h) THEN NoTarget ELSE @[p]],
              !.pending = SelectSeq(@, LAMBDA e : e.hash # h)]
-----------------------------------------------------------------------------
DescendantInit ==
    /\ headNumber = Min(Heads)
    /\ targets = [anchor |-> 0, claims |-> [p \in Sources |-> NoTarget], pending |-> <<>>,
               served |-> {}, terminal |-> {}, requests |-> 0, inFlight |-> NoTarget]
    /\ cooling = FALSE

(* observe: a peer announces a head. *)
ObserveTarget(p, t) ==
    /\ \E s \in Reconcile(targets, headNumber) :
          IF t.number <= headNumber \/ t.hash \in s.terminal
          THEN /\ targets' = RemoveSourceClaim(s, p)
               /\ cooling' = Cooling(targets, headNumber)
          ELSE RequestIfDue(UpdateSourceClaim(s, p, t), Cooling(targets, headNumber))
    /\ UNCHANGED headNumber

(* retry, on every tick of the driver. *)
RetryTarget ==
    /\ \E s \in Reconcile(targets, headNumber) : RequestIfDue(s, Cooling(targets, headNumber))
    /\ UNCHANGED headNumber

(* The retry interval has passed since the last request. *)
PauseEnds ==
    /\ cooling
    /\ cooling' = FALSE
    /\ UNCHANGED <<targets, headNumber>>

(* A canonical notification: the new head is the anchor. *)
HeadMoves(n) ==
    /\ n > headNumber
    /\ headNumber' = n
    /\ targets' \in Reconcile(targets, n)
    /\ cooling' = Cooling(targets, n)

DisconnectSource(p) ==
    /\ targets' = [RemoveSourceClaim(targets, p) EXCEPT !.served = @ \ {p}]
    /\ UNCHANGED <<headNumber, cooling>>

(* As CompleteRequest, had an answer for an older anchor been dropped unread. *)
CompleteStaleRequest(terminal) ==
    /\ targets.inFlight # NoTarget
    /\ targets.inFlight.anchor = headNumber
    /\ LET request == targets.inFlight IN
       \E s \in Reconcile([targets EXCEPT !.inFlight = NoTarget], headNumber) :
          RequestIfDue(IF terminal THEN Invalidate(s, request.hash) ELSE s,
                       Cooling(targets, headNumber))
    /\ UNCHANGED headNumber

(* complete: the Engine called the target valid or invalid, or it did not  *)
(* answer in time; under a new anchor the answer tells nothing.            *)
CompleteRequest(terminal) ==
    /\ targets.inFlight # NoTarget
    /\ LET request == targets.inFlight IN
       \E s \in Reconcile([targets EXCEPT !.inFlight = NoTarget], headNumber) :
          RequestIfDue(IF terminal /\ request.anchor = headNumber
                       THEN Invalidate(s, request.hash) ELSE s,
                       Cooling(targets, headNumber))
    /\ UNCHANGED headNumber

DescendantNext ==
    \/ \E p \in Sources, t \in Targets : ObserveTarget(p, t)
    \/ RetryTarget
    \/ PauseEnds
    \/ \E n \in Heads : HeadMoves(n)
    \/ \E p \in Sources : DisconnectSource(p)
    \/ \E terminal \in BOOLEAN : CompleteRequest(terminal)

(* The driver's ticker keeps ticking and the interval passes; the worker   *)
(* answers every request within its timeout.                               *)
DescendantFairness ==
    /\ WF_descendantVars(RetryTarget)
    /\ WF_descendantVars(PauseEnds)
    /\ WF_descendantVars(\E terminal \in BOOLEAN : CompleteRequest(terminal))

DescendantSpec == DescendantInit /\ [][DescendantNext]_descendantVars /\ DescendantFairness
-----------------------------------------------------------------------------
(* Type correctness, with the budget and a queue of one entry per hash. *)
DescendantTypeOK ==
    /\ targets.anchor \in Heads \cup {0} /\ headNumber \in Heads /\ cooling \in BOOLEAN
    /\ targets.claims \in [Sources -> Targets \cup {NoTarget}]
    /\ targets.pending \in Seq([hash : Hashes, sources : SUBSET Sources, requested : BOOLEAN])
    /\ \A i, j \in DOMAIN targets.pending : targets.pending[i].hash = targets.pending[j].hash => i = j
    /\ targets.served \subseteq Sources /\ targets.terminal \subseteq Hashes
    /\ targets.requests \in 0 .. MaxRequests
    /\ targets.inFlight = NoTarget \/ targets.inFlight \in [hash : Hashes, anchor : Heads]

(* The queue and the claims are two views of one thing: until the budget   *)
(* is spent every announced hash is queued exactly once, with exactly the  *)
(* peers that announce it, however peers change their minds, disconnect,   *)
(* or are overtaken by the head.  A hash the Engine has settled under this *)
(* anchor is neither claimed nor queued again, under whatever number it is *)
(* announced ("must not let the same terminal target survive under another *)
(* tuple").                                                                *)
QueueMirrorsClaims ==
    /\ Claimed(targets.claims) \cap targets.terminal = {}
    /\ IF targets.requests >= MaxRequests THEN targets.pending = <<>>
       ELSE /\ {targets.pending[i].hash : i \in DOMAIN targets.pending} = Claimed(targets.claims)
            /\ \A i \in DOMAIN targets.pending :
                   targets.pending[i].sources = Claimants(targets.claims, targets.pending[i].hash)

(* Every announcement is acted on: its peer is given a request, unless it  *)
(* withdraws, disconnects or is overtaken, its hash is settled, or the     *)
(* budget is spent.                                                        *)
EveryClaimServed ==
    \A p \in Sources :
        targets.claims[p] # NoTarget ~>
            \/ p \in targets.served
            \/ targets.claims[p] = NoTarget
            \/ targets.requests >= MaxRequests
=============================================================================
