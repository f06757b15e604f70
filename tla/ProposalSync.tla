---------------------------- MODULE ProposalSync ----------------------------
(***************************************************************************)
(* ProposalTransactionSync and its owner ProposalRecovery: a validator     *)
(* fetches the transactions of the proposal it is asked to vote on from    *)
(* one beacon/2 peer at a time, while peers come, go, answer late, answer  *)
(* wrongly or not at all, and while the round may leave the view.          *)
(***************************************************************************)
EXTENDS Naturals, SequencesExt

CONSTANTS
    Peers,      \* beacon/2 peers
    Helpful,    \* peers that take requests and can answer them
    Txs,        \* the transactions of a proposal
    Views,      \* 0 .. n
    Ids,        \* request ids
    None

ASSUME HelpfulAssumption == Helpful \subseteq Peers
ASSUME ViewsAssumption == 0 \in Views /\ Views \subseteq Nat
ASSUME NoneAssumption == None \notin Views

VARIABLES
    txSync,         \* pending and requests of ProposalTransactionSync; handed: the
                    \* views whose proposal went to verification
    beaconPeers,    \* beacon_peers
    roundView,      \* round.current_view()
    proposed        \* round.proposal(view) is present

proposalVars == <<txSync, beaconPeers, roundView, proposed>>

(* A view has at most one proposal: it stands for the ProposalKey. *)
Pending(missing, candidates) ==
    [missing |-> missing, candidates |-> candidates, attempted |-> {}, active |-> None]

NoPending == [v \in Views |-> None]
NoRequests == [i \in Ids |-> None]

Clear(s) == [s EXCEPT !.pending = NoPending, !.requests = NoRequests]

PendingViews(s) == {v \in Views : s.pending[v] # None}
Idle(s) == {v \in PendingViews(s) : s.pending[v].active = None}

(* allocate_request_id passes over the ids in use. *)
FreeIds(s) == {i \in Ids : s.requests[i] = None}

Untried(r) == SelectSeq(r.candidates, LAMBDA p : p \notin r.attempted)

(* next_action and the dispatch of what it returns, when transactions are  *)
(* missing: the first k peers in line refuse the request and the one after *)
(* them takes it, or all refuse and the proposal waits.                    *)
Asked(s, v, cycle) ==
    LET r == s.pending[v]
        again == Untried(r) = <<>> /\ cycle
        line == IF again THEN r.candidates ELSE Untried(r)
        before == IF again THEN {} ELSE r.attempted
        Refused(k) == \A i \in 1 .. k : line[i] \notin Helpful
        Tried(k, a) == [r EXCEPT !.attempted = before \cup Range(SubSeq(line, 1, k)),
                                 !.active = a]
        Taken(k, i) == [s EXCEPT !.pending[v] = Tried(k, [id |-> i, peer |-> line[k]]),
                                 !.requests[i] = v]
        refusals == {k \in 0 .. Len(line) : Refused(k)}
    IN  {Taken(k + 1, i) : k \in refusals \ {Len(line)}, i \in FreeIds(s)}
        \cup {[s EXCEPT !.pending[v] = Tried(k, None)] : k \in refusals \cap {Len(line)}}

(* Verification starts only for the proposal of the current view. *)
Ready(s, v, cur) ==
    [s EXCEPT !.pending[v] = None, !.handed = IF v = cur THEN @ \cup {v} ELSE @]

Dispatch(s, v, cycle, cur) ==
    IF s.pending[v].missing = {} THEN {Ready(s, v, cur)} ELSE Asked(s, v, cycle)

DispatchAll(s, vs, cycle) ==
    FoldSet(LAMBDA v, S : UNION {Dispatch(t, v, cycle, roundView) : t \in S}, {s}, vs)

(* As ReleasedRequest, had the correlation been kept. *)
ReleasedHalf(s, v) == [s EXCEPT !.pending[v].active = None]

(* The request of a proposal is given up: its id and its slot are free. *)
ReleasedRequest(s, v) ==
    [s EXCEPT !.requests[s.pending[v].active.id] = None, !.pending[v].active = None]

ReleasedRequests(s, vs) == FoldSet(LAMBDA v, t : ReleasedRequest(t, v), s, vs)
-----------------------------------------------------------------------------
ProposalInit ==
    /\ txSync = [pending |-> NoPending, requests |-> NoRequests, handed |-> {}]
    /\ beaconPeers = {}
    /\ roundView = 0
    /\ proposed = FALSE

(* A message of peer p brings the proposal of view v, which may be a later *)
(* view than the current one; what the pool lacks has to be fetched.  The  *)
(* peer that relayed the proposal is asked first.                          *)
BeginFetch(p, v, missing) ==
    /\ v > roundView \/ (v = roundView /\ ~proposed)
    /\ LET s == IF v > roundView THEN Clear(txSync) ELSE txSync IN
       \E q \in SetToSeqs(beaconPeers) :
          /\ p \in beaconPeers => q[1] = p
          /\ txSync' \in Dispatch([s EXCEPT !.pending[v] = Pending(missing, q)], v, FALSE, v)
    /\ roundView' = v
    /\ proposed' = TRUE
    /\ UNCHANGED beaconPeers

(* The round leaves the view, or asks to and stays. *)
Leave(v) ==
    /\ v >= roundView
    /\ roundView' = v
    /\ proposed' = (v = roundView /\ proposed)

(* A proposal that repeats a hash or has too many is voted down. *)
BeginRejected(v, w) ==
    /\ v > roundView \/ (v = roundView /\ ~proposed)
    /\ txSync' = Clear(txSync)
    /\ w >= v
    /\ roundView' = w
    /\ proposed' = (w = v)
    /\ UNCHANGED beaconPeers

(* Messages of other validators change the view. *)
ViewMoves(v) ==
    /\ v > roundView
    /\ Leave(v)
    /\ txSync' = Clear(txSync)
    /\ UNCHANGED beaconPeers

(* handle_dbft_timeout, when it publishes a ChangeView. *)
TimeoutVotes(v) ==
    /\ Leave(v)
    /\ txSync' = Clear(txSync)
    /\ UNCHANGED beaconPeers

(* The proposal did not verify: its view is voted down. *)
VerificationFails(v) ==
    /\ proposed /\ roundView \in txSync.handed
    /\ Leave(v)
    /\ txSync' = Clear(txSync)
    /\ UNCHANGED beaconPeers

(* The local primary has its own transactions. *)
VerifyLocal ==
    /\ ~proposed
    /\ proposed' = TRUE
    /\ txSync' = [txSync EXCEPT !.handed = @ \cup {roundView}]
    /\ UNCHANGED <<beaconPeers, roundView>>

(* A block became canonical: the next height starts from nothing. *)
RoundEnds ==
    /\ txSync' = [Clear(txSync) EXCEPT !.handed = {}]
    /\ roundView' = 0
    /\ proposed' = FALSE
    /\ UNCHANGED beaconPeers

WithCandidate(s, p, vs) ==
    [s EXCEPT !.pending = [v \in Views |->
        IF v \in vs /\ p \notin Range(@[v].candidates)
        THEN [@[v] EXCEPT !.candidates = Append(@, p)] ELSE @[v]]]

(* observe_source: another message of the view arrives from p. *)
ObserveSource(p) ==
    /\ proposed /\ p \in beaconPeers
    /\ txSync.pending[roundView] # None
    /\ LET s == WithCandidate(txSync, p, {roundView})
       IN  txSync' \in DispatchAll(s, Idle(s) \cap {roundView}, FALSE)
    /\ UNCHANGED <<beaconPeers, roundView, proposed>>

(* connect_peer, add_peer. *)
ConnectPeer(p) ==
    /\ p \notin beaconPeers
    /\ beaconPeers' = beaconPeers \cup {p}
    /\ LET s == WithCandidate(txSync, p, PendingViews(txSync))
       IN  txSync' \in DispatchAll(s, Idle(s), FALSE)
    /\ UNCHANGED <<roundView, proposed>>

(* The proposals that wait for an answer of p. *)
Awaiting(p) ==
    {v \in PendingViews(txSync) \ Idle(txSync) : txSync.pending[v].active.peer = p}

WithoutCandidate(s, p) ==
    [s EXCEPT !.pending = [v \in Views |->
        IF @[v] = None THEN None
        ELSE [@[v] EXCEPT !.candidates = SelectSeq(@, LAMBDA q : q # p),
                          !.attempted = @ \ {p}]]]

(* disconnect_peer, remove_peer: requests assigned to the peer move on. *)
DisconnectPeer(p) ==
    /\ p \in beaconPeers
    /\ beaconPeers' = beaconPeers \ {p}
    /\ txSync' \in DispatchAll(ReleasedRequests(WithoutCandidate(txSync, p), Awaiting(p)),
                             Awaiting(p), FALSE)
    /\ UNCHANGED <<roundView, proposed>>

(* supply: a response for request i from the peer that was asked.  Missing *)
(* transactions, some or all, are taken; a response that is empty, repeats *)
(* one or holds another is refused whole.  A response from another peer or *)
(* for an id without a request changes nothing.                            *)
Supply(p, i, txs) ==
    /\ txSync.requests[i] # None
    /\ UNCHANGED <<beaconPeers, roundView, proposed>>
    /\ LET v == txSync.requests[i]
           r == txSync.pending[v]
           s == ReleasedRequest(txSync, v)
       IN  /\ r.active.peer = p
           /\ txs # {} /\ txs \subseteq r.missing
           /\ txSync' \in DispatchAll([s EXCEPT !.pending[v].missing = @ \ txs], {v}, FALSE)

SupplyRejected(p, i) ==
    /\ txSync.requests[i] # None
    /\ LET v == txSync.requests[i]
       IN  /\ txSync.pending[v].active.peer = p
           /\ txSync' \in DispatchAll(ReleasedRequest(txSync, v), {v}, FALSE)
    /\ UNCHANGED <<beaconPeers, roundView, proposed>>

(* As ExpireRequests, had it never started over. *)
ExpireOnce(old) ==
    /\ old \subseteq PendingViews(txSync) \ Idle(txSync)
    /\ txSync' \in DispatchAll(ReleasedRequests(txSync, old), old \cup Idle(txSync), FALSE)
    /\ UNCHANGED <<beaconPeers, roundView, proposed>>

(* The maintenance tick: requests of five seconds (old) and idle proposals *)
(* go to the next peer, and round the circle again.                        *)
ExpireRequests(old) ==
    /\ old \subseteq PendingViews(txSync) \ Idle(txSync)
    /\ UNCHANGED <<beaconPeers, roundView, proposed>>
    /\ txSync' \in DispatchAll(ReleasedRequests(txSync, old), old \cup Idle(txSync), TRUE)

ProposalNext ==
    \/ \E p \in Peers, v \in Views, missing \in SUBSET Txs : BeginFetch(p, v, missing)
    \/ \E v, w \in Views : BeginRejected(v, w)
    \/ \E v \in Views : ViewMoves(v) \/ TimeoutVotes(v) \/ VerificationFails(v)
    \/ VerifyLocal
    \/ RoundEnds
    \/ \E p \in Peers : ObserveSource(p) \/ ConnectPeer(p) \/ DisconnectPeer(p)
    \/ \E p \in Peers, i \in Ids : \/ \E txs \in SUBSET Txs : Supply(p, i, txs)
                                   \/ SupplyRejected(p, i)
    \/ \E old \in SUBSET Views : ExpireRequests(old)

(* The maintenance ticker keeps ticking, and a helpful peer that is asked  *)
(* again and again answers in time at last.                                *)
ProposalFairness ==
    /\ WF_proposalVars(ExpireRequests(PendingViews(txSync) \ Idle(txSync)))
    /\ SF_proposalVars(\E p \in Helpful, i \in Ids, txs \in SUBSET Txs : Supply(p, i, txs))

ProposalSpec == ProposalInit /\ [][ProposalNext]_proposalVars /\ ProposalFairness
-----------------------------------------------------------------------------
(* Type correctness; a pending proposal lacks something. *)
ProposalTypeOK ==
    /\ \A v \in PendingViews(txSync) :
          txSync.pending[v] \in [missing : SUBSET Txs \ {{}}, candidates : Seq(Peers),
                               attempted : SUBSET Peers,
                               active : {None} \cup [id : Ids, peer : Peers]]
    /\ txSync.requests \in [Ids -> Views \cup {None}]
    /\ txSync.handed \subseteq Views /\ beaconPeers \subseteq Peers
    /\ roundView \in Views /\ proposed \in BOOLEAN

(* requests and the active requests of the pending proposals are inverse   *)
(* to each other at all times.  supply panics (".expect") on a response    *)
(* whose id is in requests while its proposal is gone or has no active     *)
(* request; a request that requests does not know can never be answered.   *)
CorrelationExact ==
    /\ \A i \in Ids : txSync.requests[i] # None =>
          /\ txSync.pending[txSync.requests[i]] # None
          /\ txSync.pending[txSync.requests[i]].active # None
          /\ txSync.pending[txSync.requests[i]].active.id = i
    /\ \A v \in PendingViews(txSync) \ Idle(txSync) :
          txSync.requests[txSync.pending[v].active.id] = v

(* Only the proposal of the current view is fetched, and none that was     *)
(* already handed to verification: every way out of a view, and a local    *)
(* vote to leave it, drops its requests.                                   *)
FetchesCurrent ==
    \A v \in PendingViews(txSync) : v = roundView /\ proposed /\ v \notin txSync.handed

(* Failover reaches exactly the connected peers: each is a candidate of    *)
(* the pending proposal, once, and nobody else is asked or remembered.     *)
CandidatesConnected ==
    \A v \in PendingViews(txSync) :
        LET r == txSync.pending[v]
        IN  /\ Range(r.candidates) = beaconPeers /\ Len(r.candidates) = Cardinality(beaconPeers)
            /\ r.attempted \subseteq beaconPeers
            /\ r.active # None => r.active.peer \in r.attempted

(* When peers no longer come and go and a helpful one is among them, every *)
(* fetch ends, in verification or by the round's leaving: silent, slow,    *)
(* refusing and wrong peers before it in line cannot hold it up for ever.  *)
FetchEnds ==
    <>[](beaconPeers \cap Helpful # {}) /\ <>[][UNCHANGED beaconPeers]_proposalVars =>
        \A v \in Views : txSync.pending[v] # None ~> txSync.pending[v] = None
=============================================================================
