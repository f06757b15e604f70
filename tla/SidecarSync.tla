----------------------------- MODULE SidecarSync -----------------------------
(***************************************************************************)
(* The sync driver's fetching of finalized blob sidecars: blocks whose     *)
(* sidecars the transaction pool no longer has are asked from beacon       *)
(* peers, singly or in batches, failed over, retried and forwarded for     *)
(* others. Request ids are never reused, so a late answer finds no request *)
(* and does nothing; a request stands for its id.  The order of preference *)
(* among the peers that have not failed is left open.                      *)
(***************************************************************************)
EXTENDS Naturals, Sequences, FiniteSets, SequencesExt

CONSTANTS
    Blocks,         \* blob blocks
    BeaconPeers,
    Holders,        \* peers that have the sidecars, stay, and answer in the end
    BatchLimit,     \* SIDECAR_BATCH_BLOCK_LIMIT, 16 in the code
    RetryLimit,     \* SIDECAR_RETRY_QUEUE_LIMIT, 256
    Nobody

VARIABLES
    known,          \* blocks the provider has
    store,          \* NeoXSidecarStore
    connected,      \* SidecarSync::peers
    gone,           \* of these, the ones whose stream has ended
    pending, retries

sidecarVars == <<known, store, connected, gone, pending, retries>>

(* A request, or with peer Nobody a queued retry. *)
Asking(single, blocks, origin, failed) ==
    [single |-> single, blocks |-> blocks, origin |-> origin, failed |-> failed, peer |-> Nobody]

SidecarInit ==
    /\ known = {} /\ store = {} /\ connected = {} /\ gone = {}
    /\ pending = {} /\ retries = <<>>

Wanted(st) == UNION {ToSet(r.blocks) : r \in st.pending \cup ToSet(st.retries)}
AskedPeers(st) == UNION {ToSet(r.blocks) : r \in st.pending}
Here == [pending |-> pending, retries |-> retries]

-----------------------------------------------------------------------------
QueueRetry(st, r) ==
    IF Len(st.retries) >= RetryLimit THEN st ELSE [st EXCEPT !.retries = Append(@, r)]

(* dispatch_retry: the states it may end in.  Peers whose stream is gone   *)
(* fail on the way to the one that is asked.                               *)
DispatchRetry(st, peers, ended, have, r) ==
    LET left == SelectSeq(r.blocks, LAMBDA h : h \notin have /\ (r.single \/ h \notin AskedPeers(st)))
        open == peers \ r.failed
    IN  IF left = <<>> THEN {st}
        ELSE IF open \ ended = {}
        THEN {QueueRetry(st, [r EXCEPT !.blocks = left, !.failed = @ \cup open, !.peer = Nobody])}
        ELSE {[st EXCEPT !.pending = @ \cup {[r EXCEPT !.blocks = left, !.failed = @ \cup lost, !.peer = p]}] :
                 p \in open \ ended, lost \in SUBSET (open \cap ended)}

Become(sts) == \E st \in sts : pending' = st.pending /\ retries' = st.retries

(* into_retry *)
Failed(r) == [r EXCEPT !.failed = @ \cup {r.peer}, !.peer = Nobody]

WithoutRequest(st, rs) == [st EXCEPT !.pending = @ \ rs]

Ask(st, have, r) == DispatchRetry(st, connected, gone, have, r)

(* The requests rs are taken back, one after the other, and sent           *)
(* elsewhere.                                                              *)
FailOver(peers, ended, rs) ==
    FoldLeft(LAMBDA sts, r : UNION {DispatchRetry(WithoutRequest(s, {r}), peers, ended, store, Failed(r)) : s \in sts},
             {Here}, SetToSeq(rs))

(* request_single and request_batch ask for what nobody was asked for yet. *)
RequestSingle(have, h, origin, failed) ==
    IF h \in Wanted(Here) \cup have THEN UNCHANGED <<pending, retries>>
    ELSE Become(Ask(Here, have, Asking(TRUE, <<h>>, origin, failed)))

(* As RequestBatch, looking at the requests under way alone. *)
RequestBatchAgain(have, hs) ==
    LET new == SelectSeq(hs, LAMBDA h : h \notin AskedPeers(Here) \cup have)
    IN  Become(Ask(Here, have, Asking(FALSE, new, Nobody, {})))

RequestBatch(have, hs) ==
    LET new == SelectSeq(hs, LAMBDA h : h \notin Wanted(Here) \cup have)
    IN  Become(Ask(Here, have, Asking(FALSE, new, Nobody, {})))

-----------------------------------------------------------------------------
(* archive_chain: sidecars are taken from the pool or asked for, in chunks *)
(* of the batch limit; a store that fails leaves the block out.            *)
ArchiveBlock(hs) ==
    /\ hs # <<>> /\ Len(hs) <= BatchLimit
    /\ known' = known \cup ToSet(hs)
    /\ \E pooled \in SUBSET (ToSet(hs) \ store), lost \in SUBSET (ToSet(hs) \ store) :
          /\ store' = store \cup (pooled \ lost)
          /\ RequestBatch(store', SelectSeq(hs, LAMBDA h : h \notin store \cup pooled \cup lost))
    /\ UNCHANGED <<connected, gone>>

(* The import of a committed block archives its sidecars by itself. *)
ArchivedByImport(h) ==
    /\ store' = store \cup {h} /\ known' = known \cup {h}
    /\ UNCHANGED <<connected, gone, pending, retries>>

RequestAnnounced(p, h) ==
    /\ p \in connected /\ h \in known
    /\ RequestSingle(store, h, Nobody, {})
    /\ UNCHANGED <<known, store, connected, gone>>

(* serve_or_forward, when the sidecars are not here and the ttl allows. *)
Forward(p, h) ==
    /\ p \in connected /\ h \in known \ store
    /\ RequestSingle(store, h, p, {p})
    /\ UNCHANGED <<known, store, connected, gone>>

-----------------------------------------------------------------------------
(* A single answer is stored, or counts against the peer.  An answer of    *)
(* the other kind counts against it as well.                               *)
ImportSingle(r, valid) ==
    /\ r \in pending /\ r.single
    /\ store' = IF valid THEN store \cup ToSet(r.blocks) ELSE store
    /\ IF valid THEN pending' = pending \ {r} /\ UNCHANGED retries
       ELSE Become(Ask(WithoutRequest(Here, {r}), store, Failed(r)))
    /\ UNCHANGED <<known, connected, gone>>

(* import_batch of the first n blocks, of which some are bad; an answer    *)
(* that is empty or has bad blocks counts against the peer.                *)
ImportBatch(r, n, bad) ==
    LET good == {r.blocks[i] : i \in 1 .. n} \ bad
        missing == SelectSeq(SubSeq(r.blocks, 1, n), LAMBDA h : h \in bad)
        retry == [r EXCEPT !.blocks = missing \o SubSeq(@, n + 1, Len(@)), !.peer = Nobody,
                           !.failed = IF n = 0 \/ missing # <<>> THEN @ \cup {r.peer} ELSE @]
    IN  /\ r \in pending /\ ~r.single
        /\ store' = store \cup good
        /\ Become(Ask(WithoutRequest(Here, {r}), store', retry))
        /\ UNCHANGED <<known, connected, gone>>

WrongKind(r) ==
    /\ r \in pending
    /\ Become(Ask(WithoutRequest(Here, {r}), store, Failed(r)))
    /\ UNCHANGED <<known, store, connected, gone>>

ImportAnswer(r, n, bad) ==
    \/ ImportSingle(r, bad = {})
    \/ n <= Len(r.blocks) /\ ImportBatch(r, n, bad)

-----------------------------------------------------------------------------
ConnectBeacon(p) ==
    /\ connected' = connected \cup {p} /\ gone' = gone \ {p}
    /\ p \notin connected \ gone
    /\ UNCHANGED <<known, store, pending, retries>>

StreamEnds(p) ==
    /\ p \in connected \ (gone \cup Holders)
    /\ gone' = gone \cup {p}
    /\ UNCHANGED <<known, store, connected, pending, retries>>

(* The beacon stream's Disconnected event fails its requests over. *)
DisconnectBeacon(p) ==
    LET theirs == {r \in pending : r.peer = p}
    IN  /\ p \in gone
        /\ connected' = connected \ {p} /\ gone' = gone \ {p}
        /\ Become(FailOver(connected', gone', theirs))
        /\ UNCHANGED <<known, store>>

(* reopen_exhausted_peer_cycle *)
Reopen(r) ==
    IF connected # {} /\ connected \subseteq r.failed
    THEN [r EXCEPT !.failed = {r.origin} \ {Nobody}] ELSE r

(* drain_retries: as many as were queued, each from the front. *)
DrainRetries(st) ==
    FoldLeft(LAMBDA sts, i : UNION {DispatchRetry([s EXCEPT !.retries = Tail(@)], connected, gone, store,
                                             Reopen(Head(s.retries))) : s \in sts},
             {st}, [i \in 1 .. Len(st.retries) |-> i])

(* As ExpireSidecars, without the drain that ends it. *)
ExpireUndrained(late) ==
    /\ late \subseteq pending
    /\ Become(FailOver(connected, gone, late))
    /\ UNCHANGED <<known, store, connected, gone>>

(* The driver's tick. *)
ExpireSidecars(late) ==
    /\ late \subseteq pending
    /\ Become(UNION {DrainRetries(st) : st \in FailOver(connected, gone, late)})
    /\ UNCHANGED <<known, store, connected, gone>>

-----------------------------------------------------------------------------
Batches == UNION {[1 .. n -> Blocks] : n \in 1 .. BatchLimit}

SidecarNext ==
    \/ \E hs \in {b \in Batches : IsInjective(b)} : ArchiveBlock(hs)
    \/ \E h \in Blocks : ArchivedByImport(h)
    \/ \E p \in BeaconPeers, h \in Blocks : RequestAnnounced(p, h)
    \/ \E p \in BeaconPeers \ Holders, h \in Blocks : Forward(p, h)
    \/ \E r \in pending, n \in 0 .. BatchLimit, bad \in SUBSET Blocks : ImportAnswer(r, n, bad)
    \/ \E r \in pending : WrongKind(r)
    \/ \E p \in BeaconPeers : ConnectBeacon(p) \/ StreamEnds(p) \/ DisconnectBeacon(p)
    \/ \E late \in SUBSET pending : ExpireSidecars(late)

(* A holder connects, and of the requests it keeps getting answers one in  *)
(* full; the tick comes, and requests left unanswered run into it.         *)
HolderAnswers == \E r \in pending : r.peer \in Holders /\ ImportAnswer(r, Len(r.blocks), {})
Ticks == ExpireSidecars(pending)

SidecarSpec ==
    /\ SidecarInit /\ [][SidecarNext]_sidecarVars
    /\ WF_sidecarVars(\E p \in Holders : ConnectBeacon(p))
    /\ WF_sidecarVars(Ticks) /\ SF_sidecarVars(HolderAnswers)

-----------------------------------------------------------------------------
SidecarRequest ==
    [single : BOOLEAN, blocks : Seq(Blocks), origin : BeaconPeers \cup {Nobody},
     failed : SUBSET BeaconPeers, peer : BeaconPeers \cup {Nobody}]

(* Type correctness; requests are out at connected peers that have not     *)
(* failed them, and the retry queue keeps its limit.                       *)
SidecarTypeOK ==
    /\ known \subseteq Blocks /\ store \subseteq known
    /\ connected \subseteq BeaconPeers /\ gone \subseteq connected
    /\ \A r \in pending : r \in SidecarRequest /\ r.peer \in connected \ r.failed
    /\ \A r \in ToSet(retries) : r \in SidecarRequest /\ r.peer = Nobody
    /\ Len(retries) <= RetryLimit

(* However requests fail, time out, are split and queued again, a block is *)
(* asked for in one place only: of one peer, or once in the retry queue.   *)
AskedOnce ==
    LET all == pending \cup ToSet(retries)
    IN  /\ IsInjective(retries) /\ ToSet(retries) \cap pending = {}
        /\ \A r \in all : IsInjective(r.blocks)
        /\ \A r, q \in all : r # q => ToSet(r.blocks) \cap ToSet(q.blocks) = {}

(* A block that is asked for stays asked for until its sidecars are        *)
(* archived, unless there are more requests than the retry queue holds.    *)
StaysAskedFor ==
    [][\A h \in Wanted(Here) \ Wanted(Here)' :
          h \in store' \/ Cardinality(pending) + Len(retries) > RetryLimit]_sidecarVars

(* A request forwarded for a peer is not sent back to that peer, also when *)
(* all peers have failed and the cycle starts again.                       *)
NotSentBack == \A r \in pending : r.origin # r.peer

(* Peers that disconnect, expire or answer in part do not make the node    *)
(* forget a block, and while a holder stays connected the block that is    *)
(* asked for is archived, or was dropped at the full queue.                *)
FetchedInTheEnd ==
    /\ StaysAskedFor
    /\ \A h \in Blocks : h \in Wanted(Here) ~> (h \in store \/ h \notin Wanted(Here))
=============================================================================
