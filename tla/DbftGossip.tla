----------------------------- MODULE DbftGossip -----------------------------
(***************************************************************************)
(* The dbft/0 service of one node: the admission rule the sync driver      *)
(* sets, the cache of verified messages, the event channel to the driver   *)
(* and the streams of the peers.  Streams are polled by tasks of their     *)
(* own, so admission changes and other streams' steps fall between the     *)
(* checks of a message, the reservation of its event, its caching and      *)
(* delivery.                                                               *)
(***************************************************************************)
EXTENDS Naturals, Sequences, FiniteSets, SequencesExt

CONSTANTS
    WireMessages,   \* signed messages: [no, sender, index, height, bytes]
    Committees,     \* validator sets, sorted
    MaxHeight,
    Streams,        \* sessions with peers, each established once
    PeerOf,         \* the peer of a stream
    DataSlots,      \* DBFT_EVENT_QUEUE_CAPACITY, 64 in the code
    ControlSlots,   \* DBFT_CONTROL_EVENT_QUEUE_CAPACITY, 384
    Lifecycle,      \* DBFT_CONTROL_EVENTS_PER_CONNECTION, 3
    CacheSize, CacheBytes, SenderSize,  \* 256, 64 MiB, 20
    Absent

VARIABLES
    admission,      \* height, and validators when active
    cache,          \* DbftMessageCache::order
    retained,       \* DbftMessageCache::retained_bytes
    events,         \* the channel to the driver
    streams,        \* state of each stream: phase, message in hand, permits left
    routes,         \* the peers map: the stream commands for a peer go to
    delivered       \* messages the driver got or the node published

gossipVars == <<admission, cache, retained, events, streams, routes, delivered>>

Peers == {PeerOf[c] : c \in Streams}

GossipInit ==
    /\ admission = [height |-> 0, validators |-> Absent]
    /\ cache = <<>> /\ retained = 0 /\ events = <<>>
    /\ streams = [c \in Streams |-> [phase |-> "new", message |-> Absent, permits |-> 0]]
    /\ routes = [p \in Peers |-> Absent]
    /\ delivered = {}

-----------------------------------------------------------------------------
(* The cache.  The per-sender queues hold the sender's hashes in the order *)
(* of the whole.                                                           *)
Sized(s) == FoldSeq(LAMBDA m, n : m.bytes + n, 0, s)
BySender(s, a) == SelectSeq(s, LAMBDA m : m.sender = a)
Without(s, m) == SelectSeq(s, LAMBDA k : k # m)

Removed(c, m) == [order |-> Without(c.order, m), bytes |-> c.bytes - m.bytes]

RECURSIVE Evict(_, _)
Evict(c, m) ==
    IF c.order # <<>> /\ (Len(c.order) >= CacheSize \/ c.bytes + m.bytes > CacheBytes)
    THEN Evict(Removed(c, Head(c.order)), m)
    ELSE c

(* As Insert, had the sender's oldest message only been replaced when the  *)
(* whole cache was full.                                                   *)
InsertUnfair(c, m) ==
    LET room == Evict(c, m)
    IN  [order |-> Append(room.order, m), bytes |-> room.bytes + m.bytes]

Insert(c, m) ==
    LET own == BySender(c.order, m.sender)
        fair == IF Len(own) >= SenderSize THEN Removed(c, Head(own)) ELSE c
        room == Evict(fair, m)
    IN  [order |-> Append(room.order, m), bytes |-> room.bytes + m.bytes]

(* DbftMessageCache::retain of purge_cached_messages. *)
NextHeight(height, m) == m.height = height + 1
Names(validators, m) == m.index <= Len(validators) /\ validators[m.index] = m.sender

Purge(height, validators) ==
    LET keep(m) == NextHeight(height, m) /\ (validators = Absent \/ Names(validators, m))
        kept == SelectSeq(cache, keep)
    IN  cache' = kept /\ retained' = retained - Sized(cache) + Sized(kept)

-----------------------------------------------------------------------------
(* The driver's side. *)
UpdateHeight(height) ==
    /\ admission' = [admission EXCEPT !.height = height]
    /\ Purge(height, admission.validators)
    /\ UNCHANGED <<events, streams, routes, delivered>>

ActivateSet(height, validators) ==
    /\ admission' = [height |-> height, validators |-> validators]
    /\ Purge(height, validators)
    /\ UNCHANGED <<events, streams, routes, delivered>>

Deactivate ==
    /\ admission' = [admission EXCEPT !.validators = Absent]
    /\ cache' = <<>> /\ retained' = 0
    /\ UNCHANGED <<events, streams, routes, delivered>>

(* Heights only rise, but for a reorganisation of the last block. *)
Admit ==
    \E height \in (admission.height - (IF admission.height = 0 THEN 0 ELSE 1)) .. MaxHeight :
        \/ UpdateHeight(height)
        \/ \E validators \in Committees : ActivateSet(height, validators)

Known(m) == m \in ToSet(cache)

(* The checks of cache_message: height and validator. *)
Admissible(m) ==
    /\ admission.validators # Absent
    /\ Names(admission.validators, m) /\ NextHeight(admission.height, m)

Publish(m) ==
    /\ Admissible(m) /\ ~Known(m)
    /\ LET c == Insert([order |-> cache, bytes |-> retained], m)
       IN  cache' = c.order /\ retained' = c.bytes
    /\ delivered' = delivered \cup {m}
    /\ UNCHANGED <<admission, events, streams, routes>>

TakeEvent ==
    /\ events # <<>>
    /\ events' = Tail(events)
    /\ UNCHANGED <<admission, cache, retained, streams, routes, delivered>>

-----------------------------------------------------------------------------
(* The channel: what is queued and what is reserved for later. *)
Data == Len(SelectSeq(events, LAMBDA e : e.kind = "message"))
Reserved == Cardinality({c \in Streams : streams[c].phase \in {"reserved", "cached", "known"}})
Permits == FoldSet(LAMBDA c, n : streams[c].permits + n, 0, Streams)
Used == Len(events) + Reserved + Permits

Alive(c) == streams[c].phase \notin {"new", "refused", "dropped"}
Control(kind, c) == [kind |-> kind, peer |-> PeerOf[c]]

(* into_connection: all lifecycle events are reserved, or the stream       *)
(* closes.                                                                 *)
Establish(c) ==
    /\ streams[c].phase = "new"
    /\ IF Used + Lifecycle <= DataSlots + ControlSlots
       THEN /\ streams' = [streams EXCEPT ![c].phase = "idle", ![c].permits = Lifecycle - 1]
            /\ routes' = [routes EXCEPT ![PeerOf[c]] = c]
            /\ events' = Append(events, Control("established", c))
       ELSE /\ streams' = [streams EXCEPT ![c].phase = "refused"]
            /\ UNCHANGED <<routes, events>>
    /\ UNCHANGED <<admission, cache, retained, delivered>>

(* As CloseWith, had the stream gone on after a violation. *)
CloseWithOpen(c) ==
    /\ streams' = [streams EXCEPT ![c].phase = "idle", ![c].message = Absent, ![c].permits = @ - 1]
    /\ events' = Append(events, Control("violation", c))
    /\ UNCHANGED <<admission, cache, retained, routes, delivered>>

CloseWith(c) ==
    /\ streams' = [streams EXCEPT ![c].phase = "closed", ![c].message = Absent, ![c].permits = @ - 1]
    /\ events' = Append(events, Control("violation", c))
    /\ UNCHANGED <<admission, cache, retained, routes, delivered>>

(* As Dropped, had a message been handled across an await. *)
DroppedMidway(c) ==
    /\ streams[c].phase \in {"idle", "closed", "cached"}
    /\ streams' = [streams EXCEPT ![c].phase = "dropped", ![c].permits = 0]
    /\ routes' = [routes EXCEPT ![PeerOf[c]] = Absent]
    /\ events' = Append(events, Control("disconnected", c))
    /\ UNCHANGED <<admission, cache, retained, delivered>>

(* The session ends at any time a message is not being handled. *)
Dropped(c) ==
    /\ streams[c].phase \in {"idle", "closed"}
    /\ streams' = [streams EXCEPT ![c].phase = "dropped", ![c].permits = 0]
    /\ routes' = [routes EXCEPT ![PeerOf[c]] = Absent]
    /\ events' = Append(events, Control("disconnected", c))
    /\ UNCHANGED <<admission, cache, retained, delivered>>

Moves(c, phase, m) ==
    /\ streams' = [streams EXCEPT ![c].phase = phase, ![c].message = m]
    /\ UNCHANGED <<admission, cache, retained, events, routes, delivered>>

(* handle_inbound_message up to its reservation: messages of the height    *)
(* just finalized, of an inactive node or beyond the round are ignored, a  *)
(* stale or foreign one is a violation.                                    *)
Inbound(c, m) ==
    /\ streams[c].phase = "idle"
    /\ \/ /\ Admissible(m)
          /\ Moves(c, "checked", m)
       \/ /\ m.height < admission.height
          /\ CloseWith(c)
       \/ /\ m.height > admission.height /\ admission.validators # Absent
          /\ m.sender \notin ToSet(admission.validators)
          /\ CloseWith(c)

Reserve(c) ==
    /\ streams[c].phase = "checked"
    /\ IF Data + Reserved < DataSlots /\ Used < DataSlots + ControlSlots
       THEN Moves(c, "reserved", streams[c].message)
       ELSE CloseWith(c)

(* cache_message rechecks under the admission lock. *)
CacheMessage(c) ==
    LET m == streams[c].message
        grown == Insert([order |-> cache, bytes |-> retained], m)
    IN  /\ streams[c].phase = "reserved"
        /\ IF ~Admissible(m) THEN Moves(c, "idle", Absent)
           ELSE IF Known(m) THEN Moves(c, "known", m)
           ELSE /\ cache' = grown.order /\ retained' = grown.bytes
                /\ streams' = [streams EXCEPT ![c].phase = "cached"]
                /\ UNCHANGED <<admission, events, routes, delivered>>

Deliver(c) ==
    /\ streams[c].phase \in {"cached", "known"}
    /\ events' = Append(events, [kind |-> "message", peer |-> PeerOf[c]])
    /\ delivered' = delivered \cup {streams[c].message}
    /\ streams' = [streams EXCEPT ![c].phase = "idle", ![c].message = Absent]
    /\ UNCHANGED <<admission, cache, retained, routes>>

GossipNext ==
    \/ Admit \/ Deactivate \/ TakeEvent
    \/ \E m \in WireMessages : Publish(m)
    \/ \E c \in Streams :
          \/ Establish(c) \/ Dropped(c) \/ Reserve(c) \/ CacheMessage(c) \/ Deliver(c)
          \/ \E m \in WireMessages : Inbound(c, m)

GossipSpec == GossipInit /\ [][GossipNext]_gossipVars

-----------------------------------------------------------------------------
(* Type correctness; a peer's route leads to one of its own streams. *)
GossipTypeOK ==
    /\ admission.height \in 0 .. MaxHeight
    /\ admission.validators \in Committees \cup {Absent}
    /\ ToSet(cache) \subseteq WireMessages /\ retained \in Nat /\ delivered \subseteq WireMessages
    /\ \A p \in Peers : routes[p] \in {c \in Streams : PeerOf[c] = p} \cup {Absent}
    /\ \A c \in Streams :
          /\ streams[c].phase \in {"new", "refused", "idle", "checked", "reserved",
                                   "cached", "known", "closed", "dropped"}
          /\ streams[c].message \in WireMessages \cup {Absent}

(* The cache stays within its bounds, one sender within its share of it,   *)
(* and the bytes counted are those of the messages held.                   *)
CacheBounded ==
    /\ Len(cache) <= CacheSize /\ retained <= CacheBytes /\ retained = Sized(cache)
    /\ \A m \in ToSet(cache) : Len(BySender(cache, m.sender)) <= SenderSize

(* "A full queue must not turn a valid message into a cache hit that was   *)
(* never delivered": a cached message was delivered, or the stream that    *)
(* cached it has its event reserved.  "A removed validator cannot race     *)
(* rotation and reinsert a message after the purge": whatever was checked  *)
(* before an admission change, it is a message of the next height from its *)
(* validator.                                                              *)
CachedIsDelivered ==
    \A m \in ToSet(cache) :
        /\ Admissible(m)
        /\ m \in delivered \/ \E c \in Streams : streams[c].phase = "cached" /\ streams[c].message = m

(* The channel has room for every event that was reserved, and data events *)
(* never take the room of lifecycle events.                                *)
ChannelFits ==
    Used <= DataSlots + ControlSlots /\ Data + Reserved <= DataSlots

(* "pops a reserved permit and expects one to be present": a stream that   *)
(* may still be dropped has the permit of its Disconnected event, and one  *)
(* that may still be closed by a violation has two.                        *)
PermitsLast ==
    \A c \in Streams : Alive(c) =>
        streams[c].permits >= (IF streams[c].phase = "closed" THEN 1 ELSE 2)

=============================================================================
