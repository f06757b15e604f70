--------------------------- MODULE FutureMessages ---------------------------
(***************************************************************************)
(* FutureDbftMessages, the bounded cache of dBFT messages that arrive      *)
(* before the round they belong to, and the sync driver's use of it: a     *)
(* message of a later height or view, or any message while no round is     *)
(* active, is deferred; a round that begins, or changes view, takes back   *)
(* what is cached for its height.                                          *)
(***************************************************************************)
EXTENDS Naturals, FiniteSetsExt

CONSTANTS
    Heights,        \* block heights, a set of naturals
    CachedKinds,    \* replay buckets of a height, see CachedMessageKind
    Senders,        \* validators
    Sizes,          \* encoded sizes a message may have
    MaxHeights,     \* MAX_CACHED_HEIGHTS
    MaxBytes        \* MAX_CACHED_BYTES

ASSUME HeightsAssumption == Heights \subseteq Nat /\ Heights # {}
ASSUME SizesAssumption == Sizes \subseteq Nat /\ MaxBytes \in Nat
ASSUME MaxHeightsAssumption == MaxHeights \in Nat \ {0}

VARIABLES
    future,         \* the cached messages of all heights
    futureBytes,    \* the counter of their encoded sizes
    roundHeight,    \* height of the last round that began
    roundActive     \* a round is active

futureVars == <<future, futureBytes, roundHeight, roundActive>>

FutureMessage == [height : Heights, kind : CachedKinds, from : Senders, size : Sizes]

Size(ms) == MapThenSumSet(LAMBDA m : m.size, ms)
At(c, h) == {m \in c : m.height = h}
CachedHeights(c) == {m.height : m \in c}
SameSlot(m, x) == m.height = x.height /\ m.kind = x.kind /\ m.from = x.from

(* What make_room leaves of the cache, and whether the message then fits. *)
Room(c, fits) == [cache |-> c, fits |-> fits]

(* Its first loop: one height less when a new height would be too many.    *)
(* One turn is enough, as no more than MaxHeights are ever cached.         *)
FreeHeight(c, h) ==
    LET top == Max(CachedHeights(c))
    IN  IF Cardinality(CachedHeights(c)) < MaxHeights \/ h \in CachedHeights(c)
        THEN Room(c, TRUE)
        ELSE IF top < h THEN Room(c, FALSE) ELSE Room(c \ At(c, top), TRUE)

(* As FreeBytes, had the lowest height been evicted first. *)
RECURSIVE FreeBytesFromBelow(_, _)
FreeBytesFromBelow(c, m) ==
    LET low == Min(CachedHeights(c))
    IN  IF Size(c) + m.size <= MaxBytes \/ c = {} THEN Room(c, TRUE)
        ELSE FreeBytesFromBelow(c \ At(c, low), m)

(* Its second loop: the highest heights go until the message fits, or is   *)
(* itself at or above the highest.                                         *)
RECURSIVE FreeBytes(_, _)
FreeBytes(c, m) ==
    LET top == Max(CachedHeights(c))
    IN  CASE Size(c) + m.size <= MaxBytes \/ c = {} -> Room(c, TRUE)
          [] top < m.height  -> Room(c, FALSE)
          [] top = m.height  -> Room(c \ At(c, top), FALSE)
          [] OTHER           -> FreeBytes(c \ At(c, top), m)

MakeRoom(c, m) ==
    LET first == FreeHeight(c, m.height)
    IN  IF first.fits THEN FreeBytes(first.cache, m) ELSE first

(* The counter after messages were dropped from the cache. *)
ReleasedBytes(ms) == futureBytes - Size(ms)
-----------------------------------------------------------------------------
FutureInit ==
    /\ future = {} /\ futureBytes = 0
    /\ roundHeight = Min(Heights)
    /\ roundActive = FALSE

(* The driver defers what the active round cannot take yet, and everything *)
(* while there is none.                                                    *)
Deferred(m) == roundActive => m.height >= roundHeight

(* As InsertFuture, had a replaced message stayed on the counter. *)
InsertUncounted(m) ==
    LET room == MakeRoom(future, m)
        kept == {x \in room.cache : ~SameSlot(m, x)}
    IN  IF m.size <= MaxBytes /\ room.fits
        THEN /\ future' = kept \cup {m}
             /\ futureBytes' = ReleasedBytes(future \ room.cache) + m.size
        ELSE IF m.size <= MaxBytes
        THEN future' = room.cache /\ futureBytes' = ReleasedBytes(future \ room.cache)
        ELSE UNCHANGED <<future, futureBytes>>

(* FutureDbftMessages::insert. *)
InsertFuture(m) ==
    LET room == MakeRoom(future, m)
        kept == {x \in room.cache : ~SameSlot(m, x)}
    IN  IF m.size <= MaxBytes /\ room.fits
        THEN /\ future' = kept \cup {m}
             /\ futureBytes' = ReleasedBytes(future \ kept) + m.size
        ELSE IF m.size <= MaxBytes
        THEN future' = room.cache /\ futureBytes' = ReleasedBytes(future \ room.cache)
        ELSE UNCHANGED <<future, futureBytes>>

Defer(m) ==
    /\ Deferred(m)
    /\ InsertFuture(m)
    /\ UNCHANGED <<roundHeight, roundActive>>

(* take_height: the messages of the round's height go back to the round. *)
Take(c, h) ==
    /\ future' = c \ At(c, h)
    /\ futureBytes' = ReleasedBytes(future \ future')

(* replay_cached_dbft_messages for a round that begins; the head may stay, *)
(* and it may skip heights.                                                *)
BeginHeight(h) ==
    /\ h >= roundHeight
    /\ roundHeight' = h /\ roundActive' = TRUE
    /\ Take({m \in future : m.height >= h}, h)

(* drain_cached_dbft_messages after a view change.  What is still of a     *)
(* later view is deferred again, one message at a time.                    *)
ChangeView ==
    /\ roundActive
    /\ Take(future, roundHeight)
    /\ UNCHANGED <<roundHeight, roundActive>>

(* activate_dbft_round could not read the state of the new head. *)
LoseRound ==
    /\ roundActive
    /\ roundActive' = FALSE
    /\ UNCHANGED <<future, futureBytes, roundHeight>>

FutureNext ==
    \/ \E m \in FutureMessage : Defer(m)
    \/ \E h \in Heights : BeginHeight(h)
    \/ ChangeView
    \/ LoseRound

FutureSpec == FutureInit /\ [][FutureNext]_futureVars
-----------------------------------------------------------------------------
(* Type correctness, with the bounds the cache documents: at most          *)
(* MAX_CACHED_HEIGHTS heights and MAX_CACHED_BYTES bytes, and one message  *)
(* per height, bucket and validator.                                       *)
FutureTypeOK ==
    /\ future \subseteq FutureMessage
    /\ futureBytes \in 0 .. MaxBytes
    /\ roundHeight \in Heights /\ roundActive \in BOOLEAN
    /\ Cardinality(CachedHeights(future)) <= MaxHeights
    /\ \A m, x \in future : SameSlot(m, x) => m = x

(* The byte counter never drifts from what is cached, whatever is          *)
(* replaced, evicted, refused, taken or pruned: a drift would shrink the   *)
(* cache for good or underflow the counter.                                *)
BytesExact == futureBytes = Size(future)

(* While a round is active nothing of a passed height is cached, although  *)
(* messages of any height are deferred while there is no round.            *)
NothingPassed == roundActive => \A m \in future : m.height >= roundHeight

(* "Heights nearest the round are the ones this node is about to reach, so *)
(* pressure evicts from the top": deferring a message never drops one of a *)
(* lower height.                                                           *)
EvictsFromTop ==
    [][UNCHANGED <<roundHeight, roundActive>> =>
          \A x \in future \ future' :
             \A m \in FutureMessage : x.height < m.height => ~Defer(m)]_futureVars

(* "A message that is itself at or above the highest cached height is      *)
(* refused instead, rather than admitted by evicting something more        *)
(* useful": refusing it leaves the other cached messages alone.            *)
RefusedAtTop ==
    [][\A m \in FutureMessage :
          /\ Defer(m) /\ m \notin future'
          /\ \A x \in future : x.height <= m.height
          => future \subseteq future']_futureVars
=============================================================================
