--------------------------- MODULE CanonicalStatus ---------------------------
(***************************************************************************)
(* How a node learns the head and the total difficulty it advertises.      *)
(* Every call to the provider is a step of its own, and the canonical      *)
(* chain moves between two calls; the difficulty is carried over restarts  *)
(* by a checkpoint file.  A block is named by the variants of its chain,   *)
(* as its hash commits to its ancestors; a replaced block does not return. *)
(***************************************************************************)
EXTENDS Integers, Sequences

CONSTANTS
    MaxHead,        \* highest block number
    Branches,       \* 0 .. n: variants of a block, which differ in difficulty
    Batch,          \* CANONICAL_HEADER_BATCH_SIZE, 4096 in the code
    Attempts,       \* CANONICAL_SNAPSHOT_ATTEMPTS, 4 in the code
    Interval,       \* TD_CHECKPOINT_INTERVAL_BLOCKS, 1024 in the code
    MaxCrashes,
    Nothing

VARIABLES
    chain,          \* the provider's canonical chain
    advertised,     \* beacon.status(), once the node is up
    file,           \* the checkpoint on disk
    recorded,       \* TdCheckpointWriter::last
    resolver,       \* the call of authoritative_canonical_status under way
    crashes

statusVars == <<chain, advertised, file, recorded, resolver, crashes>>

ChainHeads == UNION {[1 .. n -> Branches] : n \in 0 .. MaxHead}
Difficulty(head) == IF head = <<>> THEN 1 ELSE 1 + head[Len(head)]
Ancestor(head, n) == SubSeq(head, 1, n)

(* The sum of the difficulties from genesis to head. *)
TotalDifficulty[head \in ChainHeads] ==
    Difficulty(head) +
    IF head = <<>> THEN 0 ELSE TotalDifficulty[Ancestor(head, Len(head) - 1)]

Checkpoint(head, td) == [head |-> head, td |-> td]
Canonical(head) == Len(head) <= Len(chain) /\ Ancestor(chain, Len(head)) = head

NoCheck == [step |-> "idle", seed |-> Nothing, tries |-> 0, head |-> <<>>, at |-> <<>>, td |-> 0, next |-> 0]
Resolving(seed) == [NoCheck EXCEPT !.step = "head", !.seed = seed]

StatusInit ==
    /\ chain \in ChainHeads /\ advertised = Nothing /\ file = Nothing /\ recorded = Nothing
    /\ resolver = NoCheck /\ crashes = 0

-----------------------------------------------------------------------------
(* The chain grows, or its last blocks are replaced. *)
ChainMoves ==
    /\ chain' \in {c \in ChainHeads :
          \/ \E v \in Branches : c = Append(chain, v)
          \/ \E n \in 1 .. Len(chain), v \in Branches :
                v > chain[n] /\ c = Append(Ancestor(chain, n - 1), v)}
    /\ UNCHANGED <<advertised, file, recorded, resolver, crashes>>

(* build_network: a checkpoint whose block is canonical is trusted. *)
StartNode ==
    /\ advertised = Nothing /\ resolver = NoCheck
    /\ resolver' = Resolving(IF file # Nothing /\ Canonical(file.head) THEN file ELSE Nothing)
    /\ UNCHANGED <<chain, advertised, file, recorded, crashes>>

(* As ReconcileStatus, comparing numbers. *)
ReconcileByNumber ==
    /\ advertised # Nothing /\ resolver = NoCheck /\ Len(advertised.head) # Len(chain)
    /\ resolver' = Resolving(advertised)
    /\ UNCHANGED <<chain, advertised, file, recorded, crashes>>

(* The tick, or a notification, of a running node. *)
ReconcileStatus ==
    /\ advertised # Nothing /\ resolver = NoCheck /\ advertised.head # chain
    /\ resolver' = Resolving(advertised)
    /\ UNCHANGED <<chain, advertised, file, recorded, crashes>>

(* authoritative_canonical_status, one provider call at a time. *)
Step(from, to) ==
    /\ resolver.step = from /\ resolver' = to
    /\ UNCHANGED <<chain, advertised, file, recorded, crashes>>

ReadHead ==
    Step("head",
         IF resolver.seed = Nothing
         THEN [resolver EXCEPT !.step = "sum", !.head = chain, !.td = 0, !.next = 0]
         ELSE [resolver EXCEPT !.step = "walk", !.head = chain,
                               !.at = resolver.seed.head, !.td = resolver.seed.td])

(* canonical_total_difficulty: back along the old branch to a block that   *)
(* is canonical, or from genesis when the branch is no longer retained.    *)
Rejoined == Len(resolver.at) <= Len(resolver.head) /\ Canonical(resolver.at)

WalkBack(retained) ==
    Step("walk",
         IF Rejoined
         THEN [resolver EXCEPT !.step = IF Len(resolver.at) = Len(resolver.head) THEN "confirm" ELSE "sum",
                               !.next = Len(resolver.at) + 1]
         ELSE IF retained /\ resolver.at # <<>>
         THEN [resolver EXCEPT !.at = Ancestor(@, Len(@) - 1), !.td = @ - Difficulty(resolver.at)]
         ELSE [resolver EXCEPT !.step = "sum", !.td = 0, !.next = 0])

(* add_canonical_difficulty: a batch of headers of whatever is canonical.  *)
BatchSum(from, to) ==
    LET upTo(n) == IF n < 0 THEN 0 ELSE TotalDifficulty[Ancestor(chain, n)]
    IN  upTo(to) - upTo(from - 1)

SumBatch ==
    LET from == resolver.next
        last == Len(resolver.head)
        to == IF from + Batch - 1 < last THEN from + Batch - 1 ELSE last
    IN  Step("sum",
             IF to > Len(chain) THEN NoCheck
             ELSE [resolver EXCEPT !.step = IF to = last THEN "confirm" ELSE "sum",
                                   !.td = @ + BatchSum(from, to), !.next = to + 1])

(* The head may have moved; what was summed is kept if it is canonical.    *)
HeadMoved ==
    /\ resolver.head # chain
    /\ Step("confirm", [resolver EXCEPT !.step = "recheck"])

(* As Recheck, had the candidate been kept as a checkpoint in any case. *)
RecheckTrusting ==
    Step("recheck",
         IF resolver.tries + 1 = Attempts THEN NoCheck
         ELSE [Resolving(Checkpoint(resolver.head, resolver.td)) EXCEPT !.tries = resolver.tries + 1])

Recheck ==
    Step("recheck",
         IF resolver.tries + 1 = Attempts THEN NoCheck
         ELSE [Resolving(IF Canonical(resolver.head) THEN Checkpoint(resolver.head, resolver.td) ELSE Nothing)
                  EXCEPT !.tries = resolver.tries + 1])

(* TdCheckpointWriter::record; a failed write is only logged.  At startup  *)
(* the file is written always and then read by the writer.                 *)
RecordDue(number) ==
    \/ recorded = Nothing
    \/ number < Len(recorded.head)
    \/ number >= Len(recorded.head) + Interval

Confirm(written) ==
    LET status == Checkpoint(resolver.head, resolver.td)
        due == advertised = Nothing \/ RecordDue(Len(resolver.head))
    IN  /\ resolver.step = "confirm" /\ resolver.head = chain
        /\ written \in {FALSE, due}
        /\ advertised' = status
        /\ file' = IF written THEN status ELSE file
        /\ recorded' = IF advertised = Nothing THEN file' ELSE IF due THEN status ELSE recorded
        /\ resolver' = NoCheck
        /\ UNCHANGED <<chain, crashes>>

(* The node stops; a file renamed but not synced may be lost with the      *)
(* power.                                                                  *)
Crash ==
    /\ crashes < MaxCrashes /\ crashes' = crashes + 1
    /\ advertised' = Nothing /\ recorded' = Nothing /\ resolver' = NoCheck
    /\ file' \in {file, Nothing}
    /\ UNCHANGED chain

StatusNext ==
    \/ ChainMoves \/ StartNode \/ ReconcileStatus
    \/ ReadHead \/ SumBatch \/ HeadMoved \/ Recheck
    \/ \E b \in BOOLEAN : WalkBack(b) \/ Confirm(b)
    \/ Crash

StatusFairness ==
    /\ WF_statusVars(StartNode) /\ WF_statusVars(ReconcileStatus)
    /\ WF_statusVars(\/ ReadHead \/ SumBatch \/ HeadMoved \/ Recheck
                     \/ \E b \in BOOLEAN : WalkBack(b) \/ Confirm(b))

StatusSpec == StatusInit /\ [][StatusNext]_statusVars /\ StatusFairness

-----------------------------------------------------------------------------
(* Type correctness; authoritative_canonical_status ends after its         *)
(* attempts.                                                               *)
StatusTypeOK ==
    /\ chain \in ChainHeads /\ crashes \in 0 .. MaxCrashes
    /\ \A c \in {advertised, file, recorded, resolver.seed} : c = Nothing \/ c.head \in ChainHeads
    /\ resolver.tries \in 0 .. Attempts - 1 /\ resolver.next \in 0 .. MaxHead + 1
    /\ resolver.step \in {"idle", "head", "walk", "sum", "confirm", "recheck"}

(* "A reorg or a torn file therefore costs time, never correctness": the   *)
(* difficulty a node advertises, keeps in its checkpoint or takes over     *)
(* between attempts is the exact sum for its head, however the chain moved *)
(* between the reads it was made of.                                       *)
DifficultyExact ==
    \A c \in {advertised, file, recorded, resolver.seed} :
        c # Nothing => c.td = TotalDifficulty[c.head]

(* A node whose chain comes to rest advertises its head in the end, though *)
(* the chain may have moved under each of the bounded attempts before.     *)
AdvertisesHead ==
    <>[][UNCHANGED <<chain, crashes>>]_statusVars =>
        <>[](advertised # Nothing /\ advertised.head = chain)

=============================================================================
