---------------------------- MODULE ChainImports ----------------------------
(***************************************************************************)
(* Who moves the canonical head: the importer of propagated blocks, the    *)
(* tasks that import what this validator's rounds committed, and the       *)
(* backfill targets, all of them through the Engine's tree, which answers  *)
(* one message at a time.  What is checked against the advertised head is  *)
(* applied some messages later.                                            *)
(*                                                                         *)
(* One block is agreed on per height; copies of it differ in their seals   *)
(* and so in their hashes.  A block is the sequence of the seals from the  *)
(* first height on, and its parent is its front.  Every block is valid;    *)
(* the pipeline for long gaps, and the pruning of old blocks, are left out *)
(***************************************************************************)
EXTENDS Naturals, Sequences, SequencesExt

CONSTANTS
    Seals,              \* the seals a block may carry: one when they are threshold signatures
    TopHeight,          \* bound: heights of the chain
    JobLimit,           \* PROPAGATED_BLOCK_QUEUE_CAPACITY
    BackwardLimit,      \* MAX_PROPAGATED_BLOCK_BACKWARD_DISTANCE
    NewsLimit,          \* bound: blocks propagated, announced or committed
    NoBlock

ASSUME ChainAssumption == TopHeight \in Nat /\ NoBlock \notin UNION {[1 .. n -> Seals] : n \in 0 .. TopHeight}

VARIABLES
    tree, buffer,       \* Engine: executed blocks, and blocks without their parent
    head, final,        \* Engine: canonical head and finalized block
    target, wanted,     \* Engine: the head to sync to, and the blocks being downloaded
    status, decided,    \* the advertised head, and whether its round has committed
    jobs,               \* propagated blocks in the importer's queue
    claims, submitted,  \* announced targets, and the one sent to the Engine
    imports,            \* imports under way: of the importer and of commits
    news                \* how many blocks came up

engineVars == <<tree, buffer, head, final, target, wanted>>
driverVars == <<status, decided, jobs, claims, submitted, imports, news>>
chainVars == <<engineVars, driverVars>>

Chains == UNION {[1 .. n -> Seals] : n \in 0 .. TopHeight}
Sealed == Chains \ {<<>>}

ChainInit ==
    /\ tree = {<<>>} /\ buffer = {} /\ head = <<>> /\ final = <<>>
    /\ target = NoBlock /\ wanted = {}
    /\ status = <<>> /\ decided = FALSE /\ jobs = <<>> /\ claims = {} /\ submitted = NoBlock /\ imports = {} /\ news = 0

-----------------------------------------------------------------------------
(* The Engine's tree *)

(* The lowest ancestor of b, or b, that the buffer does not have. *)
Missing(b) ==
    CHOOSE p \in Prefixes(b) \ buffer : \A q \in Prefixes(b) \ buffer : Len(q) <= Len(p)

(* Buffered blocks that a new block b connects. *)
Waiting(b) ==
    {c \in buffer : IsStrictPrefix(b, c) /\ \A p \in Prefixes(c) : IsStrictPrefix(b, p) => p \in buffer}

Linked(b) == b \in tree \/ Front(b) \in tree

(* make_canonical, on_canonicalized_sync_target: a target has no finalized hash. *)
MakeCanonical(b) == head' = b /\ target' = NoBlock

(* insert_block_or_payload of a linked block, with try_connect_buffered_blocks. *)
InsertLinked(b) ==
    LET added == IF b \in tree THEN {b} ELSE {b} \cup Waiting(b)
    IN  /\ tree' = tree \cup added /\ buffer' = buffer \ added
        /\ IF target \in added /\ head # target THEN MakeCanonical(target) ELSE UNCHANGED <<head, target>>

(* on_new_payload *)
NewPayload(b) ==
    /\ IF Linked(b) THEN InsertLinked(b)
       ELSE buffer' = buffer \cup {b} /\ UNCHANGED <<tree, head, target>>
    /\ UNCHANGED <<final, wanted>>

(* on_downloaded_block *)
Downloaded(b) ==
    /\ b \in wanted
    /\ CASE b \in tree -> wanted' = wanted \ {b} /\ UNCHANGED <<tree, buffer, head, target>>
         [] b \notin tree /\ Front(b) \in tree /\ target = b ->
                /\ wanted' = wanted \ {b} /\ tree' = tree \cup {b} /\ MakeCanonical(b)
                /\ UNCHANGED buffer
         [] b \notin tree /\ Front(b) \in tree /\ target # b ->
                wanted' = wanted \ {b} /\ InsertLinked(b)
         [] OTHER ->
                /\ wanted' = (wanted \ {b}) \cup {Missing(Front(b))}
                /\ buffer' = buffer \cup {b}
                /\ UNCHANGED <<tree, head, target>>
    /\ UNCHANGED <<final, driverVars>>

Finalized(b, same) == final' = IF same THEN b ELSE final

(* As OnCanonical, had an ancestor become the head again. *)
OnCanonicalUnwound(b, same) ==
    /\ IsPrefix(b, head)
    /\ head' = b /\ target' = NoBlock /\ Finalized(b, same)
    /\ UNCHANGED <<tree, buffer, wanted>>

(* handle_canonical_head and, for an ancestor of the head,                 *)
(* apply_chain_update: nothing moves, and below the finalized block the    *)
(* update is refused.                                                      *)
OnCanonical(b, same) ==
    /\ IsPrefix(b, head)
    /\ IF b # head /\ Len(b) < Len(final) THEN UNCHANGED <<target, final>>
       ELSE target' = NoBlock /\ IF b = head THEN Finalized(b, same) ELSE UNCHANGED final
    /\ UNCHANGED <<tree, buffer, head, wanted>>

(* apply_chain_update, on_new_head: an extension or a reorganisation. *)
OnNewHead(b, same) ==
    /\ ~IsPrefix(b, head) /\ b \in tree
    /\ head' = b /\ target' = NoBlock /\ Finalized(b, same)
    /\ UNCHANGED <<tree, buffer, wanted>>

(* handle_missing_block *)
OnMissing(b) ==
    /\ b \notin tree
    /\ target' = b /\ wanted' = wanted \cup {Missing(b)}
    /\ UNCHANGED <<tree, buffer, head, final>>

(* on_forkchoice_updated, with b as finalized block too or with none. *)
ForkChoice(b, same) == OnCanonical(b, same) \/ OnNewHead(b, same) \/ OnMissing(b)

-----------------------------------------------------------------------------
(* The driver *)

DirectChild(b) == Len(b) = Len(status) + 1 /\ Front(b) = status
Gap(b) == Len(b) > Len(status) /\ ~DirectChild(b)

Comes == news < NewsLimit /\ news' = news + 1

(* DescendantSyncTargets::observe, without its order and budget. *)
Observe(b) == claims' = claims \cup {c \in {b} : Len(c) > Len(status)}

(* NewBlockHashes, or the status of a peer. *)
Announced(b) ==
    /\ Comes /\ Len(b) > Len(status) /\ Observe(b)
    /\ UNCHANGED <<engineVars, status, decided, jobs, submitted, imports>>

(* NewBlock *)
Propagated(b) ==
    /\ Comes /\ Len(b) + BackwardLimit >= Len(status)
    /\ IF ~Gap(b) /\ Len(jobs) < JobLimit THEN jobs' = Append(jobs, b) /\ UNCHANGED claims
       ELSE Observe(b) /\ UNCHANGED jobs
    /\ UNCHANGED <<engineVars, status, decided, submitted, imports>>

RequestTarget(b) ==
    /\ submitted = NoBlock /\ b \in claims
    /\ submitted' = b /\ claims' = claims \ {b}
    /\ UNCHANGED <<engineVars, status, decided, jobs, imports, news>>

(* request_sync_target *)
SubmitTarget ==
    /\ submitted # NoBlock /\ ForkChoice(submitted, FALSE)
    /\ submitted' = NoBlock
    /\ UNCHANGED <<status, decided, jobs, claims, imports, news>>

(* The advertised head follows the canonical one (CanonicalStatus). *)
Advertise ==
    /\ status' = head /\ decided' = (decided /\ status = head)
    /\ claims' = {c \in claims : Len(c) > Len(head)}
    /\ UNCHANGED <<engineVars, jobs, submitted, imports, news>>

Import(k, b, s) == [kind |-> k, block |-> b, step |-> s]
Of(k) == {t \in imports : t.kind = k}

(* The importer takes its next job and looks at the advertised head: a     *)
(* block that is no direct child of it any more is dropped.                *)
TakeJob ==
    /\ Of("propagated") = {} /\ jobs # <<>>
    /\ jobs' = Tail(jobs)
    /\ imports' = imports \cup {Import("propagated", b, "payload") : b \in {c \in {Head(jobs)} : DirectChild(c)}}
    /\ UNCHANGED <<engineVars, status, decided, claims, submitted, news>>

(* schedule_committed_proposal: the round on the advertised head committed *)
(* b, on this head or on another copy of it.                               *)
Commit(b) ==
    /\ Comes /\ ~decided /\ decided' = TRUE
    /\ Len(b) = Len(status) + 1
    /\ Front(b) # status => Front(Front(b)) = Front(status)
    /\ imports' = imports \cup {Import("committed", b, IF Front(b) = status THEN "payload" ELSE "parent")}
    /\ UNCHANGED <<engineVars, status, jobs, claims, submitted>>

Becomes(t, u) == imports' = (imports \ {t}) \cup u

(* import_propagated_block and import_committed_block, one answer of the   *)
(* Engine at a time; a block without ancestry becomes a backfill target.   *)
ImportParent(t) ==
    /\ t.step = "parent" /\ NewPayload(Front(t.block))
    /\ Becomes(t, {IF Linked(Front(t.block)) THEN [t EXCEPT !.step = "payload"]
                   ELSE Import(t.kind, Front(t.block), "target")})

ImportPayload(t) ==
    /\ t.step = "payload" /\ NewPayload(t.block)
    /\ Becomes(t, {[t EXCEPT !.step = IF Linked(t.block) THEN "choice" ELSE "target"]})

ImportTarget(t) == t.step = "target" /\ ForkChoice(t.block, FALSE) /\ Becomes(t, {})

ImportChoice(t) == t.step = "choice" /\ ForkChoice(t.block, TRUE) /\ Becomes(t, {})

(* The Engine answers with an error. *)
ImportFails(t) == Becomes(t, {}) /\ UNCHANGED engineVars

ImportStep(t) ==
    /\ ImportParent(t) \/ ImportPayload(t) \/ ImportTarget(t) \/ ImportChoice(t) \/ ImportFails(t)
    /\ UNCHANGED <<status, decided, jobs, claims, submitted, news>>

ChainNext ==
    \/ \E b \in Sealed :
        Downloaded(b) \/ Announced(b) \/ Propagated(b) \/ RequestTarget(b) \/ Commit(b)
    \/ SubmitTarget \/ Advertise \/ TakeJob
    \/ \E t \in imports : ImportStep(t)

ChainSpec == ChainInit /\ [][ChainNext]_chainVars

-----------------------------------------------------------------------------
(* The shape of the state; the tree has the ancestors of its blocks.       *)
ChainTypeOK ==
    /\ tree \subseteq Chains /\ \A b \in tree : Prefixes(b) \subseteq tree
    /\ {head, final} \subseteq tree
    /\ buffer \subseteq Sealed /\ target \in Sealed \cup {NoBlock} /\ wanted \subseteq Sealed

(* While the Engine has seen one copy of each block, as where seals are    *)
(* unique, the canonical head only moves to a higher block, although       *)
(* blocks and targets are checked against an advertised head that other    *)
(* imports may have left behind by the time they apply.                    *)
HeadOnlyRises ==
    [][head' # head /\ (\A b, c \in tree' : Len(b) = Len(c) => b = c) => Len(head') > Len(head)]_chainVars

(* What propagated_block_disposition says of propagated blocks, whatever   *)
(* their seals: "A block at or below the head height never displaces it".  *)
CompetingNeverDisplaces ==
    [][\A t \in Of("propagated") \ imports' : head' # head => Len(head') > Len(head)]_chainVars
=============================================================================
