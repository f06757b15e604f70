------------------------------- MODULE DkgTasks -------------------------------
(***************************************************************************)
(* One DKG epoch of one validator's runtime: heartbeats at the canonical   *)
(* head plan the contract calls whose checkpoint is reached, prove them    *)
(* one at a time, submit them to the pool and watch their receipts until   *)
(* they are confirmed or their window closes.  A heartbeat decides on its  *)
(* actions in one go and carries them out one by one; blocks, reorgs and   *)
(* the prover go on meanwhile.                                             *)
(*                                                                         *)
(* The validator is member 1 of the current and of the pending set.  The   *)
(* contract is known from how the runtime reads it: a call counts once, in *)
(* its window.  The settled keys are the matter of DkgSettled.             *)
(***************************************************************************)
EXTENDS Naturals, Sequences, FiniteSets, SequencesExt

CONSTANTS
    ShareStart, RecoverStart, RecoverCheck, Target, \* checkpoints of the epoch
    MaxHeight, MaxFaults,
    RecoveryLimit,      \* participants less threshold, 2 in the code
    ConfirmDelay,       \* blocks before a receipt is looked up, 3 in the code
    Inputs,             \* values of the pending set and its message keys
    Unset

VARIABLES
    chain,              \* canonical blocks: calls mined so far, member 2's reshare, inputs
    pool,               \* our transactions in the pool
    foreign,            \* those of them this machine never owned
    reorged,            \* a reorg notification waits
    machine,            \* DkgRuntimeMachine
    beat,               \* the heartbeat under way
    faults

dkgVars == <<chain, pool, foreign, reorged, machine, beat, faults>>

Methods == {"reshare", "share", "recover", "reshareRecovered"}

Height(c) == Len(c) - 1
Top(c) == c[Len(c)]

StartHeight(id) == CASE id \in {"reshare", "share"} -> ShareStart
                     [] id = "recover" -> RecoverStart
                     [] id = "reshareRecovered" -> RecoverCheck
EndHeight(id) == CASE id \in {"reshare", "share"} -> RecoverStart
                   [] id = "recover" -> RecoverCheck
                   [] id = "reshareRecovered" -> Target

(* What KeyManagement accepted: each call once, in its window. *)
Done(b) == {m.tx.id : m \in {n \in ToSet(b.mined) : n.ok}}
Nonce(b) == Len(b.mined)

(* indexCurrentNeedRecovering: members without a reshare. *)
Missing(b) == (IF Done(b) \cap {"reshare", "reshareRecovered"} = {} THEN {1} ELSE {})
              \cup (IF b.other THEN {} ELSE {2})
ShareReady(b) == "share" \in Done(b)

Recoverable(b) == ShareReady(b) /\ Cardinality(Missing(b)) \in 1 .. RecoveryLimit

-----------------------------------------------------------------------------
NoPlans == [share |-> FALSE, recover |-> FALSE, recovered |-> FALSE, recovering |-> FALSE, indices |-> {}]

(* exec: DkgTaskExecutor's tasks in order; res: nonce reservations; preps: *)
(* prover jobs; owned: submitted transactions; releases: tasks whose       *)
(* reservation goes after the fence; canon: our tasks found in storage.    *)
NewMachine ==
    [head |-> <<>>, started |-> FALSE, serving |-> FALSE, sharing |-> FALSE, prior |-> {}, inputs |-> Unset,
     canon |-> {}, plans |-> NoPlans, exec |-> <<>>, res |-> {}, preps |-> {},
     owned |-> {}, releases |-> {}]
NoBeat == [head |-> <<>>, actions |-> <<>>, sent |-> Unset]

DkgInit ==
    /\ chain = <<[mined |-> <<>>, other |-> FALSE, inputs |-> CHOOSE i \in Inputs : TRUE, fork |-> 0]>>
    /\ pool = {} /\ foreign = {} /\ reorged = FALSE
    /\ machine = NewMachine /\ beat = NoBeat
    /\ faults = 0

(* reset_task_work after discard_owned_pool_transactions, which takes the  *)
(* owned transactions out of the pool.                                     *)
Reset(m) == [m EXCEPT !.plans = NoPlans, !.exec = <<>>, !.res = {}, !.preps = {},
                      !.owned = {}, !.releases = {}]
Suspend(m) == [Reset(m) EXCEPT !.prior = {}, !.inputs = Unset, !.canon = {}]
Invalidated(m) == [Suspend(m) EXCEPT !.head = <<>>]

(* As Drop, leaving the prover job. *)
DropKeepsJob(m, id) == [m EXCEPT !.exec = SelectSeq(@, LAMBDA t : t.id # id), !.releases = @ \cup {id}]

Drop(m, id) == [m EXCEPT !.exec = SelectSeq(@, LAMBDA t : t.id # id),
                         !.preps = {p \in @ : p.id # id}, !.releases = @ \cup {id}]

SetState(m, id, new) ==
    [m EXCEPT !.exec = [i \in DOMAIN @ |-> IF @[i].id = id THEN [@[i] EXCEPT !.st = new] ELSE @[i]]]
TaskOf(m, id) == CHOOSE t \in ToSet(m.exec) : t.id = id
Queued(m) == {t.id : t \in ToSet(m.exec)}

-----------------------------------------------------------------------------
(* canonical_contribution_tasks and the recover part of                    *)
(* canonical_local_tasks.                                                  *)
CanonTasks(b, h) ==
    (Done(b) \cap {"share", "reshare"})
    \cup (IF Done(b) \cap {"reshare", "reshareRecovered"} # {} THEN {"reshare", "reshareRecovered"} ELSE {})
    \cup (IF h >= RecoverStart /\ (Missing(b) = {} \/ (Recoverable(b) /\ "recover" \in Done(b)))
          THEN {"recover"} ELSE {})

(* take_tasks: the checkpoints that are reached, handled once each. *)
Planned(m, b, h) ==
    LET p == m.plans
        share == h >= ShareStart /\ ~p.share
        recover == h >= RecoverStart /\ ~p.recover
        starts == recover /\ Recoverable(b)
        recovering == p.recovering \/ starts
        indices == IF starts THEN Missing(b) ELSE p.indices
        recovered == recovering /\ h >= RecoverCheck /\ ~p.recovered
    IN  IF h >= Target THEN [plans |-> p, ids |-> <<>>]
        ELSE [plans |-> [share |-> p.share \/ share, recover |-> p.recover \/ recover,
                         recovered |-> p.recovered \/ recovered,
                         recovering |-> recovering, indices |-> indices],
              ids |-> (IF share /\ h < RecoverStart THEN <<"reshare", "share">> ELSE <<>>)
                      \o (IF starts /\ h < RecoverCheck THEN <<"recover">> ELSE <<>>)
                      \o (IF recovered /\ 1 \in indices THEN <<"reshareRecovered">> ELSE <<>>)]

(* As Enqueue, of tasks already in storage too. *)
EnqueueAll(m, ids) ==
    LET new == SelectSeq(ids, LAMBDA id : id \notin Queued(m))
    IN  [m EXCEPT !.exec = @ \o [i \in DOMAIN new |->
            [id |-> new[i], st |-> "unprepared", tag |-> Unset, tx |-> Unset, at |-> 0]]]

(* enqueue: a task of the same id stays as it is. *)
Enqueue(m, ids) ==
    LET new == SelectSeq(ids, LAMBDA id : id \notin m.canon \cup Queued(m))
    IN  [m EXCEPT !.exec = @ \o [i \in DOMAIN new |->
            [id |-> new[i], st |-> "unprepared", tag |-> Unset, tx |-> Unset, at |-> 0]]]

(* poll_preparations: finished proofs of the same inputs become calldata;  *)
(* others are prepared again.                                              *)
Polled(m, job) ==
    LET ok == job.status = "proved" /\ job.tag = m.inputs
    IN  [m EXCEPT !.preps = @ \ {job},
                  !.exec = [i \in DOMAIN @ |->
                      IF @[i].id # job.id THEN @[i]
                      ELSE [@[i] EXCEPT !.st = IF ok THEN "ready" ELSE "unprepared",
                                        !.tag = IF ok THEN job.tag ELSE Unset]]]

Finished(m) == {p \in m.preps : p.status # "proving"}
PollAll(m) == FoldLeft(Polled, m, SetToSeq(Finished(m)))

(* actions_with_preparation_limit: expired tasks go; of the others one may *)
(* start to prepare when no job runs, those that are ready are submitted,  *)
(* receipts are looked up after the delay and again until answered.        *)
Expired(m, h) == {id \in Queued(m) : h >= EndHeight(id)}

Acting(m, h) ==
    LET live == SelectSeq(m.exec, LAMBDA t : t.id \notin Expired(m, h))
        fresh == {i \in DOMAIN live : live[i].st = "unprepared"}
        prepares(i) == i \in fresh /\ m.preps = {} /\ \A j \in fresh : i <= j
        checks(i) == live[i].st = "checking" \/ (live[i].st = "submitted" /\ h >= live[i].at + ConfirmDelay)
        next(i) == IF prepares(i) THEN "preparing" ELSE IF live[i].st = "ready" THEN "submitting"
                   ELSE IF checks(i) THEN "checking" ELSE live[i].st
        acts(i) == prepares(i) \/ live[i].st = "ready" \/ checks(i)
        now == [i \in DOMAIN live |-> [live[i] EXCEPT !.st = next(i)]]
        todo == SelectSeq([i \in DOMAIN live |-> i], acts)
    IN  [m |-> [m EXCEPT !.exec = now],
         actions |-> [i \in 1 .. Cardinality(Expired(m, h)) |->
                         [id |-> SetToSeq(Expired(m, h))[i], do |-> "expire"]]
                     \o [i \in DOMAIN todo |-> [id |-> now[todo[i]].id, do |-> now[todo[i]].st]]]

-----------------------------------------------------------------------------
Contributions(b) == (Done(b) \ {"recover"}) \cup (IF b.other THEN {"other"} ELSE {})

Follows(m, c) == m.head # <<>> => IsPrefix(m.head, c)

(* The heartbeat up to its actions.  Everything that the tasks were        *)
(* planned and proved from is compared with the head's state, and what no  *)
(* longer agrees takes all task work with it.                              *)
Reconciled(c, reorg) ==
    LET b == Top(c)
        h == Height(c)
        m1 == IF reorg \/ ~Follows(machine, c) \/ ~machine.started
              THEN [Suspend(machine) EXCEPT !.started = TRUE] ELSE machine
        m2 == IF m1.plans.indices \notin {{}, Missing(b)} THEN Reset(m1) ELSE m1
        m3 == IF m2.prior \subseteq Contributions(b) THEN m2 ELSE Reset(m2)
        m4 == IF m3.canon \subseteq CanonTasks(b, h) THEN m3 ELSE Reset(m3)
        m5 == FoldSet(LAMBDA id, m : Drop(m, id), m4, CanonTasks(b, h) \ m4.canon)
        m6 == IF m5.inputs \in {Unset, b.inputs} THEN m5 ELSE Reset(m5)
    IN  IF h \in ShareStart .. Target - 1
        THEN [m6 EXCEPT !.prior = Contributions(b), !.canon = CanonTasks(b, h),
                        !.inputs = b.inputs, !.sharing = TRUE]
        ELSE [(IF m2.sharing THEN Suspend(m2) ELSE m2) EXCEPT
                 !.canon = {}, !.inputs = Unset, !.sharing = FALSE]

Begin(reorg) ==
    LET m == Reconciled(chain, reorg)
        h == Height(chain)
        p == Planned(m, Top(chain), h)
        q == Enqueue([m EXCEPT !.plans = p.plans], p.ids)
        a == Acting(IF q.inputs = Unset THEN q ELSE PollAll(q), h)
    IN  /\ beat = NoBeat
        /\ machine' = a.m
        /\ pool' = pool \ (machine.owned \ m.owned)
        /\ beat' = [head |-> chain, actions |-> a.actions, sent |-> Unset]
        /\ reorged' = (reorged /\ ~reorg)
        /\ UNCHANGED <<chain, foreign, faults>>

(* A read of the round's inputs fails: task work is suspended. *)
BeginSuspended ==
    /\ beat = NoBeat /\ faults < MaxFaults /\ faults' = faults + 1
    /\ machine' = [Suspend(machine) EXCEPT !.head = chain, !.started = TRUE, !.serving = TRUE]
    /\ pool' = pool \ machine.owned
    /\ UNCHANGED <<chain, foreign, reorged, beat>>

-----------------------------------------------------------------------------
Does(do) == beat.actions # <<>> /\ beat.sent = Unset /\ beat.actions[1].do = do
Doing == beat.actions[1].id
Continue == beat' = [beat EXCEPT !.actions = Tail(@), !.sent = Unset]

(* As Expire, with the release not staged. *)
ExpireUnstaged ==
    /\ Does("expire")
    /\ machine' = [machine EXCEPT !.preps = {p \in @ : p.id # Doing}]
    /\ Continue /\ UNCHANGED <<chain, pool, foreign, reorged, faults>>

Expire ==
    /\ Does("expire")
    /\ machine' = Drop(machine, Doing)
    /\ Continue /\ UNCHANGED <<chain, pool, foreign, reorged, faults>>

StartPreparation(works) ==
    /\ Does("preparing")
    /\ machine' = IF works
                  THEN [machine EXCEPT !.preps = @ \cup {[id |-> Doing, tag |-> machine.inputs, status |-> "proving"]}]
                  ELSE SetState(machine, Doing, "unprepared")
    /\ works \/ faults < MaxFaults
    /\ faults' = IF works THEN faults ELSE faults + 1
    /\ Continue /\ UNCHANGED <<chain, pool, foreign, reorged>>

(* The head moved since the heartbeat began: the task goes back to ready   *)
(* and the heartbeat ends, its other actions undone.                       *)
SubmitMoved ==
    /\ Does("submitting") /\ chain # beat.head
    /\ machine' = SetState(machine, Doing, "ready")
    /\ beat' = NoBeat
    /\ UNCHANGED <<chain, pool, foreign, reorged, faults>>

Reserved(m, id) == {r \in m.res : r.id = id}

(* build and bump: the first nonce that is free, and from then on the same *)
(* nonce at a higher fee.                                                  *)
Reserve(m, id, nonce) ==
    LET live == {r \in m.res : r.nonce >= nonce}
        free == {n \in nonce .. nonce + Cardinality(m.res) + Cardinality(pool) :
                    /\ \A r \in live : r.nonce # n
                    /\ \A t \in pool : t.nonce # n}
    IN  IF Reserved(m, id) = {}
        THEN [m EXCEPT !.res = live \cup {[id |-> id, nonce |-> CHOOSE n \in free : \A k \in free : n <= k, fee |-> 1]}]
        ELSE [m EXCEPT !.res = {IF r.id = id THEN [r EXCEPT !.fee = @ + 1] ELSE r : r \in live}]

(* bump finds the nonce mined: the reservation goes, the task stays ready. *)
SubmitMined ==
    LET nonce == Nonce(Top(beat.head))
    IN  /\ Does("submitting") /\ chain = beat.head
        /\ \E r \in Reserved(machine, Doing) : r.nonce < nonce
        /\ machine' = [SetState(machine, Doing, "ready") EXCEPT !.res = {r \in @ : r.id # Doing}]
        /\ Continue /\ UNCHANGED <<chain, pool, foreign, reorged, faults>>

Accepts(tx) ==
    /\ tx.nonce >= Nonce(Top(chain))
    /\ \A t \in pool : t.nonce = tx.nonce => t.fee < tx.fee

SubmitTo(refused) ==
    LET nonce == Nonce(Top(beat.head))
        m == Reserve(machine, Doing, nonce)
        r == CHOOSE x \in Reserved(m, Doing) : TRUE
        tx == [id |-> Doing, nonce |-> r.nonce, fee |-> r.fee, tag |-> TaskOf(machine, Doing).tag]
    IN  /\ Does("submitting") /\ chain = beat.head
        /\ \A x \in Reserved(machine, Doing) : x.nonce >= nonce
        /\ refused => faults < MaxFaults
        /\ faults' = IF refused THEN faults + 1 ELSE faults
        /\ IF refused \/ ~Accepts(tx)
           THEN machine' = SetState(m, Doing, "ready") /\ Continue /\ UNCHANGED pool
           ELSE /\ machine' = [m EXCEPT !.owned = @ \cup {tx}]
                /\ pool' = {t \in pool : t.nonce # tx.nonce} \cup {tx}
                /\ beat' = [beat EXCEPT !.sent = tx]
        /\ UNCHANGED <<chain, foreign, reorged>>

(* The pool answered; a head that moved meanwhile takes the transaction    *)
(* back.                                                                   *)
Submitted ==
    LET tx == beat.sent
        moved == chain # beat.head
        put(t) == IF t.id # tx.id THEN t
                  ELSE IF moved THEN [t EXCEPT !.st = "ready"]
                  ELSE [t EXCEPT !.st = "submitted", !.tx = tx, !.at = Height(beat.head)]
    IN  /\ tx # Unset
        /\ machine' = [machine EXCEPT !.exec = [i \in DOMAIN @ |-> put(@[i])]]
        /\ pool' = IF moved THEN pool \ {tx} ELSE pool
        /\ Continue /\ UNCHANGED <<chain, foreign, reorged, faults>>

Receipt(tx) == {m \in ToSet(Top(chain).mined) : m.tx = tx}

CheckReceipt ==
    LET tx == TaskOf(machine, Doing).tx
    IN  /\ Does("checking")
        /\ machine' = IF \E m \in Receipt(tx) : m.ok
                      THEN [machine EXCEPT !.exec = SelectSeq(@, LAMBDA t : t.id # Doing), !.releases = @ \cup {Doing}]
                      ELSE SetState(machine, Doing, "ready")
        /\ Continue /\ UNCHANGED <<chain, pool, foreign, reorged, faults>>

(* The fence at the end: only a head that still stands commits.  Until a   *)
(* first heartbeat has committed, a head that moved invalidates the        *)
(* attempt.                                                                *)
Finish ==
    LET out == {t \in machine.owned : t.id \in machine.releases}
    IN  /\ beat # NoBeat /\ beat.actions = <<>>
        /\ beat' = NoBeat
        /\ IF chain = beat.head
           THEN /\ machine' = [machine EXCEPT !.head = chain, !.serving = TRUE, !.releases = {},
                                              !.owned = @ \ out, !.res = {r \in @ : r.id \notin machine.releases}]
                /\ pool' = pool \ out
           ELSE IF machine.serving THEN UNCHANGED <<machine, pool>>
           ELSE machine' = Invalidated(machine) /\ pool' = pool \ machine.owned
        /\ UNCHANGED <<chain, foreign, reorged, faults>>

(* Any other error on the way invalidates the attempt. *)
FailBeat ==
    /\ beat # NoBeat /\ faults < MaxFaults /\ faults' = faults + 1
    /\ machine' = Invalidated(machine) /\ pool' = pool \ machine.owned /\ beat' = NoBeat
    /\ UNCHANGED <<chain, foreign, reorged>>

-----------------------------------------------------------------------------
Prove(job, status) ==
    /\ job.status = "proving"
    /\ status = "failed" => faults < MaxFaults
    /\ faults' = IF status = "failed" THEN faults + 1 ELSE faults
    /\ machine' = [machine EXCEPT !.preps = (@ \ {job}) \cup {[job EXCEPT !.status = status]}]
    /\ UNCHANGED <<chain, pool, foreign, reorged, beat>>

(* KeyManagement, from what the runtime reads of it: a call counts in its  *)
(* window, with the recipients' current keys, when its slot is empty.      *)
Counts(b, h, tx) ==
    /\ h \in StartHeight(tx.id) .. EndHeight(tx.id) - 1
    /\ tx.tag = b.inputs
    /\ tx.id \notin Done(b)
    /\ tx.id = "reshareRecovered" => "reshare" \notin Done(b)

Mine(b, h, tx, runs) == [b EXCEPT !.mined = Append(@, [tx |-> tx, ok |-> runs /\ Counts(b, h, tx)])]

(* A block: transactions of the pool in nonce order, which may run out of  *)
(* gas, perhaps member 2's reshare, perhaps new inputs.                    *)
MineAll(b, h, n, runs) ==
    LET run == [i \in 1 .. n |-> CHOOSE t \in pool : t.nonce = Nonce(b) + i - 1]
    IN  FoldLeft(LAMBDA x, t : Mine(x, h, t, runs), b, run)

Executable(b) == {n \in 0 .. Cardinality(pool) : \A i \in 1 .. n : \E t \in pool : t.nonce = Nonce(b) + i - 1}

Extended(c, n, runs, other, inputs, fork) ==
    Append(c, [MineAll(Top(c), Len(c), n, runs) EXCEPT !.other = @ \/ other, !.inputs = inputs, !.fork = fork])

NewBlock ==
    /\ Height(chain) < MaxHeight
    /\ \E n \in Executable(Top(chain)), other, runs \in BOOLEAN, i \in Inputs :
          LET new == Extended(chain, n, runs, other, i, Top(chain).fork)
              odd == i # Top(chain).inputs \/ ~runs
          IN  /\ other => Len(chain) \in ShareStart .. RecoverStart - 1
              /\ ~runs => n > 0
              /\ odd => faults < MaxFaults
              /\ faults' = IF odd THEN faults + 1 ELSE faults
              /\ chain' = new
              /\ pool' = {t \in pool : t.nonce >= Nonce(Top(new))}
    /\ UNCHANGED <<foreign, reorged, machine, beat>>

(* The last block is replaced; the pool takes its transactions back. *)
ChainReorg ==
    LET old == {m.tx : m \in ToSet(Top(chain).mined)}
        base == SubSeq(chain, 1, Len(chain) - 1)
        new == Extended(base, 0, TRUE, FALSE, Top(base).inputs, faults + 1)
        back == {t \in old : t.nonce >= Nonce(Top(new)) /\ \A p \in pool : p.nonce # t.nonce}
    IN  /\ faults < MaxFaults /\ Len(chain) > 1
        /\ faults' = faults + 1
        /\ chain' = new /\ reorged' = TRUE
        /\ pool' = pool \cup back
        /\ foreign' = foreign \cup (back \ machine.owned)
        /\ UNCHANGED <<machine, beat>>

(* The process starts again; the pool may have kept its transactions. *)
Restart(kept) ==
    /\ faults < MaxFaults /\ faults' = faults + 1
    /\ machine' = NewMachine /\ beat' = NoBeat /\ reorged' = FALSE
    /\ pool' = kept /\ foreign' = foreign \cup kept
    /\ UNCHANGED <<chain>>

Heartbeat ==
    \/ \E reorg \in {FALSE, reorged} : Begin(reorg)
    \/ BeginSuspended
    \/ Expire
    \/ \E works \in BOOLEAN : StartPreparation(works)
    \/ SubmitMoved
    \/ SubmitMined
    \/ \E refused \in BOOLEAN : SubmitTo(refused)
    \/ Submitted
    \/ CheckReceipt
    \/ Finish
    \/ FailBeat

DkgNext ==
    \/ Heartbeat
    \/ \E job \in machine.preps, status \in {"proved", "failed"} : Prove(job, status)
    \/ NewBlock
    \/ ChainReorg
    \/ \E kept \in {{}, pool} : Restart(kept)

DkgSpec == DkgInit /\ [][DkgNext]_dkgVars

-----------------------------------------------------------------------------
TxType == [id : Methods, nonce : Nat, fee : Nat, tag : Inputs]
States == {"unprepared", "preparing", "ready", "submitting", "submitted", "checking"}

(* The shape of the runtime's state; a task is queued once, and exactly    *)
(* tasks with calldata have proved inputs.                                 *)
DkgTypeOK ==
    /\ pool \subseteq TxType /\ foreign \subseteq TxType /\ reorged \in BOOLEAN
    /\ machine.owned \subseteq TxType /\ machine.releases \subseteq Methods
    /\ machine.canon \subseteq Methods /\ machine.inputs \in Inputs \cup {Unset}
    /\ \A t \in ToSet(machine.exec) :
          /\ t.id \in Methods /\ t.st \in States
          /\ t.st \in {"unprepared", "preparing"} <=> t.tag = Unset
    /\ IsInjective([i \in DOMAIN machine.exec |-> machine.exec[i].id])

(* One prover job at a time, for a task that waits for it: record_prepared *)
(* never meets a task it does not expect, so poll_preparations never       *)
(* fails.                                                                  *)
JobAwaited ==
    /\ Cardinality(machine.preps) <= 1
    /\ \A p \in machine.preps :
          \/ \E t \in ToSet(machine.exec) : t.id = p.id /\ t.st = "preparing"
          \/ \E i \in DOMAIN beat.actions : beat.actions[i] = [id |-> p.id, do |-> "expire"]

(* The reservations give every task a nonce of its own. *)
NoncesDistinct ==
    \A r, q \in machine.res : r.id = q.id \/ r.nonce = q.nonce => r = q

(* Every transaction in the pool that this process put there is on record, *)
(* so that a later reset can withdraw it; and once a heartbeat has         *)
(* committed at a head, none is left for a call whose window has closed,   *)
(* whose slot that head shows filled, or whose proof is for other inputs.  *)
(* Calldata waiting to be sent was proved from the inputs last read.       *)
PoolFitsHead ==
    /\ pool \subseteq machine.owned \cup foreign
    /\ \A t \in ToSet(machine.exec) : t.tag \in {Unset, machine.inputs}
    /\ beat = NoBeat /\ machine.head = chain =>
        \A t \in pool \cap machine.owned :
            /\ Height(chain) < EndHeight(t.id)
            /\ t.id \notin CanonTasks(Top(chain), Height(chain))
            /\ t.tag = Top(chain).inputs

(* No call is sent again that the heartbeat's own head shows in storage.   *)
NotSentAgain ==
    [][\A t \in machine'.owned \ machine.owned :
          t.id \notin CanonTasks(Top(beat.head), Height(beat.head))]_dkgVars

(* Between heartbeats no task is left marked for an action that nobody     *)
(* will carry out.                                                        *)
NothingStranded ==
    beat = NoBeat =>
        \A t \in ToSet(machine.exec) :
            /\ t.st # "submitting"
            /\ t.st = "preparing" => \E p \in machine.preps : p.id = t.id

=============================================================================
