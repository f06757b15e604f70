------------------------------ MODULE DkgSettled ------------------------------
(***************************************************************************)
(* The keys of one validator over rounds of the DKG: the key store in      *)
(* memory and its encrypted file, the shares installed in the signer, and  *)
(* the heartbeat that brings them in line with the canonical head.  The    *)
(* head moves while a heartbeat reads, saves and installs; saving may fail *)
(* and the process may end anywhere.                                       *)
(*                                                                         *)
(* A settled round is known by a name; the arithmetic behind it, and the   *)
(* tasks of the open round (DkgTasks), are left out.                       *)
(***************************************************************************)
EXTENDS Naturals, Sequences, FiniteSets, SequencesExt

CONSTANTS
    Senders,            \* members that contribute to a round
    MaxRound, MaxBlocks, MaxForks, MaxTroubles,
    KeepsMessages,      \* the contract keeps the encrypted messages of a settled round
    NoKeys

(* No settled round is called NoKeys. *)
ASSUME NoKeysAssumption == NoKeys \notin [round : Nat, made : Nat, member : BOOLEAN]

VARIABLES
    ledger,             \* canonical blocks: what KeyManagement shows at each
    lagging,            \* a reorg notification waits
    disk, live,         \* the key store on disk and in memory
    signer,             \* the settled round whose shares are installed
    runtime,            \* canonical_head, signer_installation, active and recovery sets, serving
    pulse,              \* the heartbeat under way: its head, step and rebuilt store
    branches, troubles

keyVars == <<ledger, lagging, disk, live, signer, runtime, pulse, branches, troubles>>

LedgerTop == ledger[Len(ledger)]
Contribution == Senders \X (0 .. MaxForks)

(* What a block shows: the settled round, whether we are in its set, the   *)
(* open round's phase and contributions.                                   *)
FirstBlock == [round |-> 1, made |-> 0, member |-> TRUE, pending |-> FALSE, phase |-> "idle",
               window |-> 0, shares |-> {}, recoveries |-> {}, branch |-> 0]

Settled(b) == [round |-> b.round, made |-> b.made, member |-> b.member]

(* The settled names that give this validator a share. *)
Wanted(b) == IF b.member THEN Settled(b) ELSE NoKeys

-----------------------------------------------------------------------------
(* DkgKeyStore *)
EmptyStore == [round |-> 0, keys |-> NoKeys, sharing |-> NoKeys, recovering |-> NoKeys]

Baseline(prior) == [EmptyStore EXCEPT !.round = prior]
OnSharePeriodStart(s) == [s EXCEPT !.sharing = {}, !.recovering = NoKeys]
OnRecoverPeriodStart(s) == [s EXCEPT !.recovering = {}]
RevertRound(s) == [s EXCEPT !.sharing = NoKeys, !.recovering = NoKeys]
OnEpochChange(s, settled) ==
    [round |-> s.round + 1, keys |-> settled, sharing |-> NoKeys, recovering |-> NoKeys]

(* Only a pending member receives. *)
ReceiveShares(s, b) == IF b.pending THEN [s EXCEPT !.sharing = @ \cup b.shares] ELSE s
ReceiveRecoveries(s, b) == [s EXCEPT !.recovering = @ \cup b.recoveries]

(* rebuild_dkg_canonical_store: the settled round replayed from nothing.   *)
Rebuilt(b) == OnEpochChange(OnSharePeriodStart(Baseline(b.round - 1)), Settled(b))

(* As Valid, for any store of the round. *)
ValidByRound(s, b) == s.round = b.round /\ s.keys # NoKeys

(* validate_settled_store *)
Valid(s, b) == s.round = b.round /\ s.keys = Settled(b)

-----------------------------------------------------------------------------
NewRuntime == [head |-> <<>>, installed |-> NoKeys, active |-> NoKeys, recovery |-> NoKeys, serving |-> FALSE]
NoPulse == [head |-> <<>>, step |-> "none", reset |-> FALSE, store |-> EmptyStore]

SettledInit ==
    /\ ledger = <<FirstBlock>> /\ lagging = FALSE
    /\ disk \in {EmptyStore, [EmptyStore EXCEPT !.round = 1, !.keys = Settled(FirstBlock)]} /\ live = disk
    /\ signer = NoKeys /\ runtime = NewRuntime /\ pulse = NoPulse
    /\ branches = 0 /\ troubles = 0

PulseTop == pulse.head[Len(pulse.head)]
InStep(s) == pulse.step = s
Goto(s) == pulse' = [pulse EXCEPT !.step = s]
Moved == ledger # pulse.head
Trouble == troubles < MaxTroubles /\ troubles' = troubles + 1

(* invalidate_canonical_attempt *)
Invalidate ==
    /\ signer' = NoKeys /\ pulse' = NoPulse
    /\ runtime' = [NewRuntime EXCEPT !.serving = runtime.serving]

(* The head moved: the heartbeat ends; before the first success it is also *)
(* invalidated.                                                            *)
Abandon == IF runtime.serving THEN pulse' = NoPulse /\ UNCHANGED <<signer, runtime>> ELSE Invalidate

StartPulse(reorg) ==
    LET detached == runtime.head # <<>> /\ ~IsPrefix(runtime.head, ledger)
        reset == reorg \/ detached
    IN  /\ InStep("none")
        /\ pulse' = [NoPulse EXCEPT !.head = ledger, !.step = "settled", !.reset = reset]
        /\ signer' = IF reset THEN NoKeys ELSE signer
        /\ runtime' = IF reset THEN [runtime EXCEPT !.installed = NoKeys] ELSE runtime
        /\ lagging' = (lagging /\ ~reorg)
        /\ UNCHANGED <<ledger, disk, live, branches, troubles>>

(* install_signer_shares, with the marker. *)
Install(s) ==
    /\ signer' = IF s.keys # NoKeys /\ s.keys.member THEN s.keys ELSE NoKeys
    /\ runtime' = [runtime EXCEPT !.installed = Settled(PulseTop)]

(* reconcile_settled_round with a store of the round. *)
KeepStore ==
    /\ InStep("settled") /\ Valid(live, PulseTop)
    /\ IF runtime.installed = Settled(PulseTop) THEN Goto("open") /\ UNCHANGED <<signer, runtime>>
       ELSE IF Moved THEN Abandon
       ELSE Install(live) /\ Goto("open")
    /\ UNCHANGED <<ledger, lagging, disk, live, branches, troubles>>

(* With any other: the signer is cleared first, then the rebuilt store is  *)
(* saved.  Without the messages there is nothing to rebuild from.          *)
RebuildStore ==
    /\ InStep("settled") /\ ~Valid(live, PulseTop)
    /\ IF KeepsMessages
       THEN /\ signer' = NoKeys /\ runtime' = [runtime EXCEPT !.installed = NoKeys]
            /\ disk' = Rebuilt(PulseTop)
            /\ pulse' = [pulse EXCEPT !.step = "saved", !.store = Rebuilt(PulseTop)]
       ELSE Invalidate /\ UNCHANGED disk
    /\ UNCHANGED <<ledger, lagging, live, branches, troubles>>


AdoptStore ==
    /\ InStep("saved")
    /\ IF Moved THEN Abandon /\ UNCHANGED live
       ELSE live' = pulse.store /\ Install(pulse.store) /\ Goto("open")
    /\ UNCHANGED <<ledger, lagging, disk, branches, troubles>>

-----------------------------------------------------------------------------
InWindow(b) == b.phase # "idle"

(* Recovery messages are read with the settled round's contribution.       *)
ReadsRecovery(b) == b.phase = "check" /\ b.pending

(* What was replayed last, forgotten with the epoch and the membership.    *)
ActiveSet(b) == <<b.window, b.pending, b.shares>>
RecoverySet(b) == <<b.window, b.pending, b.recoveries>>

RebuildsRound(s, b) == pulse.reset \/ runtime.active # ActiveSet(b) \/ s.sharing = NoKeys
RecoveryChanged(b) == ReadsRecovery(b) /\ runtime.recovery # RecoverySet(b)

ReplayRound(s, b) == ReceiveShares(IF RebuildsRound(s, b) THEN OnSharePeriodStart(s) ELSE s, b)

BeginRecovery(s, b) ==
    IF b.phase \in {"recover", "check"} /\ s.recovering = NoKeys THEN OnRecoverPeriodStart(s) ELSE s

(* As ReplayRecovery, without starting over when the messages changed. *)
ReplayRecoveryOnTop(s, b) == IF ReadsRecovery(b) THEN ReceiveRecoveries(s, b) ELSE s

ReplayRecovery(s, b) ==
    IF ReadsRecovery(b)
    THEN ReceiveRecoveries(IF RecoveryChanged(b) THEN OnRecoverPeriodStart(s) ELSE s, b)
    ELSE s

(* The open round's part of the heartbeat in three stages, each written to *)
(* the file when it changed the store.                                     *)
Stages ==
    LET b == PulseTop
        s1 == ReplayRound(live, b)
        s2 == BeginRecovery(s1, b)
        s3 == ReplayRecovery(s2, b)
        f1 == IF RebuildsRound(live, b) \/ s1 # live THEN s1 ELSE disk
        f2 == IF s2 # s1 THEN s2 ELSE f1
        f3 == IF RecoveryChanged(b) \/ s3 # s2 THEN s3 ELSE f2
    IN  [done |-> <<s3, f3>>, unread |-> <<s2, f2>>,
         unsaved |-> {<<live, disk>>, <<s1, disk>>, <<s2, f1>>, <<s3, f2>>}]

(* A message that cannot be read, or a file that cannot be written, leaves *)
(* what is in memory and suspends the tasks.                               *)
SuspendTasks == runtime' = [runtime EXCEPT !.active = NoKeys, !.recovery = NoKeys]

ReplayOpen ==
    LET unread == ReadsRecovery(PulseTop) /\ ~KeepsMessages
        s == IF unread THEN Stages.unread ELSE Stages.done
    IN  /\ InStep("open") /\ InWindow(PulseTop)
        /\ live' = s[1] /\ disk' = s[2]
        /\ IF unread THEN SuspendTasks
           ELSE runtime' = [runtime EXCEPT !.active = ActiveSet(PulseTop),
                               !.recovery = IF ReadsRecovery(PulseTop) THEN RecoverySet(PulseTop) ELSE @]
        /\ Goto("finish")
        /\ UNCHANGED <<ledger, lagging, signer, branches, troubles>>

ReplayUnsaved ==
    /\ InStep("open") /\ InWindow(PulseTop) /\ Trouble
    /\ \E u \in Stages.unsaved : live' = u[1] /\ disk' = u[2]
    /\ SuspendTasks /\ Goto("finish")
    /\ UNCHANGED <<ledger, lagging, signer, branches>>

(* Outside the window an unfinished round is dropped: the store is read    *)
(* from the file again, reverted and saved.                                *)
DropOpen ==
    LET dropped == live.sharing # NoKeys
    IN  /\ InStep("open") /\ ~InWindow(PulseTop)
        /\ live' = IF dropped THEN RevertRound(disk) ELSE live
        /\ disk' = IF dropped THEN RevertRound(disk) ELSE disk
        /\ runtime' = IF dropped THEN [runtime EXCEPT !.active = NoKeys, !.recovery = NoKeys] ELSE runtime
        /\ Goto("finish")
        /\ UNCHANGED <<ledger, lagging, signer, branches, troubles>>

DropFails ==
    /\ InStep("open") /\ ~InWindow(PulseTop) /\ live.sharing # NoKeys
    /\ Trouble
    /\ SuspendTasks /\ Goto("finish")
    /\ UNCHANGED <<ledger, lagging, disk, live, signer, branches>>

FinishPulse ==
    /\ InStep("finish")
    /\ IF Moved THEN Abandon
       ELSE pulse' = NoPulse /\ runtime' = [runtime EXCEPT !.head = ledger, !.serving = TRUE] /\ UNCHANGED signer
    /\ UNCHANGED <<ledger, lagging, disk, live, branches, troubles>>

(* Any other read or write fails. *)
PulseFails ==
    /\ ~InStep("none") /\ Trouble /\ Invalidate
    /\ UNCHANGED <<ledger, lagging, disk, live, branches>>

CrashKeys ==
    /\ Trouble
    /\ live' = disk /\ signer' = NoKeys /\ runtime' = NewRuntime /\ pulse' = NoPulse
    /\ lagging' = FALSE
    /\ UNCHANGED <<ledger, disk, branches>>

-----------------------------------------------------------------------------
(* KeyManagement and Governance, as the runtime reads them. *)
OpenRound(b) == {[b EXCEPT !.phase = "share", !.window = @ + 1, !.pending = p, !.shares = {}, !.recoveries = {}] : p \in BOOLEAN}
AddShare(b, v) == {[b EXCEPT !.shares = @ \cup {<<s, v>>}] : s \in Senders \ {c[1] : c \in b.shares}}
AddRecovery(b, v) == {[b EXCEPT !.recoveries = @ \cup {<<s, v>>}] : s \in Senders \ {c[1] : c \in b.recoveries}}
Closed(b) == [b EXCEPT !.phase = "idle", !.pending = FALSE, !.shares = {}, !.recoveries = {}]
Settle(b, v) == [Closed(b) EXCEPT !.round = @ + 1, !.made = v, !.member = b.pending]
Full(b) == {c[1] : c \in b.shares} = Senders

Ended(b, v) == {Closed(b)} \cup {x \in {Settle(b, v)} : Full(b) /\ x.round <= MaxRound}

Successors(b, v) ==
    {[x EXCEPT !.branch = v] :
        x \in CASE b.phase = "idle" -> OpenRound(b)
                [] b.phase = "share" -> AddShare(b, v) \cup Ended(b, v) \cup {[b EXCEPT !.phase = "recover"]}
                [] b.phase = "recover" -> AddRecovery(b, v) \cup {[b EXCEPT !.phase = "check"]}
                [] b.phase = "check" -> AddRecovery(b, v) \cup Ended(b, v)}

LedgerGrows ==
    /\ Len(ledger) < MaxBlocks
    /\ \E b \in Successors(LedgerTop, LedgerTop.branch) : ledger' = Append(ledger, b)
    /\ UNCHANGED <<lagging, disk, live, signer, runtime, pulse, branches, troubles>>

LedgerReorg ==
    LET base == Front(ledger)
    IN  /\ branches < MaxForks /\ Len(ledger) > 1
        /\ branches' = branches + 1
        /\ \E b \in Successors(base[Len(base)], branches + 1) : ledger' = Append(base, b)
        /\ lagging' = TRUE
        /\ UNCHANGED <<disk, live, signer, runtime, pulse, troubles>>

Pulse ==
    \/ \E reorg \in {FALSE, lagging} : StartPulse(reorg)
    \/ KeepStore \/ RebuildStore \/ AdoptStore
    \/ ReplayOpen \/ DropOpen \/ FinishPulse

SettledNext ==
    \/ Pulse
    \/ ReplayUnsaved \/ DropFails \/ PulseFails
    \/ CrashKeys
    \/ LedgerGrows \/ LedgerReorg

SettledSpec == SettledInit /\ [][SettledNext]_keyVars /\ WF_keyVars(Pulse)

-----------------------------------------------------------------------------
Store == [round : 0 .. MaxRound, keys : {NoKeys} \cup [round : 0 .. MaxRound, made : 0 .. MaxForks, member : BOOLEAN],
          sharing : {NoKeys} \cup SUBSET Contribution, recovering : {NoKeys} \cup SUBSET Contribution]

(* The shape of the state; in memory and on disk a store's keys are those  *)
(* of its round, so that no transient baseline is ever saved or used.      *)
SettledTypeOK ==
    /\ disk \in Store /\ live \in Store
    /\ \A s \in {disk, live} : IF s.keys = NoKeys THEN s.round = 0 ELSE s.keys.round = s.round
    /\ signer \in {NoKeys} \cup [round : 0 .. MaxRound, made : 0 .. MaxForks, member : {TRUE}]
    /\ pulse.step \in {"none", "settled", "saved", "open", "finish"}

(* The marker that lets a heartbeat skip the installation is never set for *)
(* a member whose signer is empty: it would stay empty for the round.      *)
MarkerTruthful ==
    runtime.installed # NoKeys /\ runtime.installed.member => signer # NoKeys

(* A heartbeat that succeeded leaves the signer with the share of the      *)
(* canonical settled round, and with none outside its set.                 *)
SignerFitsHead ==
    runtime.head = ledger /\ InStep("none") => signer = Wanted(LedgerTop)

(* A heartbeat that succeeded in the open window without being suspended   *)
(* leaves in memory and on disk exactly the canonical contributions: none  *)
(* of a detached branch, none missing.                                     *)
ReplayExact ==
    runtime.head = ledger /\ InStep("none") /\ runtime.active # NoKeys /\ InWindow(LedgerTop) =>
        /\ live.sharing = IF LedgerTop.pending THEN LedgerTop.shares ELSE {}
        /\ ReadsRecovery(LedgerTop) => live.recovering = LedgerTop.recoveries
        /\ disk = live

(* Once the chain and the troubles are over, the signer ends up with the   *)
(* share of the canonical settled round and keeps it.                      *)
InstalledInTheEnd == <>[](signer = Wanted(LedgerTop))

=============================================================================
