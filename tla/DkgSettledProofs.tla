-------------------------- MODULE DkgSettledProofs --------------------------
(***************************************************************************)
(* A heartbeat that succeeded leaves the signer with the canonical round's *)
(* share, for any members, any chain with any reorganisations, and any     *)
(* failures and restarts.                                                  *)
(***************************************************************************)
EXTENDS DkgSettled, SequenceTheorems, TLAPS

Names == [round : Nat, made : Nat, member : BOOLEAN]
Given == Senders \X Nat
Phases == {"idle", "share", "recover", "check"}
Block == [round : Nat, made : Nat, member : BOOLEAN, pending : BOOLEAN, phase : Phases,
          window : Nat, shares : SUBSET Given, recoveries : SUBSET Given, branch : Nat]

(* A settled round is named by a block, and NoKeys is none.                *)
LEMMA SettledIsName ==
    ASSUME NEW b \in Block
    PROVE  Settled(b) \in Names /\ Settled(b) # NoKeys /\ Settled(b).member = b.member
BY NoKeysAssumption DEF Block, Names, Settled

(* A block that follows another is a block of the branch it is made on.    *)
LEMMA SuccessorIsBlock ==
    ASSUME NEW b \in Block, NEW v \in Nat, NEW c \in Successors(b, v)
    PROVE  c \in Block /\ c.branch = v
<1> DEFINE X == CASE b.phase = "idle" -> OpenRound(b)
                  [] b.phase = "share" -> AddShare(b, v) \cup Ended(b, v) \cup {[b EXCEPT !.phase = "recover"]}
                  [] b.phase = "recover" -> AddRecovery(b, v) \cup {[b EXCEPT !.phase = "check"]}
                  [] b.phase = "check" -> AddRecovery(b, v) \cup Ended(b, v)
<1>1. OpenRound(b) \subseteq Block
  <2> SUFFICES ASSUME NEW p \in BOOLEAN
               PROVE  [b EXCEPT !.phase = "share", !.window = @ + 1, !.pending = p,
                                !.shares = {}, !.recoveries = {}] \in Block
    BY DEF OpenRound
  <2>1. b.window + 1 \in Nat
    BY DEF Block
  <2> QED
    BY <2>1, Zenon DEF Block, Phases
<1>2. ASSUME NEW s \in Senders PROVE <<s, v>> \in Given
  BY DEF Given
<1>3. AddShare(b, v) \subseteq Block
  BY <1>2 DEF AddShare, Block
<1>4. AddRecovery(b, v) \subseteq Block
  BY <1>2 DEF AddRecovery, Block
<1>5. Closed(b) \in Block
  BY DEF Closed, Block, Phases
<1>6. Settle(b, v) \in Block
  <2>1. Closed(b).round + 1 \in Nat /\ b.pending \in BOOLEAN
    BY <1>5 DEF Block
  <2> QED
    BY <1>5, <2>1 DEF Settle, Block
<1>7. [b EXCEPT !.phase = "recover"] \in Block /\ [b EXCEPT !.phase = "check"] \in Block
  BY DEF Block, Phases
<1>8. Ended(b, v) \subseteq Block
  BY <1>5, <1>6 DEF Ended
<1>9. X \subseteq Block
  <2>1. b.phase \in Phases
    BY DEF Block
  <2> QED
    BY <1>1, <1>3, <1>4, <1>7, <1>8, <2>1 DEF Phases
<1>10. PICK x \in X : c = [x EXCEPT !.branch = v]
  BY DEF Successors
<1> HIDE DEF X
<1>11. x \in Block
  BY <1>9, <1>10
<1> QED
  BY <1>10, <1>11 DEF Block

(* Shares the rebuilt store has: those of the settled round.               *)
LEMMA RebuiltKeys ==
    ASSUME NEW b \in Block
    PROVE  Rebuilt(b).keys = Settled(b)
BY DEF Rebuilt, OnEpochChange

Tops(h) == h[Len(h)]
Steps == {"none", "settled", "saved", "open", "finish"}
Replayed == {NoKeys} \cup (Nat \X BOOLEAN \X SUBSET Given)
Runtimes == [head : Seq(Block), installed : {NoKeys} \cup Names, active : Replayed,
             recovery : Replayed, serving : BOOLEAN]
Stores == [round : Int, keys : {NoKeys} \cup Names, sharing : {NoKeys}, recovering : {NoKeys}]
Pulses == [head : Seq(Block), step : Steps, reset : BOOLEAN, store : Stores]

KeysTyped ==
    /\ ledger \in Seq(Block) /\ Len(ledger) > 0
    /\ branches \in Nat /\ LedgerTop.branch <= branches
    /\ runtime \in Runtimes /\ pulse \in Pulses

(* A head that was canonical comes before the canonical one: it is of an   *)
(* earlier branch, or shorter.  So no head ever becomes canonical again.   *)
Before(h) ==
    \/ Tops(h).branch < LedgerTop.branch
    \/ Tops(h).branch = LedgerTop.branch /\ Len(h) < Len(ledger)

PastHead(h) == h = <<>> \/ h = ledger \/ Before(h)

(* The signer has the share that goes with the marker, the marker is that  *)
(* of the head of a heartbeat past its settled part, and a heartbeat whose *)
(* head moved is not followed by a success for the canonical head.         *)
MarkerInv ==
    /\ PastHead(runtime.head) /\ PastHead(pulse.head)
    /\ runtime.installed # NoKeys =>
           signer = IF runtime.installed.member THEN runtime.installed ELSE NoKeys
    /\ ~InStep("none") => pulse.head # <<>>
    /\ InStep("saved") => pulse.store.keys = Settled(PulseTop)
    /\ InStep("open") \/ InStep("finish") => runtime.installed = Settled(PulseTop)
    /\ ~InStep("none") /\ Moved => runtime.head # ledger
    /\ InStep("none") /\ runtime.head = ledger => runtime.installed = Settled(LedgerTop)

KeysInv == KeysTyped /\ MarkerInv

(* The canonical head is a block of a branch.                              *)
LEMMA TopIsBlock ==
    ASSUME NEW h \in Seq(Block), h # <<>>
    PROVE  Tops(h) \in Block /\ Len(h) \in Nat \ {0}
BY DEF Tops

(* Nothing is settled or installed at first.                               *)
LEMMA KeysStart == SettledInit => KeysInv
<1> SUFFICES ASSUME SettledInit PROVE KeysInv
  OBVIOUS
<1>1. FirstBlock \in Block
  BY DEF FirstBlock, Block, Phases
<1>2. ledger = <<FirstBlock>> /\ ledger \in Seq(Block) /\ Len(ledger) = 1 /\ ledger # <<>>
  BY <1>1 DEF SettledInit
<1>3. LedgerTop = FirstBlock
  BY <1>2 DEF LedgerTop
<1>4. EmptyStore \in Stores
  BY DEF EmptyStore, Stores
<1>5. runtime \in Runtimes /\ runtime.head = <<>> /\ runtime.installed = NoKeys
  BY DEF SettledInit, NewRuntime, Runtimes, Replayed
<1>6. pulse \in Pulses /\ pulse.head = <<>> /\ pulse.step = "none"
  BY <1>4 DEF SettledInit, NoPulse, Pulses, Steps
<1>7. KeysTyped
  BY <1>2, <1>3, <1>5, <1>6 DEF SettledInit, KeysTyped, FirstBlock
<1>8. MarkerInv
  BY <1>2, <1>5, <1>6 DEF MarkerInv, PastHead, InStep, Moved
<1> QED
  BY <1>7, <1>8 DEF KeysInv

(* A new canonical head was never one before.                              *)
LEMMA LedgerMoves ==
    ASSUME KeysInv, LedgerGrows \/ LedgerReorg
    PROVE  /\ ledger' \in Seq(Block) /\ Len(ledger') > 0
           /\ branches' \in Nat /\ LedgerTop'.branch <= branches'
           /\ \A h \in Seq(Block) : PastHead(h) => PastHead(h)' /\ h # ledger'
<1>0. /\ ledger \in Seq(Block) /\ Len(ledger) \in Nat \ {0} /\ LedgerTop \in Block
      /\ branches \in Nat /\ LedgerTop.branch \in Nat /\ LedgerTop.branch <= branches
  <2>1. ledger \in Seq(Block) /\ Len(ledger) > 0 /\ branches \in Nat /\ LedgerTop.branch <= branches
    BY DEF KeysInv, KeysTyped
  <2>2. LedgerTop \in Block
    BY <2>1, TopIsBlock DEF LedgerTop, Tops
  <2> QED
    BY <2>1, <2>2 DEF Block
<1>1. ASSUME NEW base \in Seq(Block), NEW b \in Block, ledger' = Append(base, b)
      PROVE  /\ ledger' \in Seq(Block) /\ Len(ledger') = Len(base) + 1 /\ LedgerTop' = b
  BY <1>1 DEF LedgerTop
<1>2. ASSUME ledger' \in Seq(Block), Len(ledger') \in Nat \ {0}, LedgerTop' \in Block,
             \/ LedgerTop.branch < LedgerTop'.branch
             \/ LedgerTop.branch = LedgerTop'.branch /\ Len(ledger) < Len(ledger'),
             NEW h \in Seq(Block), PastHead(h)
      PROVE  PastHead(h)' /\ h # ledger'
  <2>1. CASE h = <<>>
    BY <1>2, <2>1 DEF PastHead
  <2>2. CASE h # <<>>
    <3>1. /\ Tops(h) \in Block /\ Len(h) \in Nat /\ Tops(h).branch \in Nat
          /\ LedgerTop'.branch \in Nat
      BY <1>2, <2>2, TopIsBlock DEF Block
    <3>2. Tops(h).branch <= LedgerTop.branch /\ (Tops(h).branch = LedgerTop.branch => Len(h) <= Len(ledger))
      BY <1>0, <1>2, <2>2, <3>1 DEF PastHead, Before, Tops, LedgerTop
    <3>3. \/ Tops(h).branch < LedgerTop'.branch
          \/ Tops(h).branch = LedgerTop'.branch /\ Len(h) < Len(ledger')
      BY <1>0, <1>2, <3>1, <3>2
    <3>4. h # ledger'
      BY <3>1, <3>3, <1>2 DEF Tops, LedgerTop
    <3> QED
      BY <3>3, <3>4 DEF PastHead, Before
  <2> QED
    BY <2>1, <2>2
<1>3. CASE LedgerGrows
  <2>1. PICK b \in Successors(LedgerTop, LedgerTop.branch) : ledger' = Append(ledger, b)
    BY <1>3 DEF LedgerGrows
  <2>2. b \in Block /\ b.branch = LedgerTop.branch
    BY <1>0, <2>1, SuccessorIsBlock
  <2>3. ledger' \in Seq(Block) /\ Len(ledger') = Len(ledger) + 1 /\ LedgerTop' = b /\ branches' = branches
    BY <1>0, <1>1, <1>3, <2>1, <2>2 DEF LedgerGrows
  <2> QED
    BY <1>0, <1>2, <2>2, <2>3
<1>4. CASE LedgerReorg
  <2> DEFINE base == Front(ledger)
  <2>1. Len(ledger) > 1 /\ branches' = branches + 1
    BY <1>4 DEF LedgerReorg
  <2>2. PICK b \in Successors(base[Len(base)], branches + 1) : ledger' = Append(base, b)
    BY <1>4 DEF LedgerReorg
  <2>3. base \in Seq(Block) /\ Len(base) = Len(ledger) - 1 /\ base[Len(base)] \in Block
    BY <1>0, <2>1 DEF Front
  <2> HIDE DEF base
  <2>4. b \in Block /\ b.branch = branches + 1
    BY <1>0, <2>2, <2>3, SuccessorIsBlock
  <2>5. ledger' \in Seq(Block) /\ Len(ledger') = Len(ledger) /\ LedgerTop' = b
    BY <1>0, <1>1, <2>2, <2>3, <2>4
  <2> QED
    BY <1>0, <1>2, <2>1, <2>4, <2>5
<1> QED
  BY <1>3, <1>4

(* The runtime with nothing installed.                                     *)
LEMMA NewRuntimeIsEmpty ==
    /\ NewRuntime \in Runtimes /\ NewRuntime.head = <<>> /\ NewRuntime.installed = NoKeys
    /\ \A on \in BOOLEAN : LET r == [NewRuntime EXCEPT !.serving = on]
                          IN  r \in Runtimes /\ r.head = <<>> /\ r.installed = NoKeys
<1>1. NewRuntime \in Runtimes /\ NewRuntime.head = <<>> /\ NewRuntime.installed = NoKeys
  BY DEF NewRuntime, Runtimes, Replayed
<1> QED
  BY <1>1 DEF Runtimes

(* A heartbeat that is invalidated, or a restart, leaves nothing installed *)
(* and nothing to skip.                                                    *)
LEMMA ClearedIsSafe ==
    ASSUME KeysInv, UNCHANGED <<ledger, branches>>, signer' = NoKeys, pulse' = NoPulse,
           runtime' \in Runtimes, runtime'.head = <<>>, runtime'.installed = NoKeys
    PROVE  KeysInv'
<1>1. EmptyStore \in Stores
  BY DEF EmptyStore, Stores
<1>2. pulse' \in Pulses /\ pulse'.head = <<>> /\ pulse'.step = "none"
  BY <1>1 DEF NoPulse, Pulses, Steps
<1>4. ledger' # <<>>
  BY DEF KeysInv, KeysTyped
<1>5. KeysTyped'
  BY <1>2 DEF KeysInv, KeysTyped, LedgerTop
<1>6. MarkerInv'
  BY <1>2, <1>4 DEF MarkerInv, PastHead, InStep, Moved
<1> QED
  BY <1>5, <1>6 DEF KeysInv

(* A heartbeat whose head moved.                                           *)
LEMMA AbandonIsSafe ==
    ASSUME KeysInv, UNCHANGED <<ledger, branches>>, ~InStep("none"), Moved, Abandon
    PROVE  KeysInv'
<1>1. CASE runtime.serving
  <2>1. pulse' = NoPulse /\ signer' = signer /\ runtime' = runtime
    BY <1>1 DEF Abandon
  <2>2. pulse' \in Pulses /\ pulse'.head = <<>> /\ pulse'.step = "none"
    BY <2>1 DEF NoPulse, Pulses, Steps, EmptyStore, Stores
  <2>3. KeysTyped'
    BY <2>1, <2>2 DEF KeysInv, KeysTyped, LedgerTop
  <2>4. runtime'.head # ledger' /\ PastHead(runtime.head)' /\ PastHead(pulse.head)'
    BY <2>1, <2>2 DEF KeysInv, MarkerInv, PastHead, Before, LedgerTop
  <2>5. MarkerInv'
    BY <2>1, <2>2, <2>4 DEF KeysInv, MarkerInv, InStep, Moved
  <2> QED
    BY <2>3, <2>5 DEF KeysInv
<1>2. CASE ~runtime.serving
  <2>1. runtime.serving \in BOOLEAN
    BY DEF KeysInv, KeysTyped, Runtimes
  <2> QED
    BY <1>2, <2>1, NewRuntimeIsEmpty, ClearedIsSafe DEF Abandon, Invalidate
<1> QED
  BY <1>1, <1>2

(* install_signer_shares, with a store of the heartbeat's settled round.   *)
LEMMA InstallIsSafe ==
    ASSUME KeysInv, UNCHANGED <<ledger, branches>>, ~InStep("none"), ~Moved,
           NEW s, s.keys = Settled(PulseTop), Install(s), Goto("open")
    PROVE  KeysInv'
<1>1. /\ pulse \in Pulses /\ pulse.head # <<>> /\ runtime \in Runtimes
      /\ pulse.head \in Seq(Block)
  BY DEF KeysInv, KeysTyped, MarkerInv, Pulses
<1>2. PulseTop \in Block
  BY <1>1, TopIsBlock DEF PulseTop, Tops
<1>3. Settled(PulseTop) \in Names /\ Settled(PulseTop) # NoKeys
  BY <1>2, SettledIsName
<1>4. pulse' \in Pulses /\ pulse'.head = pulse.head /\ pulse'.step = "open"
  BY <1>1 DEF Goto, Pulses, Steps
<1>5. /\ runtime' \in Runtimes /\ runtime'.head = runtime.head
      /\ runtime'.installed = Settled(PulseTop)
      /\ signer' = IF Settled(PulseTop).member THEN Settled(PulseTop) ELSE NoKeys
  BY <1>1, <1>3 DEF Install, Runtimes
<1>6. KeysTyped'
  BY <1>4, <1>5 DEF KeysInv, KeysTyped, LedgerTop
<1>7. PastHead(runtime.head)' /\ PastHead(pulse.head)' /\ PulseTop' = PulseTop /\ pulse'.head = ledger'
  BY <1>4, <1>5 DEF KeysInv, MarkerInv, PastHead, Before, LedgerTop, PulseTop, Moved
<1>8. MarkerInv'
  BY <1>1, <1>4, <1>5, <1>7 DEF MarkerInv, InStep, Moved
<1> QED
  BY <1>6, <1>8 DEF KeysInv

(* The open round's part of a heartbeat leaves what is installed.          *)
LEMMA OpenPartIsSafe ==
    ASSUME KeysInv, UNCHANGED <<ledger, branches, signer>>, InStep("open"), Goto("finish"),
           NEW a \in Replayed, NEW r \in Replayed,
           runtime' = [runtime EXCEPT !.active = a, !.recovery = r]
    PROVE  KeysInv'
<1>1. pulse \in Pulses /\ runtime \in Runtimes
  BY DEF KeysInv, KeysTyped
<1>2. pulse' \in Pulses /\ pulse'.head = pulse.head /\ pulse'.step = "finish"
  BY <1>1 DEF Goto, Pulses, Steps
<1>3. runtime' \in Runtimes /\ runtime'.head = runtime.head /\ runtime'.installed = runtime.installed
  BY <1>1 DEF Runtimes
<1>4. KeysTyped'
  BY <1>2, <1>3 DEF KeysInv, KeysTyped, LedgerTop
<1>5. PastHead(runtime.head)' /\ PastHead(pulse.head)' /\ PulseTop' = PulseTop
  BY <1>2, <1>3 DEF KeysInv, MarkerInv, PastHead, Before, LedgerTop, PulseTop
<1>6. MarkerInv'
  BY <1>2, <1>3, <1>5 DEF KeysInv, MarkerInv, InStep, Moved
<1> QED
  BY <1>4, <1>6 DEF KeysInv

(* A heartbeat starts.                                                     *)
LEMMA StartIsSafe ==
    ASSUME KeysInv, NEW reorg, StartPulse(reorg)
    PROVE  KeysInv'
<1> DEFINE detached == runtime.head # <<>> /\ ~IsPrefix(runtime.head, ledger)
           reset == reorg \/ detached
<1>1. /\ InStep("none") /\ ledger' = ledger /\ branches' = branches
      /\ pulse' = [NoPulse EXCEPT !.head = ledger, !.step = "settled", !.reset = reset]
      /\ signer' = IF reset THEN NoKeys ELSE signer
      /\ runtime' = IF reset THEN [runtime EXCEPT !.installed = NoKeys] ELSE runtime
  BY DEF StartPulse
<1>2. reset \in BOOLEAN
  OBVIOUS
<1> HIDE DEF reset
<1>3. /\ runtime \in Runtimes /\ ledger \in Seq(Block) /\ ledger # <<>>
  BY DEF KeysInv, KeysTyped
<1>4. /\ runtime' \in Runtimes /\ runtime'.head = runtime.head
      /\ runtime'.installed = IF reset THEN NoKeys ELSE runtime.installed
  BY <1>1, <1>3 DEF Runtimes
<1>5. pulse' \in Pulses /\ pulse'.head = ledger /\ pulse'.step = "settled"
  <2>1. NoPulse \in Pulses
    BY DEF NoPulse, Pulses, Steps, EmptyStore, Stores
  <2> QED
    BY <1>1, <1>2, <1>3, <2>1 DEF Pulses, Steps
<1>6. KeysTyped'
  BY <1>1, <1>4, <1>5 DEF KeysInv, KeysTyped, LedgerTop
<1>7. PastHead(runtime.head)' /\ PastHead(pulse.head)'
  BY <1>1, <1>4, <1>5 DEF KeysInv, MarkerInv, PastHead, Before, LedgerTop
<1>8. runtime'.installed # NoKeys =>
          signer' = IF runtime'.installed.member THEN runtime'.installed ELSE NoKeys
  BY <1>1, <1>4 DEF KeysInv, MarkerInv
<1>9. MarkerInv'
  BY <1>1, <1>3, <1>5, <1>7, <1>8 DEF MarkerInv, InStep, Moved
<1> QED
  BY <1>6, <1>9 DEF KeysInv

(* Every step of the chain, the heartbeats and restarts keeps it.          *)
LEMMA KeysStep ==
    ASSUME KeysInv, [SettledNext]_keyVars
    PROVE  KeysInv'
<1>0. /\ runtime \in Runtimes /\ pulse \in Pulses /\ runtime.serving \in BOOLEAN
      /\ pulse.head \in Seq(Block)
  BY DEF KeysInv, KeysTyped, Runtimes, Pulses
<1>b. ASSUME ~InStep("none") PROVE PulseTop \in Block
  BY <1>b, <1>0, TopIsBlock DEF KeysInv, MarkerInv, PulseTop, Tops
<1>1. ASSUME NEW reorg \in {FALSE, lagging}, StartPulse(reorg) PROVE KeysInv'
  BY <1>1, StartIsSafe
<1>2. CASE KeepStore
  <2>0. InStep("settled") /\ ~InStep("none") /\ UNCHANGED <<ledger, branches>> /\ live.keys = Settled(PulseTop)
    BY <1>2 DEF KeepStore, InStep, Valid
  <2>1. CASE runtime.installed = Settled(PulseTop)
    <3>1. Goto("open") /\ signer' = signer /\ runtime' = runtime
      BY <1>2, <2>1 DEF KeepStore
    <3>2. pulse' \in Pulses /\ pulse'.head = pulse.head /\ pulse'.step = "open"
      BY <1>0, <3>1 DEF Goto, Pulses, Steps
    <3>3. KeysTyped'
      BY <2>0, <3>1, <3>2 DEF KeysInv, KeysTyped, LedgerTop
    <3>4. PastHead(runtime.head)' /\ PastHead(pulse.head)' /\ PulseTop' = PulseTop
      BY <2>0, <3>1, <3>2 DEF KeysInv, MarkerInv, PastHead, Before, LedgerTop, PulseTop
    <3>5. MarkerInv'
      BY <2>0, <2>1, <3>1, <3>2, <3>4 DEF KeysInv, MarkerInv, InStep, Moved
    <3> QED
      BY <3>3, <3>5 DEF KeysInv
  <2>2. CASE runtime.installed # Settled(PulseTop) /\ Moved
    BY <1>2, <2>0, <2>2, AbandonIsSafe DEF KeepStore
  <2>3. CASE runtime.installed # Settled(PulseTop) /\ ~Moved
    <3>1. Install(live) /\ Goto("open")
      BY <1>2, <2>3 DEF KeepStore
    <3> QED
      BY <2>0, <2>3, <3>1, InstallIsSafe
  <2> QED
    BY <2>1, <2>2, <2>3
<1>3. CASE RebuildStore
  <2>0. InStep("settled") /\ ~InStep("none") /\ UNCHANGED <<ledger, branches>>
    BY <1>3 DEF RebuildStore, InStep
  <2>1. CASE KeepsMessages
    <3> DEFINE new == Rebuilt(PulseTop)
    <3>1. /\ signer' = NoKeys /\ runtime' = [runtime EXCEPT !.installed = NoKeys]
          /\ pulse' = [pulse EXCEPT !.step = "saved", !.store = new]
      BY <1>3, <2>1 DEF RebuildStore
    <3>2. PulseTop \in Block
      BY <1>b, <2>0
    <3>3. new \in Stores /\ new.keys = Settled(PulseTop)
      <4>1. PulseTop.round - 1 + 1 \in Int
        BY <3>2 DEF Block
      <4>2. Settled(PulseTop) \in Names
        BY <3>2, SettledIsName
      <4> QED
        BY <4>1, <4>2 DEF Rebuilt, OnEpochChange, OnSharePeriodStart, Baseline, EmptyStore, Stores
    <3> HIDE DEF new
    <3>4. /\ pulse' \in Pulses /\ pulse'.head = pulse.head /\ pulse'.step = "saved"
          /\ pulse'.store.keys = Settled(PulseTop)
      BY <1>0, <3>1, <3>3 DEF Pulses, Steps
    <3>5. runtime' \in Runtimes /\ runtime'.head = runtime.head /\ runtime'.installed = NoKeys
      BY <1>0, <3>1 DEF Runtimes
    <3>6. KeysTyped'
      BY <2>0, <3>4, <3>5 DEF KeysInv, KeysTyped, LedgerTop
    <3>7. PastHead(runtime.head)' /\ PastHead(pulse.head)' /\ PulseTop' = PulseTop
      BY <2>0, <3>4, <3>5 DEF KeysInv, MarkerInv, PastHead, Before, LedgerTop, PulseTop
    <3>8. MarkerInv'
      BY <2>0, <3>4, <3>5, <3>7 DEF KeysInv, MarkerInv, InStep, Moved
    <3> QED
      BY <3>6, <3>8 DEF KeysInv
  <2>2. CASE ~KeepsMessages
    BY <1>0, <1>3, <2>0, <2>2, NewRuntimeIsEmpty, ClearedIsSafe DEF RebuildStore, Invalidate
  <2> QED
    BY <2>1, <2>2
<1>4. CASE AdoptStore
  <2>0. /\ InStep("saved") /\ ~InStep("none") /\ UNCHANGED <<ledger, branches>>
        /\ pulse.store.keys = Settled(PulseTop)
    BY <1>4 DEF AdoptStore, InStep, KeysInv, MarkerInv
  <2>1. CASE Moved
    BY <1>4, <2>0, <2>1, AbandonIsSafe DEF AdoptStore
  <2>2. CASE ~Moved
    <3>1. Install(pulse.store) /\ Goto("open")
      BY <1>4, <2>2 DEF AdoptStore
    <3> QED
      BY <2>0, <2>2, <3>1, InstallIsSafe
  <2> QED
    BY <2>1, <2>2
<1>5. ASSUME NEW a \in Replayed, NEW r \in Replayed, InStep("open"), Goto("finish"),
             UNCHANGED <<ledger, branches, signer>>,
             runtime' = [runtime EXCEPT !.active = a, !.recovery = r]
      PROVE  KeysInv'
  BY <1>5, OpenPartIsSafe
<1>6. NoKeys \in Replayed /\ runtime.active \in Replayed /\ runtime.recovery \in Replayed
  BY <1>0 DEF Replayed, Runtimes
<1>7. CASE ReplayUnsaved \/ DropFails
  <2>1. /\ InStep("open") /\ Goto("finish") /\ UNCHANGED <<ledger, branches, signer>>
        /\ runtime' = [runtime EXCEPT !.active = NoKeys, !.recovery = NoKeys]
    BY <1>7 DEF ReplayUnsaved, DropFails, SuspendTasks
  <2> QED
    BY <1>5, <1>6, <2>1
<1>8. CASE DropOpen
  <2>1. InStep("open") /\ Goto("finish") /\ UNCHANGED <<ledger, branches, signer>>
    BY <1>8 DEF DropOpen
  <2>2. \/ runtime' = [runtime EXCEPT !.active = NoKeys, !.recovery = NoKeys]
        \/ runtime' = runtime
    BY <1>8 DEF DropOpen
  <2>3. runtime = [runtime EXCEPT !.active = runtime.active, !.recovery = runtime.recovery]
    BY <1>0 DEF Runtimes
  <2> QED
    BY <1>5, <1>6, <2>1, <2>2, <2>3
<1>9. CASE ReplayOpen
  <2>1. InStep("open") /\ Goto("finish") /\ UNCHANGED <<ledger, branches, signer>>
    BY <1>9 DEF ReplayOpen
  <2>2. \/ SuspendTasks
        \/ runtime' = [runtime EXCEPT !.active = ActiveSet(PulseTop),
                           !.recovery = IF ReadsRecovery(PulseTop) THEN RecoverySet(PulseTop) ELSE @]
    BY <1>9 DEF ReplayOpen
  <2>3. PulseTop \in Block
    BY <1>b, <2>1 DEF InStep
  <2>4. ActiveSet(PulseTop) \in Replayed /\ RecoverySet(PulseTop) \in Replayed
    BY <2>3 DEF ActiveSet, RecoverySet, Replayed, Block
  <2> DEFINE r == IF ReadsRecovery(PulseTop) THEN RecoverySet(PulseTop) ELSE runtime.recovery
  <2>5. r \in Replayed
    BY <1>6, <2>4
  <2>6. \/ runtime' = [runtime EXCEPT !.active = NoKeys, !.recovery = NoKeys]
        \/ runtime' = [runtime EXCEPT !.active = ActiveSet(PulseTop), !.recovery = r]
    BY <1>0, <2>2 DEF SuspendTasks, Runtimes
  <2> HIDE DEF r
  <2> QED
    BY <1>5, <1>6, <2>1, <2>4, <2>5, <2>6
<1>10. CASE FinishPulse
  <2>0. InStep("finish") /\ ~InStep("none") /\ UNCHANGED <<ledger, branches>>
    BY <1>10 DEF FinishPulse, InStep
  <2>1. CASE Moved
    BY <1>10, <2>0, <2>1, AbandonIsSafe DEF FinishPulse
  <2>2. CASE ~Moved
    <3>1. /\ pulse' = NoPulse /\ signer' = signer
          /\ runtime' = [runtime EXCEPT !.head = ledger, !.serving = TRUE]
      BY <1>10, <2>2 DEF FinishPulse
    <3>2. pulse' \in Pulses /\ pulse'.head = <<>> /\ pulse'.step = "none"
      BY <3>1 DEF NoPulse, Pulses, Steps, EmptyStore, Stores
    <3>3. ledger \in Seq(Block)
      BY DEF KeysInv, KeysTyped
    <3>4. runtime' \in Runtimes /\ runtime'.head = ledger /\ runtime'.installed = runtime.installed
      BY <1>0, <3>1, <3>3 DEF Runtimes
    <3>5. KeysTyped'
      BY <2>0, <3>2, <3>4 DEF KeysInv, KeysTyped, LedgerTop
    <3>6. runtime'.installed = Settled(LedgerTop)' /\ PastHead(runtime.head)' /\ PastHead(pulse.head)'
      BY <2>0, <2>2, <3>2, <3>4 DEF KeysInv, MarkerInv, Moved, PulseTop, LedgerTop, Settled, PastHead
    <3>7. MarkerInv'
      BY <2>0, <3>1, <3>2, <3>4, <3>6 DEF KeysInv, MarkerInv, InStep
    <3> QED
      BY <3>5, <3>7 DEF KeysInv
  <2> QED
    BY <2>1, <2>2
<1>11. CASE PulseFails
  BY <1>0, <1>11, NewRuntimeIsEmpty, ClearedIsSafe DEF PulseFails, Invalidate
<1>12. CASE CrashKeys
  BY <1>12, NewRuntimeIsEmpty, ClearedIsSafe DEF CrashKeys
<1>13. CASE LedgerGrows \/ LedgerReorg
  <2>1. UNCHANGED <<signer, runtime, pulse>>
    BY <1>13 DEF LedgerGrows, LedgerReorg
  <2>2. /\ runtime.head \in Seq(Block) /\ PastHead(runtime.head) /\ PastHead(pulse.head)
    BY <1>0 DEF Runtimes, KeysInv, MarkerInv
  <2>3. KeysTyped'
    BY <1>13, <2>1, LedgerMoves DEF KeysInv, KeysTyped
  <2>4. ASSUME NEW h \in Seq(Block), PastHead(h)
        PROVE  /\ \/ h = <<>>
                  \/ h = ledger'
                  \/ Tops(h).branch < LedgerTop'.branch
                  \/ (Tops(h).branch = LedgerTop'.branch /\ Len(h) < Len(ledger'))
               /\ h # ledger'
    BY <1>13, <2>4, LedgerMoves DEF PastHead, Before, Tops
  <2>a. PastHead(runtime.head)' /\ runtime'.head # ledger'
    BY <2>1, <2>2, <2>4 DEF PastHead, Before, Tops
  <2>b. PastHead(pulse.head)'
    BY <1>0, <2>1, <2>2, <2>4 DEF PastHead, Before, Tops
  <2>5. PulseTop' = PulseTop
    BY <2>1 DEF PulseTop
  <2>6. MarkerInv'
    BY <2>1, <2>a, <2>b, <2>5 DEF KeysInv, MarkerInv, InStep
  <2> QED
    BY <2>3, <2>6 DEF KeysInv
<1>14. CASE UNCHANGED keyVars
  BY <1>14 DEF keyVars, KeysInv, KeysTyped, MarkerInv, PastHead, Before, LedgerTop, PulseTop, InStep, Moved
<1> QED
  BY <1>1, <1>2, <1>3, <1>4, <1>7, <1>8, <1>9, <1>10, <1>11, <1>12, <1>13, <1>14 DEF SettledNext, Pulse

(* The signer's share and the marker follow from the invariant.            *)
LEMMA KeysInvSuffices == KeysInv => SignerFitsHead /\ MarkerTruthful
<1> SUFFICES ASSUME KeysInv PROVE SignerFitsHead /\ MarkerTruthful
  OBVIOUS
<1>1. LedgerTop \in Block
  BY TopIsBlock DEF KeysInv, KeysTyped, LedgerTop, Tops
<1>2. Settled(LedgerTop) # NoKeys /\ Settled(LedgerTop).member = LedgerTop.member
  BY <1>1, SettledIsName
<1>3. SignerFitsHead
  BY <1>2 DEF SignerFitsHead, KeysInv, MarkerInv, Wanted
<1>4. MarkerTruthful
  BY DEF MarkerTruthful, KeysInv, MarkerInv
<1> QED
  BY <1>3, <1>4

(* Whatever the chain does while a heartbeat reads, saves and installs,    *)
(* and wherever it fails or the process restarts: after a success for the  *)
(* canonical head the signer has the share of its settled round, or none   *)
(* if the validator is not in its set.                                     *)
THEOREM SignerFollowsHead == SettledSpec => []SignerFitsHead
<1>1. SettledInit => KeysInv
  BY KeysStart
<1>2. KeysInv /\ [SettledNext]_keyVars => KeysInv'
  BY KeysStep
<1>3. KeysInv => SignerFitsHead
  BY KeysInvSuffices
<1> QED
  BY <1>1, <1>2, <1>3, PTL DEF SettledSpec

(* The marker that skips an installation never stands for a member's share *)
(* that is not there.                                                      *)
THEOREM MarkerIsTruthful == SettledSpec => []MarkerTruthful
<1>1. SettledInit => KeysInv
  BY KeysStart
<1>2. KeysInv /\ [SettledNext]_keyVars => KeysInv'
  BY KeysStep
<1>3. KeysInv => MarkerTruthful
  BY KeysInvSuffices
<1> QED
  BY <1>1, <1>2, <1>3, PTL DEF SettledSpec
=============================================================================
