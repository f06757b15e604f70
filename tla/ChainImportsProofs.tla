------------------------- MODULE ChainImportsProofs -------------------------
(***************************************************************************)
(* The canonical head only rises while there is one copy of each block,    *)
(* for any seals, any height and any number of imports under way.          *)
(***************************************************************************)
EXTENDS ChainImports, SequenceTheorems, TLAPS

(* Blocks are sequences.                                                   *)
LEMMA ChainIsSeq ==
    ASSUME NEW b \in Chains
    PROVE  b \in Seq(Seals) /\ Len(b) \in Nat
<1>1. PICK n \in 0 .. TopHeight : b \in [1 .. n -> Seals]
  BY DEF Chains
<1>2. n \in Nat
  BY <1>1, ChainAssumption
<1> QED
  BY <1>1, <1>2

(* The ancestor of a block at a height, and its ancestors.                 *)
LEMMA Ancestor ==
    ASSUME NEW b \in Seq(Seals), NEW n \in 0 .. Len(b)
    PROVE  /\ SubSeq(b, 1, n) \in Seq(Seals)
           /\ Len(SubSeq(b, 1, n)) = n
           /\ SubSeq(b, 1, n) \in Prefixes(b)
           /\ \A m \in 0 .. n : SubSeq(SubSeq(b, 1, n), 1, m) = SubSeq(b, 1, m)
<1>1. Len(b) \in Nat /\ n \in Nat
  OBVIOUS
<1>2. SubSeq(b, 1, n) \in Seq(Seals) /\ Len(SubSeq(b, 1, n)) = n
  BY <1>1
<1>3. \A i \in 1 .. n : SubSeq(b, 1, n)[i] = b[i]
  BY <1>1
<1>4. ASSUME NEW m \in 0 .. n
      PROVE  SubSeq(SubSeq(b, 1, n), 1, m) = SubSeq(b, 1, m)
  <2> DEFINE u == SubSeq(b, 1, n)
             v == SubSeq(u, 1, m)
             w == SubSeq(b, 1, m)
  <2>1. v \in Seq(Seals) /\ Len(v) = m /\ \A i \in 1 .. m : v[i] = u[i]
    BY <1>1, <1>2
  <2>2. w \in Seq(Seals) /\ Len(w) = m /\ \A i \in 1 .. m : w[i] = b[i]
    BY <1>1
  <2>3. \A i \in 1 .. m : v[i] = w[i]
    BY <1>1, <1>3, <2>1, <2>2
  <2> HIDE DEF v, w
  <2> QED
    BY <2>1, <2>2, <2>3, SeqEqual
<1> QED
  BY <1>1, <1>2, <1>4 DEF Prefixes

(* Two blocks of which one is an ancestor of the other agree below it.     *)
LEMMA PrefixIsAncestor ==
    ASSUME NEW b \in Seq(Seals), NEW c \in Seq(Seals)
    PROVE  IsPrefix(b, c) <=> Len(b) \in 0 .. Len(c) /\ b = SubSeq(c, 1, Len(b))
<1>1. SubSeq(b, 1, Len(b)) = b
  BY SubSeqFull
<1>2. Len(b) \in Nat /\ Len(c) \in Nat
  OBVIOUS
<1> QED
  BY <1>1, <1>2 DEF IsPrefix

(* The Engine's tree is closed under ancestors; it holds the head and not  *)
(* the head to sync to.                                                    *)
EngineInv ==
    /\ tree \subseteq Chains /\ buffer \subseteq Chains
    /\ \A b \in tree : Prefixes(b) \subseteq tree
    /\ head \in tree
    /\ target \in (Chains \cup {NoBlock}) \ tree

(* What the driver sends to the Engine are blocks.                         *)
DriverInv ==
    /\ submitted \in Chains \cup {NoBlock}
    /\ claims \subseteq Chains /\ jobs \in Seq(Chains)
    /\ imports \subseteq [kind : {"propagated", "committed"}, block : Chains,
                          step : {"parent", "payload", "choice", "target"}]

(* HeadOnlyRises, of one step.                                             *)
Rises ==
    head' # head /\ (\A b, c \in tree' : Len(b) = Len(c) => b = c) => Len(head') > Len(head)

(* The ancestors of a block whose parent is in the tree.                   *)
LEMMA AncestorsOfLinked ==
    ASSUME EngineInv, NEW b \in Chains, Linked(b)
    PROVE  Prefixes(b) \subseteq tree \cup {b}
<1>1. CASE b \in tree
  BY <1>1 DEF EngineInv
<1>2. CASE b \notin tree
  <2>1. Front(b) \in tree
    BY <1>2 DEF Linked
  <2>2. b \in Seq(Seals) /\ Len(b) \in Nat /\ SubSeq(b, 1, Len(b)) = b
    BY ChainIsSeq, SubSeqFull
  <2>3. Len(b) # 0
    <3> SUFFICES ASSUME Len(b) = 0 PROVE FALSE
      OBVIOUS
    <3>1. b = <<>> /\ SubSeq(b, 1, Len(b) - 1) = <<>>
      BY <2>2
    <3> QED
      BY <3>1, <2>1, <1>2 DEF Front
  <2> SUFFICES ASSUME NEW l \in 0 .. Len(b)
               PROVE  SubSeq(b, 1, l) \in tree \cup {b}
    BY DEF Prefixes
  <2>4. CASE l = Len(b)
    BY <2>2, <2>4
  <2>5. CASE l # Len(b)
    <3> DEFINE n == Len(b)
    <3>0. n \in Nat /\ n # 0 /\ l \in 0 .. n /\ l # n
      BY <2>2, <2>3, <2>5
    <3> HIDE DEF n
    <3>a. n - 1 \in 0 .. n /\ l \in 0 .. n - 1
      BY <3>0
    <3>1. Len(b) - 1 \in 0 .. Len(b) /\ l \in 0 .. Len(b) - 1
      BY <3>a DEF n
    <3>2. Front(b) \in Seq(Seals) /\ Len(Front(b)) = Len(b) - 1 /\ SubSeq(Front(b), 1, l) = SubSeq(b, 1, l)
      BY <2>2, <3>1, Ancestor DEF Front
    <3>3. SubSeq(Front(b), 1, l) \in Prefixes(Front(b))
      BY <3>1, <3>2, Ancestor
    <3> QED
      BY <2>1, <3>2, <3>3 DEF EngineInv
  <2> QED
    BY <2>4, <2>5
<1> QED
  BY <1>1, <1>2

(* The ancestors of a buffered block that b connects.                      *)
LEMMA AncestorsOfWaiting ==
    ASSUME EngineInv, NEW b \in Chains, NEW c \in Waiting(b)
    PROVE  Prefixes(c) \subseteq Prefixes(b) \cup Waiting(b)
<1>1. c \in Chains /\ c \in buffer /\ IsPrefix(b, c) /\ b # c
  BY DEF EngineInv, Waiting, IsStrictPrefix
<1>2. /\ b \in Seq(Seals) /\ Len(b) \in Nat
      /\ c \in Seq(Seals) /\ Len(c) \in Nat
  BY <1>1, ChainIsSeq
<1>3. Len(b) \in 0 .. Len(c) /\ b = SubSeq(c, 1, Len(b))
  BY <1>1, <1>2, PrefixIsAncestor
<1> SUFFICES ASSUME NEW l \in 0 .. Len(c)
             PROVE  SubSeq(c, 1, l) \in Prefixes(b) \cup Waiting(b)
  BY DEF Prefixes
<1> DEFINE p == SubSeq(c, 1, l)
<1>4. p \in Seq(Seals) /\ Len(p) = l /\ p \in Prefixes(c) /\ l \in Nat
  BY <1>2, Ancestor
<1>5. CASE l <= Len(b)
  <2>1. l \in 0 .. Len(b)
    BY <1>5, <1>2
  <2>2. SubSeq(SubSeq(c, 1, Len(b)), 1, l) = p
    BY <1>2, <1>3, <2>1, Ancestor
  <2>3. SubSeq(b, 1, l) = p
    BY <2>2, <1>3
  <2> QED
    BY <2>1, <2>3, <1>2, Ancestor
<1>6. CASE l > Len(b)
  <2>1. ASSUME NEW q \in Prefixes(p) PROVE q \in Prefixes(c)
    <3>1. PICK m \in 0 .. Len(p) : q = SubSeq(p, 1, m)
      BY DEF Prefixes
    <3>2. m \in 0 .. l /\ m \in 0 .. Len(c)
      BY <1>2, <1>4
    <3>3. q = SubSeq(c, 1, m)
      BY <1>2, <3>1, <3>2, Ancestor
    <3> QED
      BY <1>2, <3>2, <3>3, Ancestor
  <2>2. IsPrefix(b, p) /\ b # p
    <3>1. Len(b) \in 0 .. l
      BY <1>6, <1>2, <1>4
    <3>2. SubSeq(p, 1, Len(b)) = SubSeq(c, 1, Len(b))
      BY <1>2, <3>1, Ancestor
    <3>3. Len(b) \in 0 .. Len(p) /\ b = SubSeq(p, 1, Len(b))
      BY <3>1, <3>2, <1>3, <1>4
    <3> HIDE DEF p
    <3> QED
      BY <1>2, <1>4, <1>6, <3>3, PrefixIsAncestor
  <2> HIDE DEF p
  <2>3. p \in buffer
    BY <2>2, <1>4 DEF Waiting, IsStrictPrefix
  <2>4. \A q \in Prefixes(p) : IsStrictPrefix(b, q) => q \in buffer
    BY <2>1 DEF Waiting
  <2> QED
    BY <2>2, <2>3, <2>4 DEF Waiting, IsStrictPrefix, p
<1> QED
  BY <1>2, <1>4, <1>5, <1>6

(* A block off the canonical chain is above the head if the tree has one   *)
(* copy of each height.                                                    *)
LEMMA OffChainIsHigher ==
    ASSUME EngineInv, NEW T, tree \subseteq T, \A b, c \in T : Len(b) = Len(c) => b = c,
           NEW d \in Chains, d \in T, ~IsPrefix(d, head)
    PROVE  Len(d) > Len(head)
<1>1. head \in Chains
  BY DEF EngineInv
<1>2. d \in Seq(Seals) /\ Len(d) \in Nat /\ head \in Seq(Seals) /\ Len(head) \in Nat
  BY <1>1, ChainIsSeq
<1> SUFFICES ASSUME Len(d) <= Len(head) PROVE FALSE
  BY <1>2
<1>3. Len(d) \in 0 .. Len(head)
  BY <1>2
<1> DEFINE p == SubSeq(head, 1, Len(d))
<1>4. p \in Prefixes(head) /\ Len(p) = Len(d)
  BY <1>2, <1>3, Ancestor
<1>5. p \in T
  BY <1>4 DEF EngineInv
<1>6. p = d
  BY <1>4, <1>5
<1> QED
  BY <1>2, <1>3, <1>6, PrefixIsAncestor

(* What is not in the tree is not on the canonical chain.                  *)
LEMMA UnknownIsOffChain ==
    ASSUME EngineInv, NEW d \in Chains, d \notin tree
    PROVE  ~IsPrefix(d, head)
<1>1. head \in Chains /\ Prefixes(head) \subseteq tree
  BY DEF EngineInv
<1>2. d \in Seq(Seals) /\ head \in Seq(Seals)
  BY <1>1, ChainIsSeq
<1> SUFFICES ASSUME IsPrefix(d, head) PROVE FALSE
  OBVIOUS
<1>3. Len(d) \in 0 .. Len(head) /\ d = SubSeq(head, 1, Len(d))
  BY <1>2, PrefixIsAncestor
<1>4. SubSeq(head, 1, Len(d)) \in Prefixes(head)
  BY <1>2, <1>3, Ancestor
<1> QED
  BY <1>1, <1>3, <1>4

(* A block becomes the head only from off the canonical chain.             *)
LEMMA NewHeadRises ==
    ASSUME EngineInv, tree \subseteq tree', NEW d \in Chains, d \in tree', ~IsPrefix(d, head), head' = d
    PROVE  Rises
<1> SUFFICES ASSUME \A b, c \in tree' : Len(b) = Len(c) => b = c
             PROVE  Len(d) > Len(head)
  BY DEF Rises
<1> QED
  BY OffChainIsHigher

(* insert_block_or_payload of a linked block, buffered children included.  *)
LEMMA InsertIsSafe ==
    ASSUME EngineInv, NEW b \in Chains, Linked(b), InsertLinked(b)
    PROVE  EngineInv' /\ Rises
<1> DEFINE added == IF b \in tree THEN {b} ELSE {b} \cup Waiting(b)
<1>1. /\ tree' = tree \cup added /\ buffer' = buffer \ added
      /\ IF target \in added /\ head # target THEN MakeCanonical(target) ELSE UNCHANGED <<head, target>>
  BY DEF InsertLinked
<1>2. added \subseteq Chains /\ b \in added
  BY DEF EngineInv, Waiting
<1>3. ASSUME NEW c \in tree' PROVE Prefixes(c) \subseteq tree'
  <2>1. CASE c \in tree
    BY <1>1, <2>1 DEF EngineInv
  <2>2. CASE c = b
    BY <1>1, <1>2, <2>2, AncestorsOfLinked
  <2>3. CASE b \notin tree /\ c \in Waiting(b)
    <3>1. Prefixes(c) \subseteq Prefixes(b) \cup Waiting(b)
      BY <2>3, AncestorsOfWaiting
    <3>2. Prefixes(b) \subseteq tree \cup {b}
      BY AncestorsOfLinked
    <3> QED
      BY <1>1, <2>3, <3>1, <3>2
  <2> QED
    BY <1>1, <2>1, <2>2, <2>3
<1> HIDE DEF added
<1>4. CASE target \in added
  <2>1. target \in Chains /\ target \notin tree /\ head \in tree
    BY <1>2, <1>4 DEF EngineInv
  <2>2. head' = target /\ target' = NoBlock
    BY <1>1, <1>4, <2>1 DEF MakeCanonical
  <2>3. Rises
    BY <1>1, <1>4, <2>1, <2>2, UnknownIsOffChain, NewHeadRises
  <2>4. NoBlock \notin Chains
    BY ChainAssumption DEF Chains
  <2> QED
    BY <1>1, <1>2, <1>3, <1>4, <2>2, <2>3, <2>4 DEF EngineInv
<1>5. CASE target \notin added
  <2>1. head' = head /\ target' = target
    BY <1>1, <1>5
  <2> QED
    BY <1>1, <1>2, <1>3, <1>5, <2>1 DEF EngineInv, Rises
<1> QED
  BY <1>4, <1>5

(* on_new_payload                                                          *)
LEMMA PayloadIsSafe ==
    ASSUME EngineInv, NEW b \in Chains, NewPayload(b)
    PROVE  EngineInv' /\ Rises
<1>1. CASE Linked(b)
  BY <1>1, InsertIsSafe DEF NewPayload
<1>2. CASE ~Linked(b)
  BY <1>2 DEF NewPayload, EngineInv, Rises
<1> QED
  BY <1>1, <1>2

(* on_forkchoice_updated                                                   *)
LEMMA ForkChoiceIsSafe ==
    ASSUME EngineInv, NEW b \in Chains, NEW same, ForkChoice(b, same)
    PROVE  EngineInv' /\ Rises
<1>0. NoBlock \notin Chains
  BY ChainAssumption DEF Chains
<1>1. CASE OnCanonical(b, same)
  BY <1>0, <1>1 DEF OnCanonical, EngineInv, Rises
<1>2. CASE OnNewHead(b, same)
  <2>1. Rises
    BY <1>2, NewHeadRises DEF OnNewHead
  <2> QED
    BY <1>0, <1>2, <2>1 DEF OnNewHead, EngineInv
<1>3. CASE OnMissing(b)
  BY <1>3 DEF OnMissing, EngineInv, Rises
<1> QED
  BY <1>1, <1>2, <1>3 DEF ForkChoice

(* on_downloaded_block                                                     *)
LEMMA DownloadIsSafe ==
    ASSUME EngineInv, NEW b \in Chains, Downloaded(b)
    PROVE  EngineInv' /\ Rises
<1>0. NoBlock \notin Chains
  BY ChainAssumption DEF Chains
<1>1. CASE b \in tree
  BY <1>1 DEF Downloaded, EngineInv, Rises
<1>2. CASE b \notin tree /\ Front(b) \in tree /\ target = b
  <2>1. tree' = tree \cup {b} /\ head' = b /\ target' = NoBlock /\ buffer' = buffer
    BY <1>2 DEF Downloaded, MakeCanonical
  <2>2. Rises
    BY <1>2, <2>1, UnknownIsOffChain, NewHeadRises
  <2>3. Prefixes(b) \subseteq tree'
    BY <1>2, <2>1, AncestorsOfLinked DEF Linked
  <2> QED
    BY <1>0, <2>1, <2>2, <2>3 DEF EngineInv
<1>3. CASE b \notin tree /\ Front(b) \in tree /\ target # b
  <2>1. Linked(b) /\ InsertLinked(b)
    BY <1>3 DEF Downloaded, Linked
  <2> QED
    BY <2>1, InsertIsSafe
<1>4. CASE b \notin tree /\ Front(b) \notin tree
  BY <1>4 DEF Downloaded, EngineInv, Rises
<1> QED
  BY <1>1, <1>2, <1>3, <1>4

(* The parent of a block is a block.                                       *)
LEMMA FrontIsChain ==
    ASSUME NEW b \in Chains
    PROVE  Front(b) \in Chains
<1>1. PICK n \in 0 .. TopHeight : b \in [1 .. n -> Seals]
  BY DEF Chains
<1>2. n \in Nat /\ b \in Seq(Seals) /\ Len(b) = n
  BY <1>1, ChainAssumption
<1>3. CASE n = 0
  <2>1. Front(b) = <<>> /\ b = <<>>
    BY <1>2, <1>3 DEF Front
  <2> QED
    BY <2>1
<1>4. CASE n # 0
  <2>1. n - 1 \in 0 .. n /\ n - 1 \in 0 .. TopHeight
    BY <1>2, <1>4, ChainAssumption
  <2>2. Front(b) \in Seq(Seals) /\ Len(Front(b)) = n - 1
    BY <1>2, <2>1, Ancestor DEF Front
  <2>3. Front(b) \in [1 .. n - 1 -> Seals]
    BY <2>2, LenProperties
  <2> QED
    BY <2>1, <2>3 DEF Chains
<1> QED
  BY <1>3, <1>4

(* The first tree has the genesis block only.                              *)
LEMMA ChainStart == ChainInit => EngineInv /\ DriverInv
<1> SUFFICES ASSUME ChainInit PROVE EngineInv /\ DriverInv
  OBVIOUS
<1>1. <<>> \in Chains
  <2>1. 0 \in 0 .. TopHeight
    BY ChainAssumption
  <2>2. <<>> \in [1 .. 0 -> Seals]
    OBVIOUS
  <2> QED
    BY <2>1, <2>2 DEF Chains
<1>2. Prefixes(<<>>) \subseteq {<<>>}
  <2> SUFFICES ASSUME NEW l \in 0 .. Len(<<>>) PROVE SubSeq(<<>>, 1, l) = <<>>
    BY DEF Prefixes
  <2>1. l = 0 /\ <<>> \in Seq(Seals)
    OBVIOUS
  <2> QED
    BY <2>1
<1>3. NoBlock \notin Chains
  BY ChainAssumption DEF Chains
<1>4. EngineInv
  BY <1>1, <1>2, <1>3 DEF ChainInit, EngineInv
<1>5. DriverInv
  BY DEF ChainInit, DriverInv
<1> QED
  BY <1>4, <1>5

(* Every step keeps the tree closed and the head rising.                   *)
LEMMA ChainStep ==
    ASSUME EngineInv, DriverInv, [ChainNext]_chainVars
    PROVE  EngineInv' /\ DriverInv' /\ Rises
<1>0. Sealed \subseteq Chains
  BY DEF Sealed
<1> DEFINE Still == UNCHANGED engineVars
<1>a. ASSUME Still PROVE EngineInv' /\ Rises
  BY <1>a DEF engineVars, EngineInv, Rises
<1>1. ASSUME NEW b \in Sealed, Downloaded(b)
      PROVE  EngineInv' /\ DriverInv' /\ Rises
  <2>1. EngineInv' /\ Rises
    BY <1>0, <1>1, DownloadIsSafe
  <2>2. DriverInv'
    BY <1>1 DEF Downloaded, driverVars, DriverInv
  <2> QED
    BY <2>1, <2>2
<1>2. ASSUME NEW b \in Sealed, Announced(b)
      PROVE  EngineInv' /\ DriverInv' /\ Rises
  <2>1. DriverInv'
    BY <1>0, <1>2 DEF Announced, Observe, DriverInv
  <2> QED
    BY <1>a, <1>2, <2>1 DEF Announced
<1>3. ASSUME NEW b \in Sealed, Propagated(b)
      PROVE  EngineInv' /\ DriverInv' /\ Rises
  <2>1. Append(jobs, b) \in Seq(Chains)
    BY <1>0 DEF DriverInv
  <2>2. DriverInv'
    BY <1>0, <1>3, <2>1 DEF Propagated, Observe, DriverInv
  <2> QED
    BY <1>a, <1>3, <2>2 DEF Propagated
<1>4. ASSUME NEW b \in Sealed, RequestTarget(b)
      PROVE  EngineInv' /\ DriverInv' /\ Rises
  <2>1. DriverInv'
    BY <1>4 DEF RequestTarget, DriverInv
  <2> QED
    BY <1>a, <1>4, <2>1 DEF RequestTarget
<1>5. ASSUME NEW b \in Sealed, Commit(b)
      PROVE  EngineInv' /\ DriverInv' /\ Rises
  <2>1. DriverInv'
    BY <1>0, <1>5 DEF Commit, Import, DriverInv
  <2> QED
    BY <1>a, <1>5, <2>1 DEF Commit
<1>6. ASSUME SubmitTarget
      PROVE  EngineInv' /\ DriverInv' /\ Rises
  <2>1. submitted \in Chains
    BY <1>6 DEF SubmitTarget, DriverInv
  <2>2. EngineInv' /\ Rises
    BY <1>6, <2>1, ForkChoiceIsSafe DEF SubmitTarget
  <2>3. DriverInv'
    BY <1>6 DEF SubmitTarget, DriverInv
  <2> QED
    BY <2>2, <2>3
<1>7. ASSUME Advertise
      PROVE  EngineInv' /\ DriverInv' /\ Rises
  <2>1. DriverInv'
    BY <1>7 DEF Advertise, DriverInv
  <2> QED
    BY <1>a, <1>7, <2>1 DEF Advertise
<1>8. ASSUME TakeJob
      PROVE  EngineInv' /\ DriverInv' /\ Rises
  <2>1. Head(jobs) \in Chains /\ Tail(jobs) \in Seq(Chains)
    BY <1>8 DEF TakeJob, DriverInv
  <2>2. DriverInv'
    BY <1>8, <2>1 DEF TakeJob, Import, DriverInv
  <2> QED
    BY <1>a, <1>8, <2>2 DEF TakeJob
<1>9. ASSUME NEW t \in imports, ImportStep(t)
      PROVE  EngineInv' /\ DriverInv' /\ Rises
  <2>0. /\ t \in [kind : {"propagated", "committed"}, block : Chains,
                  step : {"parent", "payload", "choice", "target"}]
        /\ t.block \in Chains /\ Front(t.block) \in Chains
    BY FrontIsChain DEF DriverInv
  <2>1. submitted' = submitted /\ claims' = claims /\ jobs' = jobs
    BY <1>9 DEF ImportStep
  <2>2. CASE ImportParent(t)
    <3>1. EngineInv' /\ Rises
      BY <2>0, <2>2, PayloadIsSafe DEF ImportParent
    <3>2. DriverInv'
      BY <2>0, <2>1, <2>2 DEF ImportParent, Becomes, Import, DriverInv
    <3> QED
      BY <3>1, <3>2
  <2>3. CASE ImportPayload(t)
    <3>1. EngineInv' /\ Rises
      BY <2>0, <2>3, PayloadIsSafe DEF ImportPayload
    <3>2. DriverInv'
      BY <2>0, <2>1, <2>3 DEF ImportPayload, Becomes, DriverInv
    <3> QED
      BY <3>1, <3>2
  <2>4. CASE ImportTarget(t) \/ ImportChoice(t)
    <3>1. EngineInv' /\ Rises
      BY <2>0, <2>4, ForkChoiceIsSafe DEF ImportTarget, ImportChoice
    <3>2. DriverInv'
      BY <2>1, <2>4 DEF ImportTarget, ImportChoice, Becomes, DriverInv
    <3> QED
      BY <3>1, <3>2
  <2>5. CASE ImportFails(t)
    <3>1. DriverInv'
      BY <2>1, <2>5 DEF ImportFails, Becomes, DriverInv
    <3> QED
      BY <1>a, <2>5, <3>1 DEF ImportFails
  <2> QED
    BY <1>9, <2>2, <2>3, <2>4, <2>5 DEF ImportStep
<1>10. ASSUME UNCHANGED chainVars
       PROVE  EngineInv' /\ DriverInv' /\ Rises
  <2>1. DriverInv'
    BY <1>10 DEF chainVars, driverVars, DriverInv
  <2>2. Still
    BY <1>10 DEF chainVars
  <2> QED
    BY <1>a, <2>1, <2>2
<1> QED
  BY <1>1, <1>2, <1>3, <1>4, <1>5, <1>6, <1>7, <1>8, <1>9, <1>10 DEF ChainNext

(* Whatever the importer, the commits and the backfill targets do, and     *)
(* however late their messages reach the Engine's tree, the canonical head *)
(* only moves to a higher block while there is one copy of each block.     *)
THEOREM HeadRises == ChainSpec => HeadOnlyRises
<1>1. ChainInit => EngineInv /\ DriverInv
  BY ChainStart
<1>2. EngineInv /\ DriverInv /\ [ChainNext]_chainVars => (EngineInv /\ DriverInv)'
  BY ChainStep
<1>3. EngineInv /\ DriverInv /\ [ChainNext]_chainVars => [Rises]_chainVars
  BY ChainStep
<1>4. ChainSpec => [][Rises]_chainVars
  BY <1>1, <1>2, <1>3, PTL DEF ChainSpec
<1> QED
  BY <1>4 DEF HeadOnlyRises, Rises
=============================================================================
