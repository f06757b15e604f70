------------------------ MODULE DbftConsensusProofs ------------------------
(***************************************************************************)
(* Proofs about DbftConsensus, for every number of validators, every set   *)
(* of at most MaxFaulty faulty ones, every number of views and crashes,    *)
(* with and without Anti-MEV.                                              *)
(***************************************************************************)
EXTENDS DbftConsensus, FiniteSetTheorems, TLAPS

USE NAssumption, HeightAssumption, MaxViewAssumption

(* Sets of validators are finite, and their sizes are ordered by inclusion. *)
LEMMA ValidatorSets ==
    ASSUME NEW S \in SUBSET Validators
    PROVE  /\ IsFiniteSet(S)
           /\ Cardinality(S) \in Nat
           /\ \A T \in SUBSET S : Cardinality(T) <= Cardinality(S)
<1>1. IsFiniteSet(Validators)
  BY FS_Interval, 0 \in Int, N - 1 \in Int DEF Validators
<1>2. IsFiniteSet(S)
  BY <1>1, FS_Subset
<1>3. Cardinality(S) \in Nat
  BY <1>2, FS_CardinalityType
<1>4. \A T \in SUBSET S : Cardinality(T) <= Cardinality(S)
  BY <1>2, FS_Subset
<1> QED
  BY <1>2, <1>3, <1>4

(* The arithmetic of bft_honest_node_count. *)
LEMMA QuorumArithmetic ==
    /\ MaxFaulty \in Nat
    /\ Quorum \in Nat
    /\ 3 * MaxFaulty < N
    /\ Quorum = N - MaxFaulty
<1>1. MaxFaulty \in Nat /\ 3 * MaxFaulty <= N - 1
  BY SMT DEF MaxFaulty
<1> QED
  BY <1>1 DEF Quorum

(* Two quorums share a correct validator. *)
LEMMA QuorumsIntersect ==
    ASSUME NEW S \in SUBSET Validators, NEW T \in SUBSET Validators,
           Cardinality(S) >= Quorum, Cardinality(T) >= Quorum
    PROVE  \E i \in Correct : i \in S /\ i \in T
<1>1. /\ IsFiniteSet(S) /\ IsFiniteSet(T)
      /\ Cardinality(S) \in Nat /\ Cardinality(T) \in Nat
  BY ValidatorSets
<1>2. Cardinality(S \cup T) = Cardinality(S) + Cardinality(T) - Cardinality(S \cap T)
  BY <1>1, FS_Union
<1>3. Cardinality(Validators) = N
  BY FS_Interval, 0 \in Int, N - 1 \in Int DEF Validators
<1>4. Cardinality(S \cup T) <= N /\ Cardinality(S \cup T) \in Nat
  BY <1>3, ValidatorSets, S \cup T \in SUBSET Validators, Validators \in SUBSET Validators
<1>5. Cardinality(S \cap T) \in Nat
  BY ValidatorSets, S \cap T \in SUBSET Validators
<1>6. Cardinality(S \cap T) > MaxFaulty
  BY <1>1, <1>2, <1>4, <1>5, QuorumArithmetic
<1>7. ~(S \cap T \subseteq Faulty)
  <2>1. SUFFICES ASSUME S \cap T \subseteq Faulty PROVE FALSE
    OBVIOUS
  <2>2. Cardinality(S \cap T) <= Cardinality(Faulty)
    BY <2>1, ValidatorSets, FaultyAssumption
  <2>3. Cardinality(Faulty) \in Nat
    BY ValidatorSets, FaultyAssumption
  <2> QED
    BY <2>2, <2>3, <1>5, <1>6, QuorumArithmetic, FaultyAssumption
<1> QED
  BY <1>7 DEF Correct

LEMMA PrimaryIsValidator == \A v \in Views : Primary(v) \in Validators
<1> SUFFICES ASSUME NEW v \in Views PROVE Primary(v) \in Validators
  OBVIOUS
<1>1. v \in Nat /\ (v % N) \in 0 .. N - 1 /\ (Height % HeightModulus) \in Nat
  BY DEF Views
<1>2. (Height % HeightModulus) + N - (v % N) \in Nat
  BY <1>1
<1> QED
  BY <1>2 DEF Primary, Validators

(* A faulty minority is no quorum. *)
LEMMA FaultyIsNoQuorum ==
    ASSUME NEW S \in SUBSET Validators, Cardinality(S) >= Quorum
    PROVE  \E i \in Correct : i \in S
  BY QuorumsIntersect
-----------------------------------------------------------------------------
(* Type correctness.                                                       *)
LEMMA TypeInit == Init => TypeOK
  BY DEF Init, TypeOK, Views, Stages

LEMMA CorrectAreValidators == Correct \subseteq Validators
  BY DEF Correct

LEMMA TypeStep == TypeOK /\ [Next]_vars => TypeOK'
<1> SUFFICES ASSUME TypeOK, [Next]_vars PROVE TypeOK'
  OBVIOUS
<1> USE CorrectAreValidators
<1>0. 0 \in Views
  BY DEF Views
<1>reset. ASSUME NEW n \in Correct, ResetRound(n)
          PROVE  /\ view' \in [Correct -> Views]
                 /\ proposal' \in [Correct -> [Views -> Blocks \cup {NoBlock}]]
                 /\ stage' \in [Correct -> [Views -> Stages]]
                 /\ own' \in [Correct -> SUBSET (Kinds \X Views)]
  BY <1>0, <1>reset DEF TypeOK, ResetRound, Stages
<1>msg. ASSUME NEW k \in Kinds, NEW v \in Views, NEW n \in Correct,
               NEW b \in Blocks \cup {NoBlock}, Publish(Msg(k, v, n, b))
        PROVE  msgs' \in SUBSET Message
  BY <1>msg DEF TypeOK, Publish, Msg, Message
<1>ask. ASSUME NEW n \in Correct, AskChangeView(n)
        PROVE  /\ msgs' \in SUBSET Message
               /\ view' \in [Correct -> Views]
               /\ reached' \in [Correct -> Views]
               /\ own' \in [Correct -> SUBSET (Kinds \X Views)]
  <2>1. view[n] \in Views /\ "ChangeView" \in Kinds
    BY DEF TypeOK, Kinds
  <2>2. msgs' \in SUBSET Message
    BY <1>ask, <1>msg, <2>1 DEF AskChangeView
  <2>3. view[n] + 1 \in Views
    BY <1>ask, <2>1 DEF AskChangeView, Views
  <2>4. view' \in [Correct -> Views] /\ reached' \in [Correct -> Views]
    <3>1. CASE UNCHANGED <<view, reached>>
      BY <3>1 DEF TypeOK
    <3>2. CASE EnterView(n, view[n] + 1)
      <4>1. view' \in [Correct -> Views]
        BY <3>2, <2>3 DEF EnterView, TypeOK
      <4>2. reached' \in [Correct -> Views]
        BY <3>2, <2>3 DEF EnterView, TypeOK
      <4> QED
        BY <4>1, <4>2
    <3> QED
      BY <1>ask, <3>1, <3>2 DEF AskChangeView
  <2>5. own' \in [Correct -> SUBSET (Kinds \X Views)]
    BY <1>ask, <2>1 DEF AskChangeView, TypeOK
  <2> QED
    BY <2>2, <2>4, <2>5
<1>1. ASSUME NEW n \in Correct, NEW b \in Blocks, Propose(n, b) PROVE TypeOK'
  <2>1. msgs' \in SUBSET Message
    <3>1. view[n] \in Views /\ "PrepareRequest" \in Kinds
      BY DEF TypeOK, Kinds
    <3> QED
      BY <1>1, <1>msg, <3>1 DEF Propose
  <2> QED
    <3>1. proposal' \in [Correct -> [Views -> Blocks \cup {NoBlock}]]
      BY <1>1 DEF Propose, TypeOK
    <3>2. stage' \in [Correct -> [Views -> Stages]]
      <4>1. CASE UNCHANGED stage
        BY <4>1 DEF TypeOK
      <4>2. CASE stage' = [stage EXCEPT ![n][view[n]] = "pending"]
        BY <4>2 DEF TypeOK, Stages
      <4> QED
        BY <1>1, <4>1, <4>2 DEF Propose
    <3> QED
      BY <1>1, <2>1, <3>1, <3>2 DEF Propose, TypeOK
<1>2. ASSUME NEW n \in Correct, NEW b \in Blocks, AcceptProposal(n, b) PROVE TypeOK'
  BY <1>2 DEF AcceptProposal, TypeOK, Stages
<1>3. ASSUME NEW n \in Correct, NEW b \in Blocks, ImportPropagated(n, b) PROVE TypeOK'
  BY <1>3, <1>reset DEF ImportPropagated, TypeOK
<1>4. ASSUME NEW n \in Correct, NEW v \in Views, SendPreCommit(n, v) PROVE TypeOK'
  <2>1. msgs' \in SUBSET Message
    BY <1>4, <1>msg DEF SendPreCommit, TypeOK, Kinds
  <2>2. own' \in [Correct -> SUBSET (Kinds \X Views)]
    BY <1>4 DEF SendPreCommit, TypeOK, Kinds
  <2> QED
    BY <1>4, <2>1, <2>2 DEF SendPreCommit, TypeOK
<1>5. ASSUME NEW n \in Correct, NEW v \in Views, SendCommit(n, v) PROVE TypeOK'
  <2>1. msgs' \in SUBSET Message
    BY <1>5, <1>msg DEF SendCommit, TypeOK, Kinds
  <2>2. own' \in [Correct -> SUBSET (Kinds \X Views)]
    BY <1>5 DEF SendCommit, TypeOK, Kinds
  <2> QED
    BY <1>5, <2>1, <2>2 DEF SendCommit, TypeOK
<1>6. ASSUME NEW n \in Correct, NEW v \in Views, ImportCommitted(n, v) PROVE TypeOK'
  <2>1. imported' \in [Correct -> Blocks \cup {NoBlock}]
    BY <1>6 DEF ImportCommitted, TypeOK
  <2>2. CASE ResetRound(n)
    BY <1>6, <2>1, <2>2, <1>reset DEF ImportCommitted, TypeOK
  <2>3. CASE /\ stage' = [stage EXCEPT ![n][v] = "none"]
             /\ UNCHANGED <<view, proposal, own, imported>>
    BY <1>6, <2>1, <2>3 DEF ImportCommitted, TypeOK, Stages
  <2> QED
    BY <1>6, <2>2, <2>3 DEF ImportCommitted
<1>7. ASSUME NEW n \in Correct, NEW v \in Views, ChangeView(n, v) PROVE TypeOK'
  <2>1. view' \in [Correct -> Views] /\ reached' \in [Correct -> Views]
    BY <1>7 DEF ChangeView, EnterView, TypeOK
  <2>2. stage' \in [Correct -> [Views -> Stages]]
    BY <1>7 DEF ChangeView, TypeOK, Stages
  <2> QED
    BY <1>7, <2>1, <2>2 DEF ChangeView, TypeOK
<1>8. ASSUME NEW n \in Correct, VerifyProposal(n) PROVE TypeOK'
  <2>1. msgs' \in SUBSET Message
    <3>1. /\ view[n] \in Views /\ "PrepareResponse" \in Kinds
          /\ proposal[n][view[n]] \in Blocks \cup {NoBlock}
      BY DEF TypeOK, Kinds
    <3>2. CASE UNCHANGED msgs
      BY <3>2 DEF TypeOK
    <3>3. CASE Publish(Msg("PrepareResponse", view[n], n, proposal[n][view[n]]))
      BY <3>1, <3>3, <1>msg
    <3> QED
      BY <1>8, <3>2, <3>3 DEF VerifyProposal
  <2> QED
    BY <1>8, <2>1 DEF VerifyProposal, TypeOK, Stages
<1>9. ASSUME NEW n \in Correct, RejectProposal(n) PROVE TypeOK'
  <2>1. stage' \in [Correct -> [Views -> Stages]]
    BY <1>9 DEF RejectProposal, TypeOK, Stages
  <2> QED
    BY <1>9, <2>1, <1>ask DEF RejectProposal, TypeOK
<1>10. ASSUME NEW n \in Correct, Reconstruct(n) PROVE TypeOK'
  BY <1>10 DEF Reconstruct, TypeOK, Stages
<1>11. ASSUME NEW n \in Correct, Timeout(n) PROVE TypeOK'
  <2>1. stage' \in [Correct -> [Views -> Stages]]
    <3>1. CASE UNCHANGED stage
      BY <3>1 DEF TypeOK
    <3>2. CASE stage' = [stage EXCEPT ![n][view[n]] = "none"]
      BY <3>2 DEF TypeOK, Stages
    <3> QED
      BY <1>11, <3>1, <3>2 DEF Timeout
  <2> QED
    BY <1>11, <2>1, <1>ask DEF Timeout, TypeOK
<1>12. ASSUME NEW n \in Correct, RecoverOwn(n) PROVE TypeOK'
  <2>1. own' \in [Correct -> SUBSET (Kinds \X Views)]
    BY <1>12 DEF RecoverOwn, TypeOK, Message
  <2> QED
    BY <1>12, <2>1 DEF RecoverOwn, TypeOK
<1>13. ASSUME NEW n \in Correct, Crash(n) PROVE TypeOK'
  <2>1. imported' \in [Correct -> Blocks \cup {NoBlock}]
    <3>1. CASE UNCHANGED imported
      BY <3>1 DEF TypeOK
    <3>2. CASE imported' = [imported EXCEPT ![n] = NoBlock]
      BY <3>2 DEF TypeOK
    <3> QED
      BY <1>13, <3>1, <3>2 DEF Crash
  <2>2. crashes' \in Nat /\ msgs' = msgs /\ reached' = reached /\ ResetRound(n)
    BY <1>13 DEF Crash, TypeOK
  <2> QED
    BY <2>1, <2>2, <1>reset DEF TypeOK
<1>14. CASE UNCHANGED vars
  BY <1>14 DEF vars, TypeOK
<1> QED
  BY <1>1, <1>2, <1>3, <1>4, <1>5, <1>6, <1>7, <1>8, <1>9, <1>10, <1>11, <1>12,
     <1>13, <1>14 DEF Next

(* Every reachable state is well typed: no validator leaves the views the  *)
(* u8 of the code can hold (checked_add in publish_local_change_view).     *)
THEOREM TypeCorrect == Spec => []TypeOK
  BY TypeInit, TypeStep, PTL DEF Spec
-----------------------------------------------------------------------------
(* Safety.  What a validator has signed binds it: one payload per duty of  *)
(* the journal, and one header per height.                                 *)
JournalInv ==
    /\ \A m \in msgs : m.from \in Correct
    /\ \A m1, m2 \in msgs :
          /\ m1.kind = m2.kind /\ m1.from = m2.from
          /\ m1.kind = "Commit" \/ (/\ m1.kind \in {"PrepareRequest", "PrepareResponse"}
                                    /\ m1.view = m2.view)
          => m1.block = m2.block

(* Only a block the primary of the view proposed is kept as verified.      *)
StageInv ==
    \A n \in Correct : \A v \in Views :
        /\ stage[n][v] # "none" => proposal[n][v] # NoBlock
        /\ Verified(n, v) => proposal[n][v].proposer = Primary(v)

(* A correct validator signs a header only after the phases before it.     *)
CommitInv ==
    \A m \in msgs : m.kind = "Commit" =>
        PreCommitted(m.view, m.block) /\ m.block.proposer = Primary(m.view)

(* Whatever is imported is sealed. *)
ImportInv == \A n \in Correct : imported[n] # NoBlock => Sealed(imported[n])

Inv == TypeOK /\ JournalInv /\ StageInv /\ CommitInv /\ ImportInv

(* A step signs at most one message, and only what the journal allows.     *)
LEMMA StepSigns ==
    ASSUME TypeOK, [Next]_vars
    PROVE  \/ msgs' = msgs
           \/ \E n \in Correct, k \in Kinds, v \in Views, b \in Blocks \cup {NoBlock} :
                 /\ msgs' = msgs \cup {Msg(k, v, n, b)}
                 /\ k \in {"PrepareRequest", "PrepareResponse", "Commit"}
                       => JournalAllows(k, n, v, b)
                 /\ k = "Commit" => /\ HeaderAllows(n, b)
                                    /\ PreCommitted(v, b)
                                    /\ stage[n][v] = "final" /\ b = proposal[n][v]
<1> DEFINE Signs(n, k, v, b) ==
              /\ msgs' = msgs \cup {Msg(k, v, n, b)}
              /\ k \in {"PrepareRequest", "PrepareResponse", "Commit"}
                    => JournalAllows(k, n, v, b)
              /\ k = "Commit" => /\ HeaderAllows(n, b)
                                 /\ PreCommitted(v, b)
                                 /\ stage[n][v] = "final" /\ b = proposal[n][v]
<1> DEFINE Goal == \/ msgs' = msgs
                   \/ \E n \in Correct, k \in Kinds, v \in Views, b \in Blocks \cup {NoBlock} :
                         Signs(n, k, v, b)
<1>0. \A n \in Correct : /\ view[n] \in Views
                         /\ \A v \in Views : proposal[n][v] \in Blocks \cup {NoBlock}
  BY DEF TypeOK
<1>1. ASSUME NEW n \in Correct, NEW b \in Blocks, Propose(n, b) PROVE Goal
  <2>1. Signs(n, "PrepareRequest", view[n], b)
    BY <1>1 DEF Propose, Publish
  <2> QED
    BY <1>0, <2>1 DEF Kinds
<1>2. ASSUME NEW n \in Correct, NEW v \in Views, SendPreCommit(n, v) PROVE Goal
  <2>1. Signs(n, "PreCommit", v, proposal[n][v])
    BY <1>2 DEF SendPreCommit, Publish
  <2> QED
    BY <1>0, <2>1 DEF Kinds
<1>3. ASSUME NEW n \in Correct, NEW v \in Views, SendCommit(n, v) PROVE Goal
  <2>1. Signs(n, "Commit", v, proposal[n][v])
    BY <1>3 DEF SendCommit, Publish
  <2> QED
    BY <1>0, <2>1 DEF Kinds
<1>4. ASSUME NEW n \in Correct, VerifyProposal(n) PROVE Goal
  <2>1. CASE UNCHANGED msgs
    BY <2>1
  <2>2. CASE msgs' # msgs
    <3>1. Signs(n, "PrepareResponse", view[n], proposal[n][view[n]])
      BY <1>4, <2>2 DEF VerifyProposal, Publish
    <3> QED
      BY <1>0, <3>1 DEF Kinds
  <2> QED
    BY <2>1, <2>2
<1>5. ASSUME NEW n \in Correct, AskChangeView(n) PROVE Goal
  <2>1. Signs(n, "ChangeView", view[n], NoBlock)
    BY <1>5 DEF AskChangeView, Publish
  <2> QED
    BY <1>0, <2>1 DEF Kinds
<1>6. ASSUME NEW n \in Correct, RejectProposal(n) \/ Timeout(n) PROVE Goal
  BY <1>5, <1>6 DEF RejectProposal, Timeout
<1>7. ASSUME NEW n \in Correct,
             \/ \E b \in Blocks : AcceptProposal(n, b) \/ ImportPropagated(n, b)
             \/ \E v \in Views : ImportCommitted(n, v) \/ ChangeView(n, v)
             \/ Reconstruct(n) \/ RecoverOwn(n) \/ Crash(n)
      PROVE  msgs' = msgs
  BY <1>7 DEF AcceptProposal, ImportPropagated, ImportCommitted, ChangeView,
              Reconstruct, RecoverOwn, Crash
<1>8. CASE UNCHANGED vars
  BY <1>8 DEF vars
<1>9. Goal
  <2>1. CASE Next
    <3>1. PICK n \in Correct :
             \/ \E b \in Blocks : Propose(n, b)
             \/ \E v \in Views : SendPreCommit(n, v) \/ SendCommit(n, v)
             \/ VerifyProposal(n)
             \/ RejectProposal(n) \/ Timeout(n)
             \/ \/ \E b \in Blocks : AcceptProposal(n, b) \/ ImportPropagated(n, b)
                \/ \E v \in Views : ImportCommitted(n, v) \/ ChangeView(n, v)
                \/ Reconstruct(n) \/ RecoverOwn(n) \/ Crash(n)
      BY <2>1 DEF Next
    <3> QED
      BY <3>1, <1>1, <1>2, <1>3, <1>4, <1>6, <1>7
  <2> QED
    BY <2>1, <1>8
<1> QED
  BY <1>9

(* What is counted are sets of validators ...                              *)
LEMMA VotersAreValidators ==
    ASSUME JournalInv
    PROVE  /\ \A k, v, b : Voters(k, v, b) \in SUBSET Validators
           /\ \A v : PreCommits(v) \in SUBSET Validators
           /\ \A b : HeaderSigners(b) \in SUBSET Validators
<1>1. \A k, v, b : Voters(k, v, b) \in SUBSET Validators
  BY FaultyAssumption, CorrectAreValidators DEF JournalInv, Voters, Signers
<1> QED
  BY <1>1 DEF PreCommits, HeaderSigners

(* ... and they only grow, as no message is ever taken back.               *)
LEMMA CountsGrow ==
    ASSUME JournalInv, JournalInv', msgs \subseteq msgs'
    PROVE  /\ \A v \in Views : \A b : PreCommitted(v, b) => PreCommitted(v, b)'
           /\ \A b : Sealed(b) => Sealed(b)'
<1>1. /\ \A k, v, b : Voters(k, v, b)' \in SUBSET Validators
      /\ \A v : PreCommits(v)' \in SUBSET Validators
      /\ \A b : HeaderSigners(b)' \in SUBSET Validators
  <2>1. \A k, v, b : Voters(k, v, b)' \in SUBSET Validators
    BY FaultyAssumption, CorrectAreValidators DEF JournalInv, Voters, Signers
  <2> QED
    BY <2>1 DEF PreCommits, HeaderSigners
<1>2. \A k, v, b : Voters(k, v, b) \subseteq Voters(k, v, b)'
  BY DEF Voters, Signers
<1>3. ASSUME NEW v \in Views, NEW b, Prepared(v, b) PROVE Prepared(v, b)'
  <2> DEFINE S == {Primary(v)} \cup (Voters("PrepareResponse", v, b) \ {Primary(v)})
             T == {Primary(v)} \cup (Voters("PrepareResponse", v, b)' \ {Primary(v)})
  <2>1. T \in SUBSET Validators /\ S \in SUBSET T
    BY <1>1, <1>2, PrimaryIsValidator
  <2>2. S \in SUBSET Validators
    BY <2>1
  <2>3. Cardinality(S) <= Cardinality(T) /\ Cardinality(S) \in Nat /\ Cardinality(T) \in Nat
    BY <2>1, <2>2, ValidatorSets
  <2>4. Cardinality(S) >= Quorum
    BY <1>3 DEF Prepared
  <2>5. Cardinality(T) >= Quorum
    BY <2>3, <2>4, QuorumArithmetic
  <2> QED
    BY <2>5 DEF Prepared, Primary
<1>4. ASSUME NEW v, Cardinality(PreCommits(v)) >= Quorum
      PROVE  Cardinality(PreCommits(v)') >= Quorum
  <2>1. PreCommits(v) \in SUBSET PreCommits(v)'
    BY <1>2 DEF PreCommits
  <2>2. /\ Cardinality(PreCommits(v)) <= Cardinality(PreCommits(v)')
        /\ Cardinality(PreCommits(v)) \in Nat /\ Cardinality(PreCommits(v)') \in Nat
    BY <2>1, <1>1, ValidatorSets
  <2> QED
    BY <2>2, <1>4, QuorumArithmetic
<1>5. ASSUME NEW b, Sealed(b) PROVE Sealed(b)'
  <2>1. HeaderSigners(b) \in SUBSET HeaderSigners(b)'
    BY <1>2 DEF HeaderSigners
  <2>2. /\ Cardinality(HeaderSigners(b)) <= Cardinality(HeaderSigners(b)')
        /\ Cardinality(HeaderSigners(b)) \in Nat /\ Cardinality(HeaderSigners(b)') \in Nat
    BY <2>1, <1>1, ValidatorSets
  <2>3. Cardinality(HeaderSigners(b)') >= Quorum
    BY <2>2, <1>5, QuorumArithmetic DEF Sealed
  <2> QED
    BY <2>3 DEF Sealed
<1> QED
  BY <1>3, <1>4, <1>5 DEF PreCommitted

LEMMA JournalStep ==
    ASSUME TypeOK, JournalInv, [Next]_vars
    PROVE  JournalInv'
<1>1. CASE msgs' = msgs
  BY <1>1 DEF JournalInv
<1>2. ASSUME NEW n \in Correct, NEW k \in Kinds, NEW v \in Views,
             NEW b \in Blocks \cup {NoBlock},
             msgs' = msgs \cup {Msg(k, v, n, b)},
             k \in {"PrepareRequest", "PrepareResponse", "Commit"} => JournalAllows(k, n, v, b),
             k = "Commit" => HeaderAllows(n, b)
      PROVE  JournalInv'
  <2> DEFINE new == Msg(k, v, n, b)
  <2>1. new.kind = k /\ new.view = v /\ new.from = n /\ new.block = b
    BY DEF Msg
  <2>2. \A m \in msgs : m.kind = k /\ m.from = n /\ k = "Commit" => m.block = b
    BY <1>2 DEF HeaderAllows
  <2>3. k \in {"PrepareRequest", "PrepareResponse"} =>
           \A m \in msgs : m.kind = k /\ m.from = n /\ m.view = v => m.block = b
    BY <1>2 DEF JournalAllows
  <2> QED
    <3> HIDE DEF new
    <3>1. \A m \in msgs' : m \in msgs \/ m = new
      BY <1>2 DEF new
    <3>2. \A m \in msgs' : m.from \in Correct
      BY <3>1, <2>1 DEF JournalInv
    <3>3. ASSUME NEW m1 \in msgs', NEW m2 \in msgs',
                 m1.kind = m2.kind, m1.from = m2.from,
                 m1.kind = "Commit" \/ (/\ m1.kind \in {"PrepareRequest", "PrepareResponse"}
                                        /\ m1.view = m2.view)
          PROVE  m1.block = m2.block
      <4>1. CASE m1 \in msgs /\ m2 \in msgs
        BY <3>3, <4>1 DEF JournalInv
      <4>2. CASE m1 = new /\ m2 \in msgs
        BY <3>3, <4>2, <2>1, <2>2, <2>3
      <4>3. CASE m1 \in msgs /\ m2 = new
        BY <3>3, <4>3, <2>1, <2>2, <2>3
      <4>4. CASE m1 = new /\ m2 = new
        BY <4>4
      <4> QED
        BY <3>1, <4>1, <4>2, <4>3, <4>4
    <3> QED
      BY <3>2, <3>3 DEF JournalInv
<1> QED
  BY <1>1, <1>2, StepSigns

LEMMA StageStep ==
    ASSUME TypeOK, StageInv, [Next]_vars
    PROVE  StageInv'
<1> USE NoBlockAssumption
<1> DEFINE Kept(n, v) == /\ stage[n][v] # "none" => proposal[n][v] # NoBlock
                         /\ Verified(n, v) => proposal[n][v].proposer = Primary(v)
<1> SUFFICES ASSUME NEW o \in Correct, NEW w \in Views PROVE Kept(o, w)'
  BY DEF StageInv, Verified, Primary
<1>0. Kept(o, w)
  BY DEF StageInv
<1>1. /\ stage \in [Correct -> [Views -> Stages]] /\ view \in [Correct -> Views]
      /\ proposal \in [Correct -> [Views -> Blocks \cup {NoBlock}]]
  BY DEF TypeOK
<1>same. ASSUME proposal'[o][w] = proposal[o][w], stage'[o][w] \in {stage[o][w], "none"}
         PROVE  Kept(o, w)'
  BY <1>0, <1>same DEF Verified, Primary
<1>new. ASSUME proposal'[o][w] # NoBlock, stage'[o][w] \in {"none", "pending"}
        PROVE  Kept(o, w)'
  BY <1>new DEF Verified
<1>reset. ASSUME NEW n \in Correct, ResetRound(n) PROVE Kept(o, w)'
  <2>1. CASE o = n
    <3>1. stage'[o][w] = "none"
      BY <1>reset, <1>1, <2>1 DEF ResetRound
    <3> QED
      BY <3>1 DEF Verified
  <2>2. CASE o # n
    BY <1>reset, <1>1, <2>2, <1>same DEF ResetRound
  <2> QED
    BY <2>1, <2>2
<1>2. ASSUME NEW n \in Correct, NEW b \in Blocks, Propose(n, b) \/ AcceptProposal(n, b)
      PROVE  Kept(o, w)'
  <2>0. /\ proposal' = [proposal EXCEPT ![n][view[n]] = b]
        /\ proposal[n][view[n]] = NoBlock
        /\ \/ stage' = [stage EXCEPT ![n][view[n]] = "pending"]
           \/ UNCHANGED stage
    BY <1>2 DEF Propose, AcceptProposal
  <2>1. CASE o = n /\ w = view[n]
    <3>1. proposal'[o][w] = b /\ b # NoBlock
      BY <1>1, <2>0, <2>1
    <3>2. stage[o][w] = "none"
      BY <1>0, <2>0, <2>1
    <3>3. stage'[o][w] \in {"none", "pending"}
      BY <1>1, <2>0, <2>1, <3>2
    <3> QED
      BY <3>1, <3>3, <1>new
  <2>2. CASE ~(o = n /\ w = view[n])
    <3>1. proposal'[o][w] = proposal[o][w]
      BY <1>1, <2>0, <2>2
    <3>2. stage'[o][w] = stage[o][w]
      BY <1>1, <2>0, <2>2
    <3> QED
      BY <3>1, <3>2, <1>same
  <2> QED
    BY <2>1, <2>2
<1>3. ASSUME NEW n \in Correct, VerifyProposal(n) PROVE Kept(o, w)'
  <2>1. CASE o = n /\ w = view[n]
    <3>1. proposal'[o][w] = proposal[o][w] /\ proposal[o][w].proposer = Primary(w)
      BY <1>3, <2>1 DEF VerifyProposal, NamesPrimary
    <3>2. proposal[o][w] # NoBlock
      BY <1>0, <1>3, <2>1 DEF VerifyProposal
    <3> QED
      BY <3>1, <3>2 DEF Primary
  <2>2. CASE ~(o = n /\ w = view[n])
    <3>1. stage'[o][w] = stage[o][w] /\ proposal' = proposal
      BY <1>1, <1>3, <2>2 DEF VerifyProposal
    <3> QED
      BY <3>1, <1>same
  <2> QED
    BY <2>1, <2>2
<1>4. ASSUME NEW n \in Correct, Reconstruct(n) PROVE Kept(o, w)'
  <2>1. CASE o = n /\ w = view[n]
    <3>1. proposal' = proposal /\ stage[o][w] = "pre"
      BY <1>4, <2>1 DEF Reconstruct
    <3> QED
      BY <3>1, <1>0 DEF Verified, Primary
  <2>2. CASE ~(o = n /\ w = view[n])
    <3>1. stage'[o][w] = stage[o][w] /\ proposal' = proposal
      BY <1>1, <1>4, <2>2 DEF Reconstruct
    <3> QED
      BY <3>1, <1>same
  <2> QED
    BY <2>1, <2>2
<1>5. ASSUME NEW n \in Correct, NEW v \in Views, proposal' = proposal,
             stage' = [stage EXCEPT ![n][v] = "none"]
      PROVE  Kept(o, w)'
  <2>1. stage'[o][w] \in {stage[o][w], "none"}
    BY <1>1, <1>5
  <2> QED
    BY <2>1, <1>5, <1>same
<1>6. ASSUME NEW n \in Correct, NEW v \in Views, ImportCommitted(n, v) PROVE Kept(o, w)'
  BY <1>5, <1>6, <1>reset DEF ImportCommitted
<1>7. ASSUME NEW n \in Correct, NEW v \in Views, ChangeView(n, v) PROVE Kept(o, w)'
  <2>1. stage'[o][w] \in {stage[o][w], "none"} /\ proposal' = proposal
    BY <1>1, <1>7 DEF ChangeView
  <2> QED
    BY <2>1, <1>same
<1>8. ASSUME NEW n \in Correct, RejectProposal(n) \/ Timeout(n) PROVE Kept(o, w)'
  <2>1. view[n] \in Views /\ proposal' = proposal
    BY <1>1, <1>8 DEF RejectProposal, Timeout
  <2>2. CASE UNCHANGED stage
    BY <2>1, <2>2, <1>same
  <2>3. CASE stage' = [stage EXCEPT ![n][view[n]] = "none"]
    BY <2>1, <2>3, <1>5
  <2> QED
    BY <1>8, <2>2, <2>3 DEF RejectProposal, Timeout
<1>9. ASSUME UNCHANGED <<stage, proposal>> PROVE Kept(o, w)'
  BY <1>9, <1>same
<1>10. ASSUME NEW n \in Correct,
              \/ \E b \in Blocks : ImportPropagated(n, b)
              \/ Crash(n)
       PROVE  Kept(o, w)'
  BY <1>10, <1>reset DEF ImportPropagated, Crash
<1>11. ASSUME NEW n \in Correct,
              \/ \E v \in Views : SendPreCommit(n, v) \/ SendCommit(n, v)
              \/ RecoverOwn(n)
       PROVE  Kept(o, w)'
  BY <1>11, <1>9 DEF SendPreCommit, SendCommit, RecoverOwn
<1>12. CASE UNCHANGED vars
  BY <1>9, <1>12 DEF vars
<1> HIDE DEF Kept
<1> QED
  BY <1>2, <1>3, <1>4, <1>6, <1>7, <1>8, <1>10, <1>11, <1>12 DEF Next

LEMMA CommitStep ==
    ASSUME TypeOK, JournalInv, StageInv, CommitInv, [Next]_vars
    PROVE  CommitInv'
<1> USE JournalStep
<1>0. \A m \in msgs : m.view \in Views
  BY DEF TypeOK, Message
<1>1. CASE msgs' = msgs
  <2>1. \A v \in Views : \A b : PreCommitted(v, b) => PreCommitted(v, b)'
    BY <1>1, CountsGrow
  <2> QED
    BY <1>0, <1>1, <2>1 DEF CommitInv, Primary
<1>2. ASSUME NEW n \in Correct, NEW k \in Kinds, NEW v \in Views,
             NEW b \in Blocks \cup {NoBlock},
             msgs' = msgs \cup {Msg(k, v, n, b)},
             k = "Commit" => /\ PreCommitted(v, b)
                             /\ stage[n][v] = "final" /\ b = proposal[n][v]
      PROVE  CommitInv'
  <2>1. \A u \in Views : \A a : PreCommitted(u, a) => PreCommitted(u, a)'
    BY <1>2, CountsGrow
  <2>2. k = "Commit" => b.proposer = Primary(v)
    BY <1>2 DEF StageInv, Verified
  <2>3. ASSUME NEW m \in msgs', m.kind = "Commit"
        PROVE  PreCommitted(m.view, m.block)' /\ m.block.proposer = Primary(m.view)
    <3>1. CASE m \in msgs
      BY <1>0, <2>1, <2>3, <3>1 DEF CommitInv
    <3>2. CASE m = Msg(k, v, n, b)
      BY <1>2, <2>1, <2>2, <2>3, <3>2 DEF Msg
    <3> QED
      BY <1>2, <3>1, <3>2
  <2> QED
    BY <2>3 DEF CommitInv, Primary
<1> QED
  BY <1>1, <1>2, StepSigns

(* A quorum of one view's commits seals the header. *)
LEMMA CommittedIsSealed ==
    ASSUME JournalInv, NEW v \in Views, NEW b, Committed(v, b)
    PROVE  Sealed(b)
<1>1. Voters("Commit", v, b) \in SUBSET HeaderSigners(b)
  BY DEF HeaderSigners
<1>2. HeaderSigners(b) \in SUBSET Validators
  BY VotersAreValidators
<1>3. /\ Cardinality(Voters("Commit", v, b)) <= Cardinality(HeaderSigners(b))
      /\ Cardinality(Voters("Commit", v, b)) \in Nat
      /\ Cardinality(HeaderSigners(b)) \in Nat
  BY <1>1, <1>2, ValidatorSets
<1> QED
  BY <1>3, QuorumArithmetic DEF Committed, Sealed

(* A step that imports, imports a sealed block and signs nothing.          *)
LEMMA StepImports ==
    ASSUME TypeOK, JournalInv, [Next]_vars
    PROVE  \/ imported' = imported
           \/ /\ msgs' = msgs
              /\ \E n \in Correct : imported' = [imported EXCEPT ![n] = NoBlock]
           \/ /\ msgs' = msgs
              /\ \E n \in Correct, b \in Blocks \cup {NoBlock} :
                    /\ Sealed(b) /\ imported[n] = NoBlock
                    /\ imported' = [imported EXCEPT ![n] = b]
<1> DEFINE Goal == \/ imported' = imported
                   \/ /\ msgs' = msgs
                      /\ \E n \in Correct : imported' = [imported EXCEPT ![n] = NoBlock]
                   \/ /\ msgs' = msgs
                      /\ \E n \in Correct, b \in Blocks \cup {NoBlock} :
                            /\ Sealed(b) /\ imported[n] = NoBlock
                            /\ imported' = [imported EXCEPT ![n] = b]
<1>1. ASSUME NEW n \in Correct, NEW b \in Blocks, ImportPropagated(n, b) PROVE Goal
  BY <1>1 DEF ImportPropagated, Active
<1>2. ASSUME NEW n \in Correct, NEW v \in Views, ImportCommitted(n, v) PROVE Goal
  <2>1. Sealed(proposal[n][v]) /\ proposal[n][v] \in Blocks \cup {NoBlock}
    BY <1>2, CommittedIsSealed DEF ImportCommitted, TypeOK
  <2> QED
    BY <1>2, <2>1 DEF ImportCommitted, Active
<1>3. ASSUME NEW n \in Correct, Crash(n) PROVE Goal
  BY <1>3 DEF Crash
<1>4. ASSUME NEW n \in Correct,
             \/ \E b \in Blocks : Propose(n, b) \/ AcceptProposal(n, b)
             \/ \E v \in Views : SendPreCommit(n, v) \/ SendCommit(n, v) \/ ChangeView(n, v)
             \/ VerifyProposal(n) \/ RejectProposal(n) \/ Reconstruct(n)
             \/ Timeout(n) \/ RecoverOwn(n)
      PROVE  imported' = imported
  BY <1>4 DEF Propose, AcceptProposal, SendPreCommit, SendCommit, ChangeView,
              VerifyProposal, RejectProposal, Reconstruct, Timeout, RecoverOwn
<1>5. CASE UNCHANGED vars
  BY <1>5 DEF vars
<1>6. Goal
  BY <1>1, <1>2, <1>3, <1>4, <1>5 DEF Next
<1> QED
  BY <1>6

LEMMA ImportStep ==
    ASSUME TypeOK, JournalInv, ImportInv, [Next]_vars
    PROVE  ImportInv'
<1>1. msgs \subseteq msgs'
  BY StepSigns
<1>2. \A b : Sealed(b) => Sealed(b)'
  BY <1>1, JournalStep, CountsGrow
<1>3. imported \in [Correct -> Blocks \cup {NoBlock}]
  BY DEF TypeOK
<1>4. \A n \in Correct : imported'[n] # NoBlock => Sealed(imported'[n])
  BY <1>3, StepImports DEF ImportInv
<1> QED
  BY <1>2, <1>4 DEF ImportInv

LEMMA InvInit == Init => Inv
<1> SUFFICES ASSUME Init PROVE Inv
  OBVIOUS
<1>1. JournalInv /\ CommitInv
  BY DEF Init, JournalInv, CommitInv
<1>2. StageInv
  BY DEF Init, StageInv, Verified
<1>3. ImportInv
  BY DEF Init, ImportInv
<1> QED
  BY <1>1, <1>2, <1>3, TypeInit DEF Inv

LEMMA InvStep == Inv /\ [Next]_vars => Inv'
  BY TypeStep, JournalStep, StageStep, CommitStep, ImportStep DEF Inv

LEMMA Invariance == Spec => []Inv
  BY InvInit, InvStep, PTL DEF Spec

(* Two sealed headers share a correct signer, who signs one per height.    *)
LEMMA InvOneSeal == Inv => OneSealPerHeight
<1> SUFFICES ASSUME Inv, NEW a \in Blocks, NEW b \in Blocks, Sealed(a), Sealed(b)
             PROVE  a = b
  BY DEF OneSealPerHeight
<1>1. PICK i \in Correct : i \in HeaderSigners(a) /\ i \in HeaderSigners(b)
  BY VotersAreValidators, QuorumsIntersect DEF Sealed, Inv
<1>2. i \notin Faulty
  BY DEF Correct
<1>3. PICK m1 \in msgs : m1.kind = "Commit" /\ m1.from = i /\ m1.block = a
  BY <1>1, <1>2 DEF HeaderSigners, Voters, Signers
<1>4. PICK m2 \in msgs : m2.kind = "Commit" /\ m2.from = i /\ m2.block = b
  BY <1>1, <1>2 DEF HeaderSigners, Voters, Signers
<1> QED
  BY <1>3, <1>4 DEF Inv, JournalInv

(* One block per height: no two headers collect a quorum of signatures, in *)
(* whatever views they were given and whatever restarts in between.        *)
THEOREM OneSeal == Spec => []OneSealPerHeight
  BY Invariance, InvOneSeal, PTL

LEMMA InvAgreement == Inv => Agreement
<1> SUFFICES ASSUME Inv, NEW n \in Correct, NEW o \in Correct,
                    imported[n] # NoBlock, imported[o] # NoBlock
             PROVE  imported[n] = imported[o]
  BY DEF Agreement
<1>1. imported[n] \in Blocks /\ imported[o] \in Blocks
  BY DEF Inv, TypeOK
<1>2. Sealed(imported[n]) /\ Sealed(imported[o])
  BY DEF Inv, ImportInv
<1> QED
  BY <1>1, <1>2, InvOneSeal DEF OneSealPerHeight

(* Correct validators never import different blocks at the height.         *)
THEOREM AgreementHolds == Spec => []Agreement
  BY Invariance, InvAgreement, PTL

(* Two preparation quorums share a correct validator: as a backup it gave  *)
(* one PrepareResponse in the view, as the primary one PrepareRequest.     *)
LEMMA InvOnePrepared == Inv => OnePreparedPerView
<1> SUFFICES ASSUME Inv, NEW v \in Views, NEW a \in Blocks, NEW b \in Blocks,
                    Prepared(v, a), Primary(v) \in Voters("PrepareRequest", v, a),
                    Prepared(v, b), Primary(v) \in Voters("PrepareRequest", v, b)
             PROVE  a = b
  BY DEF OnePreparedPerView
<1> DEFINE Preparers(c) == {Primary(v)} \cup (Voters("PrepareResponse", v, c) \ {Primary(v)})
<1>1. \A c : Preparers(c) \in SUBSET Validators
  BY VotersAreValidators, PrimaryIsValidator DEF Inv
<1>2. PICK i \in Correct : i \in Preparers(a) /\ i \in Preparers(b)
  BY <1>1, QuorumsIntersect DEF Prepared
<1>3. PICK k \in {"PrepareRequest", "PrepareResponse"} :
          i \in Voters(k, v, a) /\ i \in Voters(k, v, b)
  BY <1>2
<1>4. i \notin Faulty
  BY DEF Correct
<1>5. PICK m1 \in msgs : m1.kind = k /\ m1.view = v /\ m1.from = i /\ m1.block = a
  BY <1>3, <1>4 DEF Voters, Signers
<1>6. PICK m2 \in msgs : m2.kind = k /\ m2.view = v /\ m2.from = i /\ m2.block = b
  BY <1>3, <1>4 DEF Voters, Signers
<1> QED
  BY <1>5, <1>6 DEF Inv, JournalInv

(* In one view at most one proposed block is prepared, although a restart  *)
(* makes a validator forget the proposal it has answered.                  *)
THEOREM OnePrepared == Spec => []OnePreparedPerView
  BY Invariance, InvOnePrepared, PTL

LEMMA InvAfterShares == Inv => SealedAfterShares
<1> SUFFICES ASSUME Inv, NEW b \in Blocks, Sealed(b)
             PROVE  \E v \in Views : /\ b.proposer = Primary(v)
                                     /\ Prepared(v, b)
                                     /\ AntiMev => Cardinality(PreCommits(v)) >= Quorum
  BY DEF SealedAfterShares
<1>1. PICK i \in Correct : i \in HeaderSigners(b)
  BY VotersAreValidators, FaultyIsNoQuorum DEF Sealed, Inv
<1>2. PICK m \in msgs : m.kind = "Commit" /\ m.block = b
  BY <1>1 DEF HeaderSigners, Voters, Signers, Correct
<1>3. m.view \in Views
  BY DEF Inv, TypeOK, Message
<1> QED
  BY <1>2, <1>3 DEF Inv, CommitInv, PreCommitted

(* A sealed block was proposed by its primary, prepared by a quorum and,   *)
(* with Anti-MEV, sealed only after a quorum had released its shares.      *)
THEOREM SealedHasShares == Spec => []SealedAfterShares
  BY Invariance, InvAfterShares, PTL
-----------------------------------------------------------------------------
(* dBFT implements single-block finality.                                  *)
LEMMA FinalityInit == Init => Finality!Init
<1> SUFFICES ASSUME Init PROVE Finality!Init
  OBVIOUS
<1>1. ASSUME NEW b \in Blocks, Sealed(b) PROVE FALSE
  <2>1. HeaderSigners(b) \in SUBSET Validators
    BY InvInit, VotersAreValidators DEF Inv
  <2>2. PICK i \in Correct : i \in HeaderSigners(b)
    BY <1>1, <2>1, FaultyIsNoQuorum DEF Sealed
  <2> QED
    BY <2>2 DEF Init, HeaderSigners, Voters, Signers, Correct
<1>2. FinalBlock = NoBlock
  BY <1>1 DEF FinalBlock
<1> QED
  BY <1>2 DEF Finality!Init, Init

LEMMA FinalityStep ==
    Inv /\ Inv' /\ [Next]_vars => [Finality!Next]_<<FinalBlock, imported>>
<1> SUFFICES ASSUME Inv, Inv', [Next]_vars
             PROVE  [Finality!Next]_<<FinalBlock, imported>>
  OBVIOUS
<1> USE NoBlockAssumption
<1>1. \A b \in Blocks : Sealed(b) => FinalBlock = b
  BY InvOneSeal DEF OneSealPerHeight, FinalBlock
<1>2. OneSealPerHeight'
  BY InvOneSeal, PTL
<1>3. \A b \in Blocks : Sealed(b)' => FinalBlock' = b
  BY <1>2 DEF OneSealPerHeight, FinalBlock
<1>4. (\A b \in Blocks : ~Sealed(b)) => FinalBlock = NoBlock
  BY DEF FinalBlock
<1>5. (\A b \in Blocks : ~Sealed(b)') => FinalBlock' = NoBlock
  BY DEF FinalBlock
<1>6. \A b : Sealed(b) => Sealed(b)'
  BY StepSigns, CountsGrow DEF Inv
<1>7. FinalBlock' = FinalBlock \/ (FinalBlock = NoBlock /\ FinalBlock' \in Blocks)
  BY <1>1, <1>3, <1>4, <1>5, <1>6
<1>8. CASE imported' = imported
  BY <1>7, <1>8 DEF Finality!Next, Finality!Finalize
<1>9. ASSUME msgs' = msgs PROVE FinalBlock' = FinalBlock
  BY <1>9 DEF FinalBlock, Sealed, HeaderSigners, Voters, Signers
<1>10. ASSUME NEW n \in Correct, msgs' = msgs, imported' = [imported EXCEPT ![n] = NoBlock]
       PROVE  Finality!Next
  BY <1>9, <1>10 DEF Finality!Next, Finality!LoseImport
<1>11. ASSUME NEW n \in Correct, NEW b \in Blocks, msgs' = msgs, Sealed(b),
              imported[n] = NoBlock, imported' = [imported EXCEPT ![n] = b]
       PROVE  Finality!Next
  <2>1. FinalBlock = b /\ FinalBlock' = b
    BY <1>1, <1>9, <1>11
  <2> QED
    BY <1>11, <2>1 DEF Finality!Next, Finality!Import
<1> QED
  BY <1>8, <1>10, <1>11, StepImports DEF Inv

(* The validators together implement single-block finality: the block with *)
(* a quorum of header signatures is final and nothing else is imported.    *)
THEOREM ImplementsFinality == Spec => FinalitySpec
  BY Invariance, FinalityInit, FinalityStep, PTL DEF Spec, FinalitySpec, Finality!Spec
=============================================================================
