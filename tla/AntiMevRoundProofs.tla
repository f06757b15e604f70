------------------------- MODULE AntiMevRoundProofs -------------------------
(***************************************************************************)
(* Each proposal is reconstructed by one task at a time and imported once, *)
(* with its final body, and none that could be imported is left: for any   *)
(* validators, proposals and orders of what arrives.                       *)
(***************************************************************************)
EXTENDS AntiMevRound, FiniteSetTheorems, SequenceTheorems, TLAPS

Attempt == [count : Nat, inFlight : BOOLEAN, retryable : BOOLEAN, retries : Nat, waiting : BOOLEAN]

Typed ==
    /\ base \in Proposals /\ at \in Proposals /\ live \in BOOLEAN
    /\ shares \in [Proposals -> SUBSET Committee]
    /\ verified \in [Proposals -> {"none", "pre", "final"}]
    /\ attempts \in [Proposals -> Attempt]
    /\ running \in [Proposals -> Seq(SUBSET Committee)]
    /\ imports \in [Proposals -> Seq({"pre", "final"})]
    /\ final \subseteq executed /\ executed \subseteq Proposals

(* A proposal has at most one task, and the current one is marked; a later *)
(* proposal has none, nor has one that is reconstructed.                   *)
TaskInv ==
    /\ \A p \in Proposals : running[p] = <<>> \/ (Len(running[p]) = 1 /\ p \in executed \ final)
    /\ live /\ running[at] # <<>> => attempts[at].inFlight
    /\ \A p \in Proposals : attempts[p].inFlight => running[p] # <<>>
    /\ \A p \in Proposals : p > at => p \notin executed

(* All there is to import: reconstructed, prepared, sealed and shared.     *)
Ready(p) == p \in prepared \cap final \cap sealable /\ Cardinality(shares[p]) >= ShareQuorum

(* What is verified was executed, as the final block if it has a header,   *)
(* and is neither imported before nor ready to be.                         *)
BodyInv ==
    \A p \in Proposals :
        /\ verified[p] # "none" => p \in executed
        /\ verified[p] = "pre" => p \notin final
        /\ imports[p] = <<>> \/ (imports[p] = <<"final">> /\ verified[p] = "none" /\ p \in final)
        /\ verified[p] = "final" => ~Ready(p)

RoundInv == Typed /\ TaskInv /\ BodyInv

(* A fresh attempt is an attempt that is not under way.                    *)
LEMMA FreshIsAttempt == Fresh \in Attempt /\ ~Fresh.inFlight
BY DEF Fresh, Attempt

(* The only task of a proposal ends.                                       *)
LEMMA TailOfOne ==
    ASSUME NEW S, NEW s \in Seq(S), Len(s) = 1
    PROVE  Tail(s) = <<>> /\ s # <<>>
<1>1. s # <<>>
  OBVIOUS
<1>2. Tail(s) \in Seq(S) /\ Len(Tail(s)) = Len(s) - 1
  BY <1>1, HeadTailProperties
<1>3. Len(Tail(s)) = 0
  BY <1>2
<1> QED
  BY <1>1, <1>2, <1>3, EmptySeq

(* The first task of a proposal starts.                                    *)
LEMMA FirstOfOne ==
    ASSUME NEW S, NEW s, s = <<>>, NEW e \in S
    PROVE  Append(s, e) \in Seq(S) /\ Len(Append(s, e)) = 1 /\ Append(s, e) # <<>>
<1>1. Append(<<>>, e) \in Seq(S) /\ Len(Append(<<>>, e)) = 1
  OBVIOUS
<1> QED
  BY <1>1

(* The number of shares is a number.                                       *)
LEMMA ShareCount ==
    ASSUME NEW S \in SUBSET Committee
    PROVE  Cardinality(S) \in Nat
BY RoundAssumption, FS_Subset, FS_CardinalityType

(* AntiMevReconstructionAttempt::begin marks the attempt.                  *)
LEMMA BegunIsMarked ==
    ASSUME NEW a \in Attempt, NEW n \in Nat
    PROVE  Begun(a, n) \in Attempt /\ Begun(a, n).inFlight
<1>1. CASE n > a.count
  <2>1. [Fresh EXCEPT !.count = n, !.inFlight = TRUE] \in Attempt
    BY FreshIsAttempt DEF Attempt
  <2>2. [Fresh EXCEPT !.count = n, !.inFlight = TRUE].inFlight
    BY DEF Fresh
  <2> QED
    BY <1>1, <2>1, <2>2 DEF Begun
<1>2. CASE ~(n > a.count)
  <2>1. a.retries + 1 \in Nat
    BY DEF Attempt
  <2>2. [a EXCEPT !.retryable = FALSE, !.retries = @ + 1, !.inFlight = TRUE] \in Attempt
    BY <2>1 DEF Attempt
  <2>3. [a EXCEPT !.retryable = FALSE, !.retries = @ + 1, !.inFlight = TRUE].inFlight
    BY DEF Attempt
  <2> QED
    BY <1>2, <2>2, <2>3 DEF Begun
<1> QED
  BY <1>1, <1>2

(* AntiMevReconstructor::finish takes the mark away.                       *)
LEMMA FinishedIsUnmarked ==
    ASSUME NEW p \in Proposals, NEW transient \in BOOLEAN, attempts \in [Proposals -> Attempt]
    PROVE  /\ Finished(attempts, p, transient) \in [Proposals -> Attempt]
           /\ ~Finished(attempts, p, transient)[p].inFlight
           /\ \A q \in Proposals \ {p} : Finished(attempts, p, transient)[q] = attempts[q]
<1>1. CASE attempts[p] = Fresh
  BY <1>1, FreshIsAttempt DEF Finished
<1>2. CASE attempts[p] # Fresh
  <2> DEFINE a == [attempts[p] EXCEPT !.inFlight = FALSE, !.retryable = transient, !.waiting = transient]
  <2>1. a \in Attempt /\ ~a.inFlight
    BY DEF Attempt
  <2>2. Finished(attempts, p, transient) = [attempts EXCEPT ![p] = a]
    BY <1>2 DEF Finished, Attempt
  <2> HIDE DEF a
  <2> QED
    BY <2>1, <2>2
<1> QED
  BY <1>1, <1>2

(* AntiMevReconstructor::schedule starts one task, of a proposal that has  *)
(* none under way and no final header.                                     *)
LEMMA ScheduleStarts ==
    ASSUME attempts \in [Proposals -> Attempt], running \in [Proposals -> Seq(SUBSET Committee)],
           shares' \in [Proposals -> SUBSET Committee],
           NEW q \in Proposals, NEW ver, Schedule(q, attempts, ver)
    PROVE  \/ attempts' = attempts /\ running' = running
           \/ /\ q \notin final' /\ ver[q] # "none" /\ ~attempts[q].inFlight
              /\ attempts' \in [Proposals -> Attempt] /\ attempts'[q].inFlight
              /\ running' = [running EXCEPT ![q] = Append(@, shares'[q])]
              /\ \A p \in Proposals \ {q} : attempts'[p] = attempts[p]
<1> DEFINE n == Cardinality(shares'[q])
           go == /\ q \notin final' /\ q \in prepared' /\ n >= ShareQuorum
                 /\ ver[q] # "none" /\ Starts(attempts[q], n)
<1>1. IF go
      THEN /\ attempts' = [attempts EXCEPT ![q] = Begun(attempts[q], n)]
           /\ running' = [running EXCEPT ![q] = Append(@, shares'[q])]
      ELSE attempts' = attempts /\ running' = running
  BY DEF Schedule
<1>2. n \in Nat
  BY ShareCount
<1>3. Begun(attempts[q], n) \in Attempt /\ Begun(attempts[q], n).inFlight
  BY <1>2, BegunIsMarked
<1>4. go => q \notin final' /\ ver[q] # "none" /\ ~attempts[q].inFlight
  BY DEF Starts
<1> HIDE DEF n, go
<1> QED
  BY <1>1, <1>3, <1>4

(* What is left of the tasks' invariant to show when schedule is called    *)
(* for the current proposal.                                               *)
LEMMA ScheduleKeepsTasks ==
    ASSUME RoundInv, live, UNCHANGED <<at, live, final>>, executed' \subseteq Proposals,
           executed \subseteq executed', executed' \subseteq executed \cup {at},
           shares' \in [Proposals -> SUBSET Committee],
           NEW ver, ver[at] # "none" => at \in executed', Schedule(at, attempts, ver)
    PROVE  /\ attempts' \in [Proposals -> Attempt]
           /\ running' \in [Proposals -> Seq(SUBSET Committee)]
           /\ TaskInv'
<1>0. /\ attempts \in [Proposals -> Attempt] /\ running \in [Proposals -> Seq(SUBSET Committee)]
      /\ at \in Proposals /\ at \in Nat /\ Proposals \subseteq Nat
  BY RoundAssumption DEF RoundInv, Typed
<1>1. CASE attempts' = attempts /\ running' = running
  BY <1>0, <1>1 DEF RoundInv, TaskInv
<1>2. CASE /\ at \notin final' /\ ver[at] # "none" /\ ~attempts[at].inFlight
           /\ attempts' \in [Proposals -> Attempt] /\ attempts'[at].inFlight
           /\ running' = [running EXCEPT ![at] = Append(@, shares'[at])]
           /\ \A p \in Proposals \ {at} : attempts'[p] = attempts[p]
  <2>1. running[at] = <<>>
    BY <1>2 DEF RoundInv, TaskInv
  <2>2. shares'[at] \in SUBSET Committee
    BY <1>0
  <2> DEFINE new == Append(running[at], shares'[at])
  <2>3. new \in Seq(SUBSET Committee) /\ Len(new) = 1 /\ new # <<>>
    BY <2>1, <2>2
  <2>4. /\ running' \in [Proposals -> Seq(SUBSET Committee)] /\ running'[at] = new
        /\ \A p \in Proposals \ {at} : running'[p] = running[p]
    <3> HIDE DEF new
    <3>1. running' = [running EXCEPT ![at] = new]
      BY <1>2 DEF new
    <3> QED
      BY <1>0, <2>3, <3>1
  <2> HIDE DEF new
  <2>5. \A p \in Proposals : running'[p] = <<>> \/ (Len(running'[p]) = 1 /\ p \in executed' \ final')
    BY <1>2, <2>3, <2>4 DEF RoundInv, TaskInv
  <2>6. live' /\ running'[at'] # <<>> => attempts'[at'].inFlight
    BY <1>2
  <2>7. \A p \in Proposals : attempts'[p].inFlight => running'[p] # <<>>
    BY <1>2, <2>3, <2>4 DEF RoundInv, TaskInv
  <2>8. \A p \in Proposals : p > at' => p \notin executed'
    BY <1>0 DEF RoundInv, TaskInv
  <2> QED
    BY <1>2, <2>4, <2>5, <2>6, <2>7, <2>8 DEF TaskInv
<1> QED
  BY <1>0, <1>1, <1>2, ScheduleStarts

(* schedule_committed_proposal takes a block once, as the final one.       *)
LEMMA ImportKeepsBodies ==
    ASSUME RoundInv, NEW q \in Proposals, NEW ver \in [Proposals -> {"none", "pre", "final"}],
           \A p \in Proposals :
               /\ ver[p] # "none" => p \in executed'
               /\ ver[p] = "pre" => p \notin final'
               /\ ver[p] # "none" => imports[p] = <<>>
               /\ imports[p] # <<>> => p \in final'
               /\ ver[p] = "final" /\ Ready(p)' => p = q,
           Import(q, ver)
    PROVE  /\ verified' \in [Proposals -> {"none", "pre", "final"}]
           /\ imports' \in [Proposals -> Seq({"pre", "final"})]
           /\ BodyInv'
<1>0. imports \in [Proposals -> Seq({"pre", "final"})]
  BY DEF RoundInv, Typed
<1>1. Sealed(q) <=> Ready(q)'
  BY DEF Sealed, Ready
<1>2. CASE Sealed(q) /\ ver[q] # "none"
  <2>1. q \in final'
    BY <1>2 DEF Sealed
  <2>2. ver[q] = "final" /\ imports[q] = <<>>
    BY <1>2, <2>1
  <2>3. Append(imports[q], ver[q]) = <<"final">> /\ <<"final">> \in Seq({"pre", "final"})
    BY <2>2
  <2>4. verified' = [ver EXCEPT ![q] = "none"] /\ imports' = [imports EXCEPT ![q] = <<"final">>]
    BY <1>2, <2>3 DEF Import
  <2>5. ASSUME NEW p \in Proposals
        PROVE  /\ verified'[p] # "none" => p \in executed'
               /\ verified'[p] = "pre" => p \notin final'
               /\ imports'[p] = <<>> \/ (imports'[p] = <<"final">> /\ verified'[p] = "none" /\ p \in final')
               /\ verified'[p] = "final" => ~Ready(p)'
    <3>1. CASE p = q
      BY <1>0, <2>1, <2>4, <3>1
    <3>2. CASE p # q
      <4>1. verified'[p] = ver[p] /\ imports'[p] = imports[p]
        BY <1>0, <2>4, <3>2
      <4>2. imports[p] = <<>> \/ imports[p] = <<"final">>
        BY DEF RoundInv, BodyInv
      <4>3. ver[p] = "none" \/ imports[p] = <<>>
        OBVIOUS
      <4> QED
        BY <3>2, <4>1, <4>2, <4>3
    <3> QED
      BY <3>1, <3>2
  <2>6. BodyInv'
    BY <2>5 DEF BodyInv
  <2> QED
    BY <1>0, <2>3, <2>4, <2>6
<1>3. CASE ~(Sealed(q) /\ ver[q] # "none")
  <2>1. verified' = ver /\ imports' = imports
    BY <1>3 DEF Import
  <2>2. ASSUME NEW p \in Proposals
        PROVE  /\ verified'[p] # "none" => p \in executed'
               /\ verified'[p] = "pre" => p \notin final'
               /\ imports'[p] = <<>> \/ (imports'[p] = <<"final">> /\ verified'[p] = "none" /\ p \in final')
               /\ verified'[p] = "final" => ~Ready(p)'
    <3>1. imports[p] = <<>> \/ imports[p] = <<"final">>
      BY DEF RoundInv, BodyInv
    <3>2. ver[p] = "final" => ~Ready(p)'
      BY <1>1, <1>3
    <3> QED
      BY <2>1, <3>1, <3>2
  <2>3. BodyInv'
    BY <2>2 DEF BodyInv
  <2> QED
    BY <1>0, <2>1, <2>3
<1> QED
  BY <1>2, <1>3

(* What holds of the bodies before a step that only adds messages.         *)
LEMMA VerifiedIsFresh ==
    ASSUME RoundInv, NEW p \in Proposals
    PROVE  /\ verified[p] # "none" => p \in executed
           /\ verified[p] = "pre" => p \notin final
           /\ verified[p] # "none" => imports[p] = <<>>
           /\ imports[p] # <<>> => p \in final
           /\ verified[p] = "final" => ~Ready(p)
BY DEF RoundInv, BodyInv

(* process_dbft_messages, with a message for a proposal of the round.      *)
LEMMA ProceedIsSafe ==
    ASSUME RoundInv, NEW p \in Proposals, live, UNCHANGED <<position, executed, final>>,
           shares' \in [Proposals -> SUBSET Committee],
           \A q \in Proposals \ {p} :
               /\ q \in prepared' <=> q \in prepared
               /\ q \in sealable' <=> q \in sealable
               /\ shares'[q] = shares[q],
           Proceed(p)
    PROVE  RoundInv'
<1>0. /\ live /\ at \in Proposals /\ verified \in [Proposals -> {"none", "pre", "final"}]
      /\ base' = base /\ at' = at /\ live' = live /\ executed' = executed /\ final' = final
      /\ executed \subseteq Proposals
  BY DEF RoundInv, Typed, position
<1>1. \A q \in Proposals \ {p} : Ready(q)' <=> Ready(q)
  BY <1>0 DEF Ready
<1>2. CASE Sealed(p)
  <2>1. Schedule(p, attempts, verified) /\ Import(p, verified)
    BY <1>2 DEF Proceed
  <2>2. p \in final'
    BY <1>2 DEF Sealed
  <2>3. attempts' = attempts /\ running' = running
    BY <2>1, <2>2 DEF Schedule
  <2>4. TaskInv'
    BY <1>0, <2>3 DEF RoundInv, TaskInv
  <2>5. /\ verified' \in [Proposals -> {"none", "pre", "final"}]
        /\ imports' \in [Proposals -> Seq({"pre", "final"})] /\ BodyInv'
    BY <1>0, <1>1, <2>1, VerifiedIsFresh, ImportKeepsBodies
  <2>6. Typed'
    BY <1>0, <2>3, <2>5 DEF RoundInv, Typed
  <2> QED
    BY <2>4, <2>5, <2>6 DEF RoundInv
<1>3. CASE ~Sealed(p)
  <2>1. Schedule(at, attempts, verified) /\ Import(at, verified)
    BY <1>3 DEF Proceed
  <2>2. ~Ready(p)'
    BY <1>3 DEF Sealed, Ready
  <2>3. /\ attempts' \in [Proposals -> Attempt]
        /\ running' \in [Proposals -> Seq(SUBSET Committee)] /\ TaskInv'
    BY <1>0, <2>1, VerifiedIsFresh, ScheduleKeepsTasks
  <2>4. /\ verified' \in [Proposals -> {"none", "pre", "final"}]
        /\ imports' \in [Proposals -> Seq({"pre", "final"})] /\ BodyInv'
    BY <1>0, <1>1, <2>1, <2>2, VerifiedIsFresh, ImportKeepsBodies
  <2>5. Typed'
    BY <1>0, <2>3, <2>4 DEF RoundInv, Typed
  <2> QED
    BY <2>3, <2>4, <2>5 DEF RoundInv
<1> QED
  BY <1>2, <1>3

(* handle_proposal_verification                                            *)
LEMMA ExecutedIsSafe ==
    ASSUME RoundInv, Executed
    PROVE  RoundInv'
<1> DEFINE ver == [verified EXCEPT ![at] = "pre"]
<1>0. /\ live /\ at \in Proposals /\ at \notin executed /\ executed' = executed \cup {at}
      /\ base' = base /\ at' = at /\ live' = live /\ final' = final /\ sealable' = sealable
      /\ verified \in [Proposals -> {"none", "pre", "final"}] /\ shares \in [Proposals -> SUBSET Committee]
      /\ prepared' \in {prepared, prepared \cup {at}}
      /\ final \subseteq executed /\ executed \subseteq Proposals /\ Self \in Committee
      /\ Schedule(at, attempts, ver) /\ Import(at, ver)
  BY RoundAssumption DEF Executed, RoundInv, Typed, position
<1>1. PICK own \in {{}, {Self}} : shares' = [shares EXCEPT ![at] = (@ \ Long) \cup own]
  <2>1. CASE at \in prepared'
    BY <2>1 DEF Executed
  <2>2. CASE at \notin prepared'
    BY <2>2 DEF Executed
  <2> QED
    BY <2>1, <2>2
<1>2. /\ shares' \in [Proposals -> SUBSET Committee]
      /\ \A q \in Proposals \ {at} : shares'[q] = shares[q]
  BY <1>0, <1>1
<1>3. ver \in [Proposals -> {"none", "pre", "final"}] /\ ver[at] = "pre" /\ \A q \in Proposals \ {at} : ver[q] = verified[q]
  BY <1>0
<1> HIDE DEF ver
<1>4. \A q \in Proposals \ {at} : Ready(q)' <=> Ready(q)
  BY <1>0, <1>2 DEF Ready
<1>5. at \notin final' /\ imports[at] = <<>>
  BY <1>0, VerifiedIsFresh
<1>6. /\ attempts' \in [Proposals -> Attempt]
      /\ running' \in [Proposals -> Seq(SUBSET Committee)] /\ TaskInv'
  BY <1>0, <1>2, <1>3, ScheduleKeepsTasks
<1>7. ASSUME NEW p \in Proposals
      PROVE  /\ ver[p] # "none" => p \in executed'
             /\ ver[p] = "pre" => p \notin final'
             /\ ver[p] # "none" => imports[p] = <<>>
             /\ imports[p] # <<>> => p \in final'
             /\ ver[p] = "final" /\ Ready(p)' => p = at
  BY <1>0, <1>3, <1>4, <1>5, VerifiedIsFresh
<1>8. /\ verified' \in [Proposals -> {"none", "pre", "final"}]
      /\ imports' \in [Proposals -> Seq({"pre", "final"})] /\ BodyInv'
  BY <1>0, <1>3, <1>7, ImportKeepsBodies
<1>9. Typed'
  BY <1>0, <1>2, <1>6, <1>8 DEF RoundInv, Typed
<1> QED
  BY <1>6, <1>8, <1>9 DEF RoundInv

(* handle_antimev_reconstruction, when there is a final block.             *)
LEMMA ReconstructedIsSafe ==
    ASSUME RoundInv, NEW p \in Proposals, Reconstructed(p)
    PROVE  RoundInv'
<1> DEFINE ver == [verified EXCEPT ![p] = "final"]
<1>0. /\ running[p] # <<>> /\ at = p /\ live /\ final' = final \cup {p}
      /\ running' = [running EXCEPT ![p] = Tail(@)] /\ attempts' = [attempts EXCEPT ![p] = Fresh]
      /\ base' = base /\ at' = at /\ live' = live /\ executed' = executed /\ sealable' = sealable
      /\ prepared' = prepared /\ shares' = shares
      /\ Import(p, ver)
  BY DEF Reconstructed, Stale, Discarded, position, messages
<1>1. /\ verified \in [Proposals -> {"none", "pre", "final"}] /\ attempts \in [Proposals -> Attempt]
      /\ running \in [Proposals -> Seq(SUBSET Committee)] /\ executed \subseteq Proposals
      /\ p \in executed \ final /\ Len(running[p]) = 1
  BY <1>0 DEF RoundInv, Typed, TaskInv
<1>2. Tail(running[p]) = <<>> /\ running[p] \in Seq(SUBSET Committee)
  BY <1>1, TailOfOne
<1>3. /\ running' \in [Proposals -> Seq(SUBSET Committee)] /\ running'[p] = <<>>
      /\ \A q \in Proposals \ {p} : running'[q] = running[q]
  BY <1>0, <1>1, <1>2
<1>4. /\ attempts' \in [Proposals -> Attempt] /\ ~attempts'[p].inFlight
      /\ \A q \in Proposals \ {p} : attempts'[q] = attempts[q]
  BY <1>0, <1>1, FreshIsAttempt
<1>5. TaskInv'
  BY <1>0, <1>3, <1>4 DEF RoundInv, TaskInv
<1>6. ver \in [Proposals -> {"none", "pre", "final"}] /\ ver[p] = "final" /\ \A q \in Proposals \ {p} : ver[q] = verified[q]
  BY <1>1
<1> HIDE DEF ver
<1>7. \A q \in Proposals \ {p} : Ready(q)' <=> Ready(q)
  BY <1>0 DEF Ready
<1>8. imports[p] = <<>>
  BY <1>1, VerifiedIsFresh
<1>9. ASSUME NEW q \in Proposals
      PROVE  /\ ver[q] # "none" => q \in executed'
             /\ ver[q] = "pre" => q \notin final'
             /\ ver[q] # "none" => imports[q] = <<>>
             /\ imports[q] # <<>> => q \in final'
             /\ ver[q] = "final" /\ Ready(q)' => q = p
  BY <1>0, <1>1, <1>6, <1>7, <1>8, VerifiedIsFresh
<1>10. /\ verified' \in [Proposals -> {"none", "pre", "final"}]
       /\ imports' \in [Proposals -> Seq({"pre", "final"})] /\ BodyInv'
  BY <1>0, <1>6, <1>9, ImportKeepsBodies
<1>11. Typed'
  BY <1>0, <1>1, <1>3, <1>4, <1>10 DEF RoundInv, Typed
<1> QED
  BY <1>5, <1>10, <1>11 DEF RoundInv

(* handle_antimev_reconstruction, of a failed attempt: a retry may follow. *)
LEMMA FailureIsSafe ==
    ASSUME RoundInv, NEW p \in Proposals, NEW transient \in BOOLEAN, ReconstructionFails(p, transient)
    PROVE  RoundInv'
<1> DEFINE att == Finished(attempts, p, transient)
           n == Cardinality(shares[p])
           again == p \notin final /\ Starts(att[p], n)
<1>0. /\ running[p] # <<>> /\ at = p /\ live
      /\ UNCHANGED <<base, at, live, prepared, shares, sealable, executed, final, verified, imports>>
  BY DEF ReconstructionFails, Stale, position, messages
<1>1. IF again
      THEN /\ attempts' = [att EXCEPT ![p] = Begun(att[p], n)]
           /\ running' = [running EXCEPT ![p] = Append(Tail(@), shares[p])]
      ELSE attempts' = att /\ running' = [running EXCEPT ![p] = Tail(@)]
  BY DEF ReconstructionFails
<1>2. /\ attempts \in [Proposals -> Attempt] /\ shares \in [Proposals -> SUBSET Committee]
      /\ running \in [Proposals -> Seq(SUBSET Committee)]
      /\ p \in executed \ final /\ Len(running[p]) = 1
  BY <1>0 DEF RoundInv, Typed, TaskInv
<1>3. /\ att \in [Proposals -> Attempt] /\ ~att[p].inFlight
      /\ \A q \in Proposals \ {p} : att[q] = attempts[q]
  BY <1>2, FinishedIsUnmarked
<1>4. n \in Nat
  BY <1>2, ShareCount
<1>5. Begun(att[p], n) \in Attempt /\ Begun(att[p], n).inFlight
  BY <1>3, <1>4, BegunIsMarked
<1>6. Tail(running[p]) = <<>>
  BY <1>2, TailOfOne
<1> DEFINE next == Append(Tail(running[p]), shares[p])
<1>7. next \in Seq(SUBSET Committee) /\ Len(next) = 1 /\ next # <<>>
  <2>1. shares[p] \in SUBSET Committee
    BY <1>2
  <2> QED
    BY <1>6, <2>1, FirstOfOne
<1>8. /\ again => running' = [running EXCEPT ![p] = next]
      /\ ~again => running' = [running EXCEPT ![p] = <<>>]
  BY <1>1, <1>2, <1>6
<1> HIDE DEF att, n, again, next
<1>9. /\ attempts' \in [Proposals -> Attempt] /\ running' \in [Proposals -> Seq(SUBSET Committee)]
      /\ \A q \in Proposals \ {p} : attempts'[q] = attempts[q] /\ running'[q] = running[q]
      /\ running'[p] = <<>> \/ Len(running'[p]) = 1
      /\ attempts'[p].inFlight <=> running'[p] # <<>>
  <2>1. CASE again
    <3>1. /\ attempts' \in [Proposals -> Attempt] /\ attempts'[p].inFlight
          /\ \A q \in Proposals \ {p} : attempts'[q] = attempts[q]
      BY <1>1, <1>3, <1>5, <2>1
    <3>2. /\ running' \in [Proposals -> Seq(SUBSET Committee)] /\ running'[p] = next
          /\ \A q \in Proposals \ {p} : running'[q] = running[q]
      BY <1>2, <1>7, <1>8, <2>1
    <3> QED
      BY <1>7, <3>1, <3>2
  <2>2. CASE ~again
    <3>1. /\ attempts' \in [Proposals -> Attempt] /\ ~attempts'[p].inFlight
          /\ \A q \in Proposals \ {p} : attempts'[q] = attempts[q]
      BY <1>1, <1>3, <2>2
    <3>2. <<>> \in Seq(SUBSET Committee)
      OBVIOUS
    <3>3. /\ running' \in [Proposals -> Seq(SUBSET Committee)] /\ running'[p] = <<>>
          /\ \A q \in Proposals \ {p} : running'[q] = running[q]
      BY <1>2, <1>8, <2>2, <3>2
    <3> QED
      BY <3>1, <3>3
  <2> QED
    BY <2>1, <2>2
<1>10. TaskInv'
  BY <1>0, <1>2, <1>9 DEF RoundInv, TaskInv
<1>11. BodyInv'
  BY <1>0 DEF RoundInv, BodyInv, Ready
<1>12. Typed'
  BY <1>0, <1>9 DEF RoundInv, Typed
<1> QED
  BY <1>10, <1>11, <1>12 DEF RoundInv

(* A result for a proposal that is not the current one.                    *)
LEMMA StaleIsSafe ==
    ASSUME RoundInv, NEW p \in Proposals, ReconstructionStale(p)
    PROVE  RoundInv'
<1>0. /\ running[p] # <<>> /\ (~live \/ at # p)
      /\ UNCHANGED <<base, at, live, prepared, shares, sealable, executed, final, verified, imports>>
      /\ running' = [running EXCEPT ![p] = Tail(@)] /\ attempts' = [attempts EXCEPT ![p] = Fresh]
  BY DEF ReconstructionStale, Stale, Discarded, position, messages
<1>1. /\ attempts \in [Proposals -> Attempt] /\ running \in [Proposals -> Seq(SUBSET Committee)]
      /\ Len(running[p]) = 1
  BY <1>0 DEF RoundInv, Typed, TaskInv
<1>2. Tail(running[p]) = <<>>
  BY <1>1, TailOfOne
<1>3. /\ attempts' \in [Proposals -> Attempt] /\ running' \in [Proposals -> Seq(SUBSET Committee)]
      /\ \A q \in Proposals \ {p} : attempts'[q] = attempts[q] /\ running'[q] = running[q]
      /\ running'[p] = <<>> /\ ~attempts'[p].inFlight
  <2>1. running' = [running EXCEPT ![p] = <<>>]
    BY <1>0, <1>1, <1>2
  <2>2. <<>> \in Seq(SUBSET Committee)
    OBVIOUS
  <2>3. /\ running' \in [Proposals -> Seq(SUBSET Committee)] /\ running'[p] = <<>>
        /\ \A q \in Proposals \ {p} : running'[q] = running[q]
    BY <1>1, <2>1, <2>2
  <2> QED
    BY <1>0, <1>1, <2>3, FreshIsAttempt
<1>4. TaskInv'
  BY <1>0, <1>3 DEF RoundInv, TaskInv
<1>5. BodyInv'
  BY <1>0 DEF RoundInv, BodyInv, Ready
<1>6. Typed'
  BY <1>0, <1>3 DEF RoundInv, Typed
<1> QED
  BY <1>4, <1>5, <1>6 DEF RoundInv

(* A view or a head advances.                                              *)
LEMMA AdvanceIsSafe ==
    ASSUME RoundInv, at + 1 \in Proposals, at' = at + 1, base' \in Proposals, live' \in BOOLEAN,
           verified' \in {verified, Unverified}, attempts' \in {attempts, Forgotten},
           UNCHANGED <<messages, executed, final, running, imports>>
    PROVE  RoundInv'
<1>0. /\ UNCHANGED <<prepared, shares, sealable, executed, final, running, imports>>
      /\ at \in Nat /\ Proposals \subseteq Nat
  BY RoundAssumption DEF messages, RoundInv, Typed
<1>1. attempts' \in [Proposals -> Attempt] /\ \A p \in Proposals : attempts'[p].inFlight => attempts[p].inFlight
  BY FreshIsAttempt DEF Forgotten, RoundInv, Typed
<1>2. /\ verified' \in [Proposals -> {"none", "pre", "final"}]
      /\ \A p \in Proposals : verified'[p] = "none" \/ verified'[p] = verified[p]
  BY DEF Unverified, RoundInv, Typed
<1>3. at' \notin executed /\ running'[at'] = <<>>
  BY <1>0 DEF RoundInv, TaskInv
<1>4. TaskInv'
  BY <1>0, <1>1, <1>3 DEF RoundInv, TaskInv
<1>5. BodyInv'
  BY <1>0, <1>2 DEF RoundInv, BodyInv, Ready
<1>6. Typed'
  BY <1>0, <1>1, <1>2 DEF RoundInv, Typed
<1> QED
  BY <1>4, <1>5, <1>6 DEF RoundInv

(* Nothing is verified, attempted or imported at first.                    *)
LEMMA RoundStart == AntiMevInit => RoundInv
<1> SUFFICES ASSUME AntiMevInit PROVE RoundInv
  OBVIOUS
<1>1. Typed
  <2>1. shares \in [Proposals -> SUBSET Committee] /\ verified \in [Proposals -> {"none", "pre", "final"}]
    BY DEF AntiMevInit, NoShares, Unverified
  <2>2. attempts \in [Proposals -> Attempt]
    BY FreshIsAttempt DEF AntiMevInit, Forgotten
  <2>3. running \in [Proposals -> Seq(SUBSET Committee)]
    BY DEF AntiMevInit, NoTasks
  <2>4. imports \in [Proposals -> Seq({"pre", "final"})]
    BY DEF AntiMevInit, NoTasks
  <2> QED
    BY <2>1, <2>2, <2>3, <2>4, RoundAssumption DEF AntiMevInit, Typed
<1>2. TaskInv
  BY RoundAssumption, FreshIsAttempt DEF AntiMevInit, TaskInv, NoTasks, Forgotten
<1>3. BodyInv
  BY DEF AntiMevInit, BodyInv, Unverified, NoTasks
<1> QED
  BY <1>1, <1>2, <1>3 DEF RoundInv

(* Every step of the driver keeps the invariant.                           *)
LEMMA RoundStep ==
    ASSUME RoundInv, [AntiMevNext]_antiMevVars
    PROVE  RoundInv'
<1>0. /\ at \in Proposals /\ base \in Proposals /\ live \in BOOLEAN /\ at \in Nat
      /\ shares \in [Proposals -> SUBSET Committee] /\ Self \in Committee
      /\ attempts \in [Proposals -> Attempt] /\ executed \subseteq Proposals
  BY RoundAssumption DEF RoundInv, Typed
<1>a. ASSUME NEW p, NEW prep, NEW own \in Own(p, prep) PROVE own \subseteq Committee
  BY <1>0 DEF Own
<1>1. CASE TakePreparations
  <2>1. PICK own \in Own(at, prepared') : shares' = [shares EXCEPT ![at] = @ \cup own]
    BY <1>1 DEF TakePreparations
  <2>2. own \subseteq Committee
    BY <1>a
  <2>3. shares' \in [Proposals -> SUBSET Committee] /\ \A q \in Proposals \ {at} : shares'[q] = shares[q]
    BY <1>0, <2>1, <2>2
  <2>4. /\ live /\ prepared' = prepared \cup {at} /\ sealable' = sealable
        /\ UNCHANGED <<position, executed, final>> /\ Proceed(at)
    BY <1>1 DEF TakePreparations
  <2> QED
    BY <1>0, <2>3, <2>4, ProceedIsSafe
<1>2. ASSUME NEW p \in Proposals, TakeCommits(p) PROVE RoundInv'
  <2>1. /\ live /\ prepared' = prepared /\ sealable' = sealable \cup {p} /\ shares' = shares
        /\ UNCHANGED <<position, executed, final>> /\ Proceed(p)
    BY <1>2 DEF TakeCommits, InRound
  <2> QED
    BY <1>0, <2>1, ProceedIsSafe
<1>3. ASSUME NEW p \in Proposals, NEW i \in Committee, TakeShare(p, i) PROVE RoundInv'
  <2>1. PICK own \in Own(p, prepared) : shares' = [shares EXCEPT ![p] = @ \cup {i} \cup own]
    BY <1>3 DEF TakeShare
  <2>2. own \subseteq Committee
    BY <1>a
  <2>3. shares' \in [Proposals -> SUBSET Committee] /\ \A q \in Proposals \ {p} : shares'[q] = shares[q]
    BY <1>0, <2>1, <2>2
  <2>4. /\ live /\ prepared' = prepared /\ sealable' = sealable
        /\ UNCHANGED <<position, executed, final>> /\ Proceed(p)
    BY <1>3 DEF TakeShare, InRound
  <2> QED
    BY <2>3, <2>4, ProceedIsSafe
<1>4. CASE Executed
  BY <1>4, ExecutedIsSafe
<1>5. CASE Wake
  <2>1. /\ live /\ Schedule(at, attempts, verified)
        /\ UNCHANGED <<base, at, live, prepared, shares, sealable, executed, final, verified, imports>>
    BY <1>5 DEF Wake, position, messages
  <2>2. verified[at] # "none" => at \in executed'
    BY <1>0, <2>1, VerifiedIsFresh
  <2>3. /\ attempts' \in [Proposals -> Attempt]
        /\ running' \in [Proposals -> Seq(SUBSET Committee)] /\ TaskInv'
    BY <1>0, <2>1, <2>2, ScheduleKeepsTasks
  <2>4. BodyInv'
    BY <2>1 DEF RoundInv, BodyInv, Ready
  <2>5. Typed'
    BY <2>1, <2>3 DEF RoundInv, Typed
  <2> QED
    BY <2>3, <2>4, <2>5 DEF RoundInv
<1>6. ASSUME NEW p \in Proposals, BackoffEnds(p) PROVE RoundInv'
  <2>1. /\ attempts' = [attempts EXCEPT ![p].waiting = FALSE]
        /\ UNCHANGED <<base, at, live, prepared, shares, sealable, executed, final, verified, running, imports>>
    BY <1>6 DEF BackoffEnds, position, messages
  <2> DEFINE a == [attempts[p] EXCEPT !.waiting = FALSE]
  <2>2. a \in Attempt /\ a.inFlight = attempts[p].inFlight
    BY <1>0 DEF Attempt
  <2>3. attempts' = [attempts EXCEPT ![p] = a]
    BY <1>0, <2>1 DEF Attempt
  <2> HIDE DEF a
  <2>4. attempts' \in [Proposals -> Attempt] /\ \A q \in Proposals : attempts'[q].inFlight = attempts[q].inFlight
    BY <1>0, <2>2, <2>3
  <2>5. TaskInv'
    BY <1>0, <2>1, <2>4 DEF RoundInv, TaskInv
  <2>6. BodyInv'
    BY <2>1 DEF RoundInv, BodyInv, Ready
  <2>7. Typed'
    BY <2>1, <2>4 DEF RoundInv, Typed
  <2> QED
    BY <2>5, <2>6, <2>7 DEF RoundInv
<1>7. ASSUME NEW b \in BOOLEAN, ViewAdvances(b) PROVE RoundInv'
  <2>1. /\ at + 1 \in Proposals /\ at' = at + 1 /\ base' \in Proposals /\ live' \in BOOLEAN
        /\ verified' \in {verified, Unverified} /\ attempts' \in {attempts, Forgotten}
        /\ UNCHANGED <<messages, executed, final, running, imports>>
    BY <1>0, <1>7 DEF ViewAdvances
  <2> QED
    BY <2>1, AdvanceIsSafe
<1>8. ASSUME NEW b \in BOOLEAN, HeadAdvances(b) PROVE RoundInv'
  <2>1. /\ at + 1 \in Proposals /\ at' = at + 1 /\ base' \in Proposals /\ live' \in BOOLEAN
        /\ verified' \in {verified, Unverified} /\ attempts' \in {attempts, Forgotten}
        /\ UNCHANGED <<messages, executed, final, running, imports>>
    BY <1>0, <1>8 DEF HeadAdvances
  <2> QED
    BY <2>1, AdvanceIsSafe
<1>9. CASE UNCHANGED antiMevVars
  BY <1>9 DEF antiMevVars, position, messages, RoundInv, Typed, TaskInv, BodyInv, Ready
<1> QED
  BY <1>1, <1>2, <1>3, <1>4, <1>5, <1>6, <1>7, <1>8, <1>9,
     StaleIsSafe, ReconstructedIsSafe, FailureIsSafe DEF AntiMevNext

(* The invariant implies the properties.                                   *)
LEMMA RoundInvSuffices == RoundInv => OneReconstruction /\ ImportsFinalOnce /\ NothingLeftToImport
<1> SUFFICES ASSUME RoundInv PROVE OneReconstruction /\ ImportsFinalOnce /\ NothingLeftToImport
  OBVIOUS
<1>1. OneReconstruction
  <2> SUFFICES ASSUME NEW p \in Proposals
               PROVE  Len(running[p]) <= 1 /\ (attempts[p].inFlight => Len(running[p]) = 1)
    BY DEF OneReconstruction
  <2>1. CASE running[p] = <<>>
    <3>1. ~attempts[p].inFlight
      BY <2>1 DEF RoundInv, TaskInv
    <3>2. Len(running[p]) = 0
      BY <2>1
    <3> QED
      BY <3>1, <3>2
  <2>2. CASE Len(running[p]) = 1
    BY <2>2
  <2> QED
    BY <2>1, <2>2 DEF RoundInv, TaskInv
<1>2. ImportsFinalOnce
  BY DEF RoundInv, BodyInv, ImportsFinalOnce
<1>3. NothingLeftToImport
  BY DEF RoundInv, BodyInv, NothingLeftToImport, Ready
<1> QED
  BY <1>1, <1>2, <1>3

(* The invariant holds of every behaviour.                                 *)
LEMMA RoundInvariant == AntiMevSpec => []RoundInv
<1>1. RoundInv /\ [AntiMevNext]_antiMevVars => RoundInv'
  BY RoundStep
<1> QED
  BY <1>1, RoundStart, PTL DEF AntiMevSpec

(* At most one reconstruction of a proposal runs, and the mark of one in   *)
(* flight never outlives it, through any views, retries and late results.  *)
THEOREM ReconstructsOnce == AntiMevSpec => []OneReconstruction
<1>1. RoundInv => OneReconstruction
  BY RoundInvSuffices
<1> QED
  BY <1>1, RoundInvariant, PTL

(* A proposal is imported at most once, and as the reconstructed block its *)
(* sealed header commits to.                                               *)
THEOREM ImportedFinalOnce == AntiMevSpec => []ImportsFinalOnce
<1>1. RoundInv => ImportsFinalOnce
  BY RoundInvSuffices
<1> QED
  BY <1>1, RoundInvariant, PTL

(* No order of the last share, the last Commit and the reconstruction      *)
(* leaves a sealed and reconstructed block lying in the round.             *)
THEOREM NothingIsLeft == AntiMevSpec => []NothingLeftToImport
<1>1. RoundInv => NothingLeftToImport
  BY RoundInvSuffices
<1> QED
  BY <1>1, RoundInvariant, PTL
=============================================================================
