---------------------------- MODULE MCNodeParts ----------------------------
(***************************************************************************)
(* Four parts of the sync driver's loop: its rounds and their timer, the   *)
(* messages it keeps for later rounds, the reconstruction of encrypted     *)
(* proposals and the difficulty the node advertises.  A behaviour          *)
(* exercises one of them, chosen at the start; the parts do not read each  *)
(* other's state.                                                          *)
(***************************************************************************)
EXTENDS RoundClock, FutureMessages, AntiMevRound, CanonicalStatus

VARIABLE part

partVars == <<part, clockVars, futureVars, antiMevVars, statusVars>>

PartsInit ==
    /\ part \in {"clock", "future", "antimev", "status"}
    /\ ClockInit /\ FutureInit /\ AntiMevInit /\ StatusInit
    /\ part # "clock" => round = Nil
    /\ part # "status" => chain = <<>>

Clock == part = "clock" /\ ClockNext /\ UNCHANGED <<part, futureVars, antiMevVars, statusVars>>
Future == part = "future" /\ FutureNext /\ UNCHANGED <<part, clockVars, antiMevVars, statusVars>>
AntiMev == part = "antimev" /\ AntiMevNext /\ UNCHANGED <<part, clockVars, futureVars, statusVars>>
Status == part = "status" /\ StatusNext /\ UNCHANGED <<part, clockVars, futureVars, antiMevVars>>

PartsNext == Clock \/ Future \/ AntiMev \/ Status

(* The fairness of each part, while it is the one that moves. *)
PartsFairness ==
    /\ WF_clockVars(part = "clock" /\ \E ok, member \in BOOLEAN : Tick(ok, member))
    /\ WF_clockVars(part = "clock" /\ ReplayEnds)
    /\ WF_clockVars(part = "clock" /\ Fire)
    /\ WF_clockVars(part = "clock" /\ \E k \in channel : Timeout(k))
    /\ WF_clockVars(part = "clock" /\ \E e \in Epochs, fate \in Fates : BuildDone(e, fate))
    /\ WF_antiMevVars(part = "antimev" /\ Wake)
    /\ \A p \in Proposals : /\ WF_antiMevVars(part = "antimev" /\ BackoffEnds(p))
                            /\ WF_antiMevVars(part = "antimev" /\ Reconstructs(p))
    /\ WF_statusVars(part = "status" /\ StartNode)
    /\ WF_statusVars(part = "status" /\ ReconcileStatus)
    /\ WF_statusVars(/\ part = "status"
                     /\ \/ ReadHead \/ SumBatch \/ HeadMoved \/ Recheck
                        \/ \E b \in BOOLEAN : WalkBack(b) \/ Confirm(b))

PartsSpec == PartsInit /\ [][PartsNext]_partVars /\ PartsFairness

(* The shape of the driver's state: the bytes counted are those cached,    *)
(* nothing of a passed height is; a registered build runs; a proposal has  *)
(* one reconstruction, marked while it runs.                               *)
NodeStateOK ==
    /\ ClockTypeOK /\ BuildsTracked
    /\ FutureTypeOK /\ BytesExact /\ NothingPassed
    /\ AntiMevTypeOK /\ OneReconstruction
    /\ StatusTypeOK

(* AdvertisesHead, of the behaviours in which the node is started: the     *)
(* driver reconciles what it advertises with its chain until they agree.   *)
HeadAdvertised == part = "status" => AdvertisesHead

=============================================================================
