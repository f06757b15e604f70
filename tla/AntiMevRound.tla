---------------------------- MODULE AntiMevRound ----------------------------
(***************************************************************************)
(* From the shares of an encrypted proposal to the block the Engine gets:  *)
(* the sync driver schedules background reconstructions, retries them, and *)
(* hands a sealed block over for import, while preparations, PreCommits,   *)
(* Commits, the proposal's own execution and view changes come in any      *)
(* order.  Proposals are numbered in the order the node meets them; those  *)
(* from base to at belong to the current round, one per view.              *)
(***************************************************************************)
EXTENDS Naturals, Sequences, FiniteSets

CONSTANTS
    Proposals,      \* 1 .. n
    Committee,      \* the validators
    ShareQuorum,    \* round.quorum()
    Self,          \* this one
    Sound,          \* validators whose decryption shares are valid
    Long,           \* validators that send more shares than there are envelopes
    MaxRetries,     \* MAX_TRANSIENT_RETRIES, 5 in the code
    MaxFailures     \* transient failures that happen at all

ASSUME RoundAssumption == Proposals \subseteq Nat /\ 1 \in Proposals /\ IsFiniteSet(Committee) /\ Self \in Committee

VARIABLES
    base, at,       \* the proposals of the current round, and the one of its view
    live,           \* whether there is a round
    prepared,       \* proposals with a preparation quorum
    shares,         \* PreCommits of each proposal
    sealable,       \* proposals with a quorum of Commits
    executed,       \* proposals whose execution was verified
    final,          \* proposals with a final header
    verified,       \* verified_proposals: nothing, the pre-block or the final block
    attempts,       \* AntiMevReconstructor::attempts
    running,        \* reconstruction tasks of each proposal, by their share set
    imports,        \* blocks of each proposal handed to the Engine
    failures

messages == <<prepared, shares, sealable>>
position == <<base, at, live>>
antiMevVars == <<position, messages, executed, final, verified, attempts, running, imports, failures>>

Fresh == [count |-> 0, inFlight |-> FALSE, retryable |-> FALSE, retries |-> 0, waiting |-> FALSE]
Forgotten == [p \in Proposals |-> Fresh]
Unverified == [p \in Proposals |-> "none"]
NoShares == [p \in Proposals |-> {}]
NoTasks == [p \in Proposals |-> <<>>]

AntiMevInit ==
    /\ base = 1 /\ at = 1 /\ live = TRUE
    /\ prepared = {} /\ shares = NoShares /\ sealable = {} /\ executed = {} /\ final = {}
    /\ verified = Unverified /\ attempts = Forgotten
    /\ running = NoTasks /\ imports = NoTasks /\ failures = 0

(* As Starts, had the retries been counted with the first attempt. *)
StartsOnceLess(a, n) ==
    /\ ~a.inFlight
    /\ n > a.count \/ (a.retryable /\ a.retries + 1 < MaxRetries /\ ~a.waiting)

(* AntiMevReconstructionAttempt::begin *)
Starts(a, n) ==
    /\ ~a.inFlight
    /\ n > a.count \/ (a.retryable /\ a.retries < MaxRetries /\ ~a.waiting)

Begun(a, n) ==
    IF n > a.count THEN [Fresh EXCEPT !.count = n, !.inFlight = TRUE]
    ELSE [a EXCEPT !.retryable = FALSE, !.retries = @ + 1, !.inFlight = TRUE]

(* AntiMevReconstructor::schedule, on the messages as they now are. *)
Schedule(p, att, ver) ==
    LET n == Cardinality(shares'[p])
    IN  IF /\ p \notin final' /\ p \in prepared' /\ n >= ShareQuorum
           /\ ver[p] # "none" /\ Starts(att[p], n)
        THEN /\ attempts' = [att EXCEPT ![p] = Begun(att[p], n)]
             /\ running' = [running EXCEPT ![p] = Append(@, shares'[p])]
        ELSE attempts' = att /\ UNCHANGED running

(* progress(view) = Committed: the final header has a verified seal. *)
Sealed(p) ==
    p \in prepared' \cap final' \cap sealable' /\ Cardinality(shares'[p]) >= ShareQuorum

(* schedule_committed_proposal: a sealed proposal leaves the verified ones *)
(* for its import, whatever the Engine will make of it.                    *)
Import(p, ver) ==
    IF Sealed(p) /\ ver[p] # "none"
    THEN /\ verified' = [ver EXCEPT ![p] = "none"]
         /\ imports' = [imports EXCEPT ![p] = Append(@, ver[p])]
    ELSE verified' = ver /\ UNCHANGED imports

(* The own PreCommit, once the proposal is executed and prepared; signing  *)
(* may fail.                                                               *)
Own(p, prep) ==
    IF p \in prep /\ verified[p] # "none" THEN {{}, {Self}} ELSE {{}}

-----------------------------------------------------------------------------
(* process_dbft_messages: preparations of the current view, PreCommits and *)
(* Commits of any view of the round.                                       *)
InRound(p) == live /\ base <= p /\ p <= at

(* As Proceed, had only the current view been looked at. *)
ProceedCurrent(p) == Schedule(at, attempts, verified) /\ Import(at, verified)

Proceed(p) ==
    LET q == IF Sealed(p) THEN p ELSE at
    IN  Schedule(q, attempts, verified) /\ Import(q, verified)

TakePreparations ==
    /\ live /\ at \notin prepared
    /\ prepared' = prepared \cup {at}
    /\ \E own \in Own(at, prepared') : shares' = [shares EXCEPT ![at] = @ \cup own]
    /\ UNCHANGED <<position, sealable, executed, final, failures>>
    /\ Proceed(at)

TakeShare(p, i) ==
    /\ InRound(p) /\ i \notin shares[p] /\ (i \in Long => p \notin executed)
    /\ \E own \in Own(p, prepared) : shares' = [shares EXCEPT ![p] = @ \cup {i} \cup own]
    /\ UNCHANGED <<position, prepared, sealable, executed, final, failures>>
    /\ Proceed(p)

TakeCommits(p) ==
    /\ InRound(p) /\ p \notin sealable
    /\ sealable' = sealable \cup {p}
    /\ UNCHANGED <<position, prepared, shares, executed, final, failures>>
    /\ Proceed(p)

(* handle_proposal_verification of the current proposal: the only result,  *)
(* since one verification is begun for a proposal.  PreCommits with more   *)
(* shares than there are envelopes go; the own one is tried before and     *)
(* after the own PrepareResponse, which may complete the preparations.     *)
Executed ==
    /\ live /\ at \notin executed
    /\ executed' = executed \cup {at}
    /\ prepared' \in {prepared, prepared \cup {at}}
    /\ \E own \in IF at \in prepared' THEN {{}, {Self}} ELSE {{}} :
          shares' = [shares EXCEPT ![at] = (@ \ Long) \cup own]
    /\ UNCHANGED <<position, sealable, final, failures>>
    /\ Schedule(at, attempts, [verified EXCEPT ![at] = "pre"])
    /\ Import(at, [verified EXCEPT ![at] = "pre"])

(* The maintenance tick wakes what waited out its backoff. *)
Wake ==
    /\ live
    /\ UNCHANGED <<position, messages, executed, final, verified, imports, failures>>
    /\ Schedule(at, attempts, verified)

BackoffEnds(p) ==
    /\ attempts[p].waiting
    /\ attempts' = [attempts EXCEPT ![p].waiting = FALSE]
    /\ UNCHANGED <<position, messages, executed, final, verified, running, imports, failures>>

-----------------------------------------------------------------------------
(* A reconstruction ends in a transient failure, or by what its shares can *)
(* decrypt, and handle_antimev_reconstruction takes the result.            *)
Decrypts(s) == Cardinality(s \cap Sound) >= ShareQuorum

Finished(att, p, transient) ==
    IF att[p] = Fresh THEN att
    ELSE [att EXCEPT ![p].inFlight = FALSE, ![p].retryable = transient, ![p].waiting = transient]

Discarded(att, p) == [att EXCEPT ![p] = Fresh]

Stale(p) == ~live \/ at # p

ReconstructionStale(p) ==
    /\ running[p] # <<>> /\ Stale(p)
    /\ running' = [running EXCEPT ![p] = Tail(@)]
    /\ attempts' = Discarded(attempts, p)
    /\ UNCHANGED <<position, messages, executed, final, verified, imports, failures>>

ReconstructionFails(p, transient) ==
    /\ running[p] # <<>> /\ ~Stale(p)
    /\ IF transient THEN failures < MaxFailures ELSE ~Decrypts(Head(running[p]))
    /\ failures' = IF transient THEN failures + 1 ELSE failures
    /\ UNCHANGED <<position, messages, executed, final, verified, imports>>
    /\ LET att == Finished(attempts, p, transient)
           n == Cardinality(shares[p])
       IN  IF p \notin final /\ Starts(att[p], n)
           THEN /\ attempts' = [att EXCEPT ![p] = Begun(att[p], n)]
                /\ running' = [running EXCEPT ![p] = Append(Tail(@), shares[p])]
           ELSE /\ attempts' = att
                /\ running' = [running EXCEPT ![p] = Tail(@)]

(* As Reconstructed, had the final block not replaced the executed one. *)
ReconstructedHeader(p) ==
    /\ running[p] # <<>> /\ ~Stale(p) /\ Decrypts(Head(running[p]))
    /\ running' = [running EXCEPT ![p] = Tail(@)]
    /\ attempts' = Discarded(attempts, p)
    /\ final' = final \cup {p}
    /\ UNCHANGED <<position, messages, executed, failures>>
    /\ Import(p, verified)

Reconstructed(p) ==
    /\ running[p] # <<>> /\ ~Stale(p) /\ Decrypts(Head(running[p]))
    /\ running' = [running EXCEPT ![p] = Tail(@)]
    /\ attempts' = Discarded(attempts, p)
    /\ final' = final \cup {p}
    /\ UNCHANGED <<position, messages, executed, failures>>
    /\ Import(p, [verified EXCEPT ![p] = "final"])

-----------------------------------------------------------------------------
(* The view changes on a peer's vote, which clears what is verified and    *)
(* attempted, or on the own timeout, which keeps it.                       *)
ViewAdvances(cleared) ==
    /\ live /\ at + 1 \in Proposals
    /\ at' = at + 1
    /\ verified' = IF cleared THEN Unverified ELSE verified
    /\ attempts' = IF cleared THEN Forgotten ELSE attempts
    /\ UNCHANGED <<base, live, messages, executed, final, running, imports, failures>>

(* A new canonical head starts a round, or finds no state to start one. *)
HeadAdvances(active) ==
    /\ at + 1 \in Proposals
    /\ at' = at + 1 /\ base' = at + 1 /\ live' = active
    /\ verified' = Unverified /\ attempts' = Forgotten
    /\ UNCHANGED <<messages, executed, final, running, imports, failures>>

AntiMevNext ==
    \/ TakePreparations
    \/ \E p \in Proposals : TakeCommits(p) \/ \E i \in Committee : TakeShare(p, i)
    \/ Executed
    \/ Wake
    \/ \E p \in Proposals :
          \/ BackoffEnds(p) \/ ReconstructionStale(p) \/ Reconstructed(p)
          \/ \E transient \in BOOLEAN : ReconstructionFails(p, transient)
    \/ \E b \in BOOLEAN : ViewAdvances(b) \/ HeadAdvances(b)

(* Tasks end, backoffs pass and the tick comes every second. *)
Reconstructs(p) ==
    \/ ReconstructionStale(p) \/ Reconstructed(p)
    \/ \E transient \in BOOLEAN : ReconstructionFails(p, transient)

AntiMevFairness ==
    /\ WF_antiMevVars(Wake)
    /\ \A p \in Proposals : WF_antiMevVars(BackoffEnds(p)) /\ WF_antiMevVars(Reconstructs(p))

AntiMevSpec == AntiMevInit /\ [][AntiMevNext]_antiMevVars /\ AntiMevFairness

-----------------------------------------------------------------------------
(* Type correctness; only executed proposals have a final header, and      *)
(* begin never counts more retries than MAX_TRANSIENT_RETRIES.             *)
AntiMevTypeOK ==
    /\ base \in Proposals /\ at \in Proposals /\ base <= at /\ live \in BOOLEAN
    /\ prepared \subseteq Proposals /\ sealable \subseteq Proposals
    /\ final \subseteq executed /\ executed \subseteq Proposals
    /\ shares \in [Proposals -> SUBSET Committee]
    /\ verified \in [Proposals -> {"none", "pre", "final"}]
    /\ \A p \in Proposals : attempts[p].retries \in 0 .. MaxRetries
    /\ failures \in 0 .. MaxFailures

(* "Owns ... attempt ownership": at most one reconstruction of a proposal  *)
(* runs at a time, and a proposal marked as in flight has one, so that the *)
(* mark never outlives the task and blocks the proposal for good.          *)
OneReconstruction ==
    \A p \in Proposals :
        Len(running[p]) <= 1 /\ (attempts[p].inFlight => Len(running[p]) = 1)

(* Whatever the order of execution, shares, Commits and view changes, each *)
(* proposal is imported at most once and with the reconstructed body its   *)
(* sealed header commits to, never with the encrypted pre-block.           *)
ImportsFinalOnce == \A p \in Proposals : imports[p] \in {<<>>, <<"final">>}

(* A block that is reconstructed and sealed is on its way to the Engine:   *)
(* no order of the last share, the result and the last Commit leaves it    *)
(* lying in the round.                                                     *)
NothingLeftToImport ==
    \A p \in Proposals :
        InRound(p) /\ verified[p] = "final" =>
            ~(p \in prepared \cap final \cap sealable /\ Cardinality(shares[p]) >= ShareQuorum)

(* "Transient state failures retry the same share set this many times": a  *)
(* proposal with a quorum of sound shares is reconstructed unless it is    *)
(* left, even when shares arrive during an attempt and as many attempts as *)
(* the bound fail for a passing reason.                                    *)
Reconstructible(p) ==
    /\ live /\ at = p /\ p \in prepared /\ verified[p] = "pre"
    /\ Decrypts(shares[p])

SharesSuffice ==
    \A p \in Proposals : Reconstructible(p) ~> (p \in final \/ Stale(p))

=============================================================================
