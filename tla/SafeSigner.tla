----------------------------- MODULE SafeSigner -----------------------------
(***************************************************************************)
(* What a validator key promises, whatever happens to the process that     *)
(* holds it: a duty (block, view, kind) is signed for one payload only.    *)
(* The signature already given may be repeated; another one is never       *)
(* given (crates/neox/node/src/signer.rs, with_duty_journal).              *)
(***************************************************************************)
CONSTANTS Duties, Payloads

VARIABLE signatures    \* the set of signatures the key has produced

Signature == [duty : Duties, payload : Payloads]

Init == signatures = {}

Sign(d, p) ==
    /\ \A s \in signatures : s.duty = d => s.payload = p
    /\ signatures' = signatures \cup {[duty |-> d, payload |-> p]}

Next == \E d \in Duties, p \in Payloads : Sign(d, p)

Spec == Init /\ [][Next]_signatures
=============================================================================
