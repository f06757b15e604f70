------------------------------ MODULE MCKeyParts ------------------------------
(***************************************************************************)
(* What a validator does with its keys, part by part: the duty journal of  *)
(* its signer and the two halves of the DKG runtime.  A behaviour          *)
(* exercises one part, chosen at the start; they do not read each other's  *)
(* state.                                                                  *)
(***************************************************************************)
EXTENDS DutyJournal, DkgTasks, DkgSettled

VARIABLE part

partsVars == <<part, vars, dkgVars, keyVars>>

PartsInit ==
    /\ part \in {"journal", "tasks", "keys"} /\ Init /\ DkgInit /\ SettledInit
    /\ part # "journal" => stops = {"power"}
    /\ part # "keys" => disk = EmptyStore

PartsNext ==
    \/ part = "journal" /\ Next /\ UNCHANGED <<part, dkgVars, keyVars>>
    \/ part = "tasks" /\ DkgNext /\ UNCHANGED <<part, vars, keyVars>>
    \/ part = "keys" /\ SettledNext /\ UNCHANGED <<part, vars, dkgVars>>

PartsSpec == PartsInit /\ [][PartsNext]_partsVars /\ WF_keyVars(part = "keys" /\ Pulse)

(* The shape of the journal, of the task machine and of the key stores;    *)
(* tasks keep their nonces apart, a prover job is one that some task waits *)
(* for, and the marker that skips an installation tells the truth.         *)
KeyStateOK ==
    /\ TypeOK
    /\ DkgTypeOK /\ NoncesDistinct /\ JobAwaited
    /\ SettledTypeOK /\ MarkerTruthful


=============================================================================
