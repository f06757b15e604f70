----------------------------- MODULE DutyJournal -----------------------------
(***************************************************************************)
(* The durable duty journal of a validator's signer                        *)
(* (crates/neox/node/src/signer.rs).                                       *)
(*                                                                         *)
(* A duty is the key "block:view:kind"; the journal binds it to the hash   *)
(* of the one payload signed for it.  The file is a sequence of records    *)
(* in the order they were appended.  A record is "full" when its newline   *)
(* is in the file, "bare" when only the newline is missing, "part" when    *)
(* some of its text is missing too.  The text that follows a record        *)
(* without a newline continues the SAME line.                              *)
(***************************************************************************)
EXTENDS Naturals, Sequences, FiniteSets

CONSTANTS
    Duties,       \* the duty keys
    Payloads,     \* payload hashes
    NoPayload,    \* the absence of an entry in the map `signed'
    Cuts,         \* what may be left of an append that was cut short
    Stops,        \* how processes may end, machine by machine: sets of
                  \* "kill" and "power"
    MaxRecords    \* bound: records the file may hold

ASSUME CutsAssumption == Cuts \subseteq {"part", "bare"}
ASSUME StopsAssumption == Stops \subseteq SUBSET {"kill", "power"}
ASSUME NoPayloadAssumption == NoPayload \notin Payloads

VARIABLES
    file,         \* the text of the journal, as its sequence of records
    durable,      \* how many of these records an fsync has made durable
    open,         \* the process runs and holds the journal
    signed,       \* the map of duties reloaded and recorded since
    pending,      \* the record written and not yet synced: {} or one record
    signatures,   \* every signature the key has ever produced
    stops         \* how processes end on this machine, an element of Stops

vars == <<file, durable, open, signed, pending, signatures, stops>>

Record == [duty : Duties, payload : Payloads, cut : {"full"} \cup Cuts]
Rec(d, p, c) == [duty |-> d, payload |-> p, cut |-> c]
Signature == [duty : Duties, payload : Payloads]

(* Record i of f is a line of its own: it starts one, has its 64 hash      *)
(* digits, and nothing was appended to it.                                 *)
IsLine(f, i) ==
    /\ f[i].cut # "part"
    /\ i > 1 => f[i - 1].cut = "full"
    /\ f[i].cut = "bare" => i = Len(f)

(* Two records glued into one line: rsplit_once(':') takes everything      *)
(* before the last hash for the duty, which is then the key of no duty.    *)
Lines(f, d) == {i \in DOMAIN f : IsLine(f, i) /\ f[i].duty = d}

(* Mutant: the first line of a duty is kept.                               *)
LoadFirst(f) ==
    [d \in Duties |->
        IF Lines(f, d) = {} THEN NoPayload
        ELSE f[CHOOSE i \in Lines(f, d) : \A j \in Lines(f, d) : i <= j].payload]

(* The map DutyJournal::open builds: a later line overwrites an earlier.   *)
Load(f) ==
    [d \in Duties |->
        IF Lines(f, d) = {} THEN NoPayload
        ELSE f[CHOOSE i \in Lines(f, d) : \A j \in Lines(f, d) : j <= i].payload]

Init ==
    /\ file = << >>
    /\ durable = 0
    /\ open = FALSE
    /\ signed = [d \in Duties |-> NoPayload]
    /\ pending = {}
    /\ signatures = {}
    /\ stops \in Stops

(* Mutant: the duties of earlier runs are not reloaded.                    *)
OpenEmpty ==
    /\ ~open
    /\ open' = TRUE
    /\ UNCHANGED <<file, durable, signed, pending, signatures, stops>>

(* DutyJournal::open *)
Open ==
    /\ ~open
    /\ open' = TRUE
    /\ signed' = Load(file)
    /\ UNCHANGED <<file, durable, pending, signatures, stops>>

(* Mutant: the map learns the duty before sync_data returns.               *)
WriteEarly(d, p) ==
    /\ open /\ pending = {}
    /\ signed[d] = NoPayload
    /\ Len(file) < MaxRecords
    /\ file' = Append(file, Rec(d, p, "full"))
    /\ pending' = {[duty |-> d, payload |-> p]}
    /\ signed' = [signed EXCEPT ![d] = p]
    /\ UNCHANGED <<durable, open, signatures, stops>>

(* record: the duty is unknown, its line is written ... *)
Write(d, p) ==
    /\ open /\ pending = {}
    /\ signed[d] = NoPayload
    /\ Len(file) < MaxRecords
    /\ file' = Append(file, Rec(d, p, "full"))
    /\ pending' = {[duty |-> d, payload |-> p]}
    /\ UNCHANGED <<durable, open, signed, signatures, stops>>

(* ... or write_all fails, with nothing or a part of the line written:     *)
(* record returns the error and the map is not changed.                    *)
WriteFails(d, p) ==
    /\ open /\ pending = {}
    /\ signed[d] = NoPayload
    /\ Len(file) < MaxRecords
    /\ \E c \in Cuts : file' = Append(file, Rec(d, p, c))
    /\ UNCHANGED <<durable, open, signed, pending, signatures, stops>>

(* sync_data returns, and the map learns the duty. *)
Sync ==
    /\ open
    /\ \E r \in pending : signed' = [signed EXCEPT ![r.duty] = r.payload]
    /\ durable' = Len(file)
    /\ pending' = {}
    /\ UNCHANGED <<file, open, signatures, stops>>

(* sync_data fails: record returns the error with the line in the file. *)
SyncFails ==
    /\ open /\ pending # {}
    /\ pending' = {}
    /\ UNCHANGED <<file, durable, open, signed, signatures, stops>>

(* record returned Ok, now or for the same payload before: sign_message or *)
(* commit_for_header_at signs.  For another payload of a recorded duty     *)
(* record returns ConflictingDuty and nothing changes.                     *)
Sign(d, p) ==
    /\ open /\ pending = {}
    /\ signed[d] = p
    /\ signatures' = signatures \cup {[duty |-> d, payload |-> p]}
    /\ UNCHANGED <<file, durable, open, signed, pending, stops>>

Stopped ==
    /\ open
    /\ open' = FALSE
    /\ signed' = [d \in Duties |-> NoPayload]
    /\ pending' = {}
    /\ UNCHANGED <<signatures, stops>>

(* The process is killed.  What it wrote stays in the page cache, where    *)
(* the next process reads it, synced or not.                               *)
Kill ==
    /\ "kill" \in stops
    /\ Stopped
    /\ UNCHANGED <<file, durable>>

(* The machine loses power.  Synced records are on the disk; of the others *)
(* some first ones are, the last of them perhaps cut short.                *)
OnDisk(n, c) ==
    [i \in 1 .. n |-> IF i = n /\ n > durable /\ file[i].cut = "full"
                      THEN [file[i] EXCEPT !.cut = c]
                      ELSE file[i]]

PowerLoss ==
    /\ "power" \in stops
    /\ Stopped
    /\ \E n \in durable .. Len(file), c \in {"full"} \cup Cuts :
           file' = OnDisk(n, c) /\ durable' = n

Next ==
    \/ Open
    \/ \E d \in Duties, p \in Payloads :
           Write(d, p) \/ WriteFails(d, p) \/ Sign(d, p)
    \/ Sync
    \/ SyncFails
    \/ Kill
    \/ PowerLoss

Spec == Init /\ [][Next]_vars
-----------------------------------------------------------------------------
(* Type correctness of the journal: the map holds payload hashes only, and *)
(* no more of the file is durable than there is.                           *)
TypeOK ==
    /\ file \in Seq(Record)
    /\ durable \in 0 .. Len(file)
    /\ open \in BOOLEAN
    /\ signed \in [Duties -> Payloads \cup {NoPayload}]
    /\ pending \in SUBSET Signature
    /\ signatures \in SUBSET Signature
    /\ stops \in Stops

(* "a different payload for the same recorded duty is refused afterwards"  *)
(* (with_duty_journal): across crashes and restarts the key never signs    *)
(* two payloads for one duty.                                              *)
NoConflictingSignature ==
    \A s, t \in signatures : s.duty = t.duty => s.payload = t.payload

(* "each duty-bearing signature is recorded and fsync-flushed before it is *)
(* produced" (with_duty_journal): whatever was cut short elsewhere in the  *)
(* file, the text of every signature's record is there and is durable.     *)
SignedIsDurable ==
    \A s \in signatures :
        \E i \in 1 .. durable :
            /\ file[i].duty = s.duty /\ file[i].payload = s.payload
            /\ file[i].cut # "part"

(* The journal implements a signer that never signs two payloads for one   *)
(* duty, whatever crashes and restarts happen in between.                  *)
Safe == INSTANCE SafeSigner
SafeSignerSpec == Safe!Spec
=============================================================================
