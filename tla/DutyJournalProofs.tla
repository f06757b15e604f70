------------------------- MODULE DutyJournalProofs -------------------------
(***************************************************************************)
(* Proofs about the duty journal: what every crash leaves intact, and why  *)
(* a journal whose appends are never cut short implements SafeSigner.      *)
(***************************************************************************)
EXTENDS DutyJournal, WellFoundedInduction, TLAPS

(* A non-empty set of positions of a sequence has a last one: the last     *)
(* line for a duty, which DutyJournal::open keeps, exists.                 *)
LEMMA LastExists ==
    ASSUME NEW n \in Nat, NEW S \in SUBSET (1 .. n), S # {}
    PROVE  \E i \in S : \A j \in S : j <= i
<1> DEFINE T == {n - i : i \in S}
           R == {ss \in Nat \X Nat : ss[1] < ss[2]}
<1>1. T \in SUBSET Nat /\ T # {}
  <2>1. PICK e : e \in S
    OBVIOUS
  <2>2. n - e \in T
    BY <2>1
  <2>3. \A i \in S : n - i \in Nat
    OBVIOUS
  <2> QED
    BY <2>2, <2>3
<1>2. IsWellFoundedOn(R, Nat)
  BY NatLessThanWellFounded DEF OpToRel
<1>3. PICK x \in T : \A y \in T : ~(<<y, x>> \in R)
  <2> HIDE DEF T, R
  <2> QED
    BY <1>1, <1>2, WFMin
<1>4. \A y \in T : ~(y < x)
  BY <1>1, <1>3
<1>5. PICK i \in S : x = n - i
  BY <1>3
<1>6. \A j \in S : ~(n - j < n - i)
  BY <1>4, <1>5
<1> QED
  BY <1>6
(* Load keeps, for a duty with a line, the payload of its last line.       *)
LEMMA LoadIsLast ==
    ASSUME NEW f \in Seq(Record), NEW d \in Duties, Lines(f, d) # {}
    PROVE  \E i \in Lines(f, d) :
               /\ \A j \in Lines(f, d) : j <= i
               /\ Load(f)[d] = f[i].payload
<1>1. Len(f) \in Nat /\ Lines(f, d) \in SUBSET (1 .. Len(f))
  BY DEF Lines
<1>2. \E i \in Lines(f, d) : \A j \in Lines(f, d) : j <= i
  BY <1>1, LastExists
<1> DEFINE k == CHOOSE i \in Lines(f, d) : \A j \in Lines(f, d) : j <= i
<1>3. k \in Lines(f, d) /\ \A j \in Lines(f, d) : j <= k
  BY <1>2
<1>4. Load(f)[d] = f[k].payload
  BY DEF Load
<1> QED
  BY <1>3, <1>4

(* The map that is reloaded binds duties to payloads.                      *)
LEMMA LoadType ==
    ASSUME NEW f \in Seq(Record)
    PROVE  Load(f) \in [Duties -> Payloads \cup {NoPayload}]
<1> SUFFICES ASSUME NEW d \in Duties
             PROVE  Load(f)[d] \in Payloads \cup {NoPayload}
  BY DEF Load
<1>1. CASE Lines(f, d) = {}
  BY <1>1 DEF Load
<1>2. CASE Lines(f, d) # {}
  <2>1. PICK i \in Lines(f, d) : Load(f)[d] = f[i].payload
    BY <1>2, LoadIsLast
  <2>2. f[i] \in Record
    BY <2>1 DEF Lines
  <2> QED
    BY <2>1, <2>2 DEF Record
<1> QED
  BY <1>1, <1>2

(* What a power loss leaves: a prefix, its durable records untouched, its  *)
(* other records with the duty and the payload they had.                   *)
LEMMA OnDiskIsPrefix ==
    ASSUME TypeOK, NEW n \in durable .. Len(file), NEW c \in {"full"} \cup Cuts
    PROVE  /\ OnDisk(n, c) \in Seq(Record)
           /\ Len(OnDisk(n, c)) = n
           /\ \A i \in 1 .. durable : OnDisk(n, c)[i] = file[i]
           /\ \A i \in 1 .. n : /\ OnDisk(n, c)[i].duty = file[i].duty
                                /\ OnDisk(n, c)[i].payload = file[i].payload
<1>1. n \in Nat /\ n <= Len(file) /\ durable \in Nat /\ durable <= n
  BY DEF TypeOK
<1>2. \A i \in 1 .. n : file[i] \in Record
  BY <1>1 DEF TypeOK
<1>3. \A i \in 1 .. n : /\ OnDisk(n, c)[i] \in Record
                        /\ OnDisk(n, c)[i].duty = file[i].duty
                        /\ OnDisk(n, c)[i].payload = file[i].payload
  BY <1>2 DEF OnDisk, Record
<1>4. OnDisk(n, c) \in [1 .. n -> Record]
  BY <1>3 DEF OnDisk
<1>5. OnDisk(n, c) \in Seq(Record) /\ Len(OnDisk(n, c)) = n
  BY <1>1, <1>4
<1>6. \A i \in 1 .. durable : OnDisk(n, c)[i] = file[i]
  BY <1>1 DEF OnDisk
<1> QED
  BY <1>3, <1>5, <1>6
-----------------------------------------------------------------------------
(* Every step keeps the types; a cut append adds a record like any other.  *)
THEOREM TypeCorrect == Spec => []TypeOK
<1>1. Init => TypeOK
  <2>1. << >> \in Seq(Record) /\ Len(<< >>) = 0
    OBVIOUS
  <2>2. SUFFICES ASSUME Init PROVE TypeOK
    OBVIOUS
  <2>3. file \in Seq(Record) /\ durable \in 0 .. Len(file)
    BY <2>1, <2>2 DEF Init
  <2>4. open \in BOOLEAN
    BY <2>2 DEF Init
  <2>5. signed \in [Duties -> Payloads \cup {NoPayload}]
    BY <2>2 DEF Init
  <2>6. pending \in SUBSET Signature /\ signatures \in SUBSET Signature /\ stops \in Stops
    BY <2>2 DEF Init
  <2> QED
    BY <2>3, <2>4, <2>5, <2>6 DEF TypeOK
<1>2. TypeOK /\ [Next]_vars => TypeOK'
  <2> SUFFICES ASSUME TypeOK, [Next]_vars
               PROVE  TypeOK'
    OBVIOUS
  <2> USE DEF TypeOK, Signature
  <2>1. CASE Open
    BY <2>1, LoadType DEF Open
  <2>2. ASSUME NEW d \in Duties, NEW p \in Payloads, Write(d, p)
        PROVE  TypeOK'
    <3>1. Rec(d, p, "full") \in Record
      BY DEF Rec, Record
    <3> QED
      BY <2>2, <3>1 DEF Write
  <2>3. ASSUME NEW d \in Duties, NEW p \in Payloads, WriteFails(d, p)
        PROVE  TypeOK'
    <3>1. \A c \in Cuts : Rec(d, p, c) \in Record
      BY DEF Rec, Record
    <3> QED
      BY <2>3, <3>1 DEF WriteFails
  <2>4. ASSUME NEW d \in Duties, NEW p \in Payloads, Sign(d, p)
        PROVE  TypeOK'
    BY <2>4 DEF Sign
  <2>5. CASE Sync
    BY <2>5 DEF Sync
  <2>6. CASE SyncFails
    BY <2>6 DEF SyncFails
  <2>7. CASE Kill
    BY <2>7 DEF Kill, Stopped
  <2>8. CASE PowerLoss
    <3>1. PICK n \in durable .. Len(file), c \in {"full"} \cup Cuts :
              file' = OnDisk(n, c) /\ durable' = n
      BY <2>8 DEF PowerLoss
    <3>2. file' \in Seq(Record) /\ Len(file') = n
      BY <3>1, OnDiskIsPrefix
    <3>3. n \in 0 .. n
      OBVIOUS
    <3> QED
      BY <2>8, <3>1, <3>2, <3>3 DEF PowerLoss, Stopped
  <2>9. CASE UNCHANGED vars
    BY <2>9 DEF vars
  <2> QED
    BY <2>1, <2>2, <2>3, <2>4, <2>5, <2>6, <2>7, <2>8, <2>9 DEF Next
<1> QED
  BY <1>1, <1>2, PTL DEF Spec
-----------------------------------------------------------------------------
(* The record of (d, p) is on the disk, whole but perhaps for its newline. *)
OnFile(d, p) ==
    \E i \in 1 .. durable :
        file[i].duty = d /\ file[i].payload = p /\ file[i].cut # "part"

(* The record being written is the last of the file.                       *)
PendingIsLast ==
    \A r \in pending :
        Len(file) > 0 /\ file[Len(file)] = Rec(r.duty, r.payload, "full")

(* SignedIsDurable is not inductive: a signature is given for what the map *)
(* says, so what the map says must be durable too, and what is reloaded    *)
(* must be, which holds when nothing unsynced outlives the process.        *)
DurableInv ==
    /\ TypeOK
    /\ PendingIsLast
    /\ ~open => durable = Len(file) /\ pending = {}
    /\ \A d \in Duties : signed[d] # NoPayload => OnFile(d, signed[d])
    /\ SignedIsDurable

LEMMA DurableInit == Init /\ TypeOK => DurableInv
BY DEF Init, DurableInv, PendingIsLast, SignedIsDurable

(* Every step keeps DurableInv when only a power loss stops the process.   *)
LEMMA DurableStep ==
    ASSUME \A r \in Stops : "kill" \notin r, DurableInv, TypeOK', [Next]_vars
    PROVE  DurableInv'
<1> USE DEF DurableInv
<1>0. /\ Len(file) \in Nat /\ durable \in Nat /\ durable <= Len(file)
      /\ \A i \in 1 .. Len(file) : file[i] \in Record
  BY DEF TypeOK
<1>1. CASE Open
  <2>1. durable = Len(file) /\ UNCHANGED <<file, durable, pending, signatures>>
    BY <1>1 DEF Open
  <2>2. ASSUME NEW d \in Duties, Load(file)[d] # NoPayload
        PROVE  OnFile(d, Load(file)[d])
    <3>1. Lines(file, d) # {}
      BY <2>2 DEF Load
    <3>2. PICK i \in Lines(file, d) : Load(file)[d] = file[i].payload
      BY <3>1, LoadIsLast DEF TypeOK
    <3> QED
      BY <2>1, <3>2 DEF Lines, IsLine, OnFile, TypeOK
  <2> QED
    BY <1>1, <2>1, <2>2 DEF Open, OnFile, PendingIsLast, SignedIsDurable
<1>2. ASSUME NEW d \in Duties, NEW p \in Payloads, NEW c \in {"full"} \cup Cuts,
             file' = Append(file, Rec(d, p, c)),
             UNCHANGED <<durable, open, signed, signatures>>, open,
             pending' \in {{}, {[duty |-> d, payload |-> p]}},
             pending' # {} => c = "full"
      PROVE  DurableInv'
  <2>1. /\ Len(file') = Len(file) + 1
        /\ \A i \in 1 .. Len(file) : file'[i] = file[i]
        /\ file'[Len(file')] = Rec(d, p, c)
    BY <1>2, <1>0 DEF TypeOK
  <2>2. \A e \in Duties : signed[e] # NoPayload => OnFile(e, signed[e])'
    BY <1>0, <1>2, <2>1 DEF OnFile
  <2>3. SignedIsDurable'
    BY <1>0, <1>2, <2>1 DEF SignedIsDurable
  <2>4. PendingIsLast'
    BY <1>0, <1>2, <2>1 DEF PendingIsLast
  <2> QED
    BY <1>2, <2>2, <2>3, <2>4
<1>3. ASSUME NEW d \in Duties, NEW p \in Payloads, Write(d, p)
      PROVE  DurableInv'
  BY <1>2, <1>3 DEF Write
<1>4. ASSUME NEW d \in Duties, NEW p \in Payloads, WriteFails(d, p)
      PROVE  DurableInv'
  <2>1. pending' = {}
    BY <1>4 DEF WriteFails
  <2> QED
    BY <1>2, <1>4, <2>1 DEF WriteFails
<1>5. ASSUME NEW d \in Duties, NEW p \in Payloads, Sign(d, p)
      PROVE  DurableInv'
  <2>1. OnFile(d, p)
    BY <1>5, NoPayloadAssumption DEF Sign
  <2>2. SignedIsDurable'
    BY <1>5, <2>1 DEF Sign, SignedIsDurable, OnFile
  <2> QED
    BY <1>5, <2>2 DEF Sign, PendingIsLast, OnFile
<1>6. CASE Sync
  <2>1. PICK r \in pending : signed' = [signed EXCEPT ![r.duty] = r.payload]
    BY <1>6 DEF Sync
  <2>2. r.duty \in Duties /\ file[Len(file)] = Rec(r.duty, r.payload, "full")
        /\ Len(file) > 0
    BY <2>1 DEF PendingIsLast, TypeOK, Signature
  <2>3. durable' = Len(file) /\ UNCHANGED <<file, open, signatures>>
        /\ pending' = {} /\ open
    BY <1>6 DEF Sync
  <2>4. OnFile(r.duty, r.payload)'
    BY <1>0, <2>2, <2>3 DEF OnFile, Rec
  <2>5. \A e \in Duties, q \in Payloads : OnFile(e, q) => OnFile(e, q)'
    BY <1>0, <2>3 DEF OnFile
  <2>6. ASSUME NEW e \in Duties, signed'[e] # NoPayload
        PROVE  OnFile(e, signed[e])'
    <3>1. CASE e = r.duty
      BY <2>1, <2>2, <2>4, <3>1 DEF TypeOK, OnFile
    <3>2. CASE e # r.duty
      <4>1. signed'[e] = signed[e] /\ signed[e] \in Payloads
        BY <2>1, <2>6, <3>2 DEF TypeOK
      <4> QED
        BY <2>5, <2>6, <4>1 DEF OnFile
    <3> QED
      BY <3>1, <3>2
  <2>7. SignedIsDurable'
    BY <1>0, <2>3 DEF SignedIsDurable
  <2> QED
    BY <2>3, <2>6, <2>7 DEF PendingIsLast, OnFile
<1>7. CASE SyncFails
  BY <1>7 DEF SyncFails, PendingIsLast, OnFile, SignedIsDurable
<1>8. CASE Kill
  BY <1>8 DEF Kill, TypeOK
<1>9. CASE PowerLoss
  <2>1. PICK n \in durable .. Len(file), c \in {"full"} \cup Cuts :
            file' = OnDisk(n, c) /\ durable' = n
    BY <1>9 DEF PowerLoss
  <2>2. n \in Nat /\ durable <= n /\ Len(file') = n
        /\ \A i \in 1 .. durable : file'[i] = file[i]
    BY <1>0, <2>1, OnDiskIsPrefix
  <2>3. SignedIsDurable'
    BY <1>0, <1>9, <2>1, <2>2 DEF SignedIsDurable, PowerLoss, Stopped
  <2>4. PendingIsLast' /\ pending' = {}
    BY <1>9 DEF PendingIsLast, PowerLoss, Stopped
  <2>5. \A d \in Duties : signed'[d] = NoPayload
    BY <1>9 DEF PowerLoss, Stopped
  <2> QED
    BY <2>1, <2>2, <2>3, <2>4, <2>5
<1>10. CASE UNCHANGED vars
  BY <1>10 DEF vars, PendingIsLast, OnFile, SignedIsDurable
<1> QED
  BY <1>1, <1>3, <1>4, <1>5, <1>6, <1>7, <1>8, <1>9, <1>10 DEF Next

(* However appends are cut short and syncs fail, as long as only a loss of *)
(* power ends the process the record of every signature stays durable.     *)
THEOREM SignedStaysDurable ==
    ASSUME \A r \in Stops : "kill" \notin r
    PROVE  Spec => []SignedIsDurable
<1>1. Spec => []TypeOK
  BY TypeCorrect
<1>2. DurableInv /\ TypeOK' /\ [Next]_vars => DurableInv'
  BY DurableStep
<1>3. DurableInv => SignedIsDurable
  BY DEF DurableInv
<1> QED
  BY <1>1, <1>2, <1>3, DurableInit, PTL DEF Spec
-----------------------------------------------------------------------------
(* The last record of duty d is on the disk, and is for payload p.         *)
LastFor(d, p) ==
    \E i \in 1 .. durable :
        /\ file[i].duty = d /\ file[i].payload = p
        /\ \A j \in 1 .. Len(file) : j > i => file[j].duty # d

(* While the process runs a signed duty is in the map, which keeps any     *)
(* other record for it from being appended; the last record therefore      *)
(* stays the one that was signed, and is what the next process reloads.    *)
ConflictInv ==
    /\ DurableInv
    /\ \A i \in 1 .. Len(file) : file[i].cut = "full"
    /\ \A r \in pending : signed[r.duty] = NoPayload
    /\ \A d \in Duties : signed[d] # NoPayload => LastFor(d, signed[d])
    /\ \A s \in signatures : LastFor(s.duty, s.payload)
    /\ open => \A s \in signatures : signed[s.duty] = s.payload

LEMMA ConflictInit == Init /\ DurableInv => ConflictInv
BY DEF Init, ConflictInv

(* Every step keeps ConflictInv when no append is cut short and only a     *)
(* power loss stops the process.                                           *)
LEMMA ConflictStep ==
    ASSUME Cuts = {}, \A r \in Stops : "kill" \notin r, ConflictInv, DurableInv', [Next]_vars
    PROVE  ConflictInv'
<1> USE DEF ConflictInv
<1>0. /\ Len(file) \in Nat /\ durable \in Nat /\ durable <= Len(file)
      /\ \A i \in 1 .. Len(file) : file[i] \in Record
      /\ signatures \in SUBSET Signature
  BY DEF DurableInv, TypeOK
<1>1. CASE Open
  <2>1. /\ durable = Len(file) /\ file \in Seq(Record) /\ pending = {}
        /\ UNCHANGED <<file, durable, pending, signatures>>
        /\ signed' = Load(file)
    BY <1>1 DEF Open, DurableInv, TypeOK
  <2>2. \A d \in Duties, i \in 1 .. Len(file) : i \in Lines(file, d) <=> file[i].duty = d
    BY <1>0 DEF Lines, IsLine
  <2>3. ASSUME NEW d \in Duties, Load(file)[d] # NoPayload
        PROVE  LastFor(d, Load(file)[d])
    <3>1. Lines(file, d) # {}
      BY <2>3 DEF Load
    <3>2. PICK i \in Lines(file, d) : /\ Load(file)[d] = file[i].payload
                                      /\ \A j \in Lines(file, d) : j <= i
      BY <2>1, <3>1, LoadIsLast
    <3>3. i \in 1 .. Len(file) /\ \A j \in 1 .. Len(file) : j > i => file[j].duty # d
      BY <2>2, <3>2 DEF Lines
    <3> QED
      BY <2>1, <2>2, <3>2, <3>3 DEF LastFor
  <2>4. ASSUME NEW s \in signatures
        PROVE  Load(file)[s.duty] = s.payload
    <3>1. s.duty \in Duties
      BY <1>0 DEF Signature
    <3>2. PICK k \in 1 .. durable :
              /\ file[k].duty = s.duty /\ file[k].payload = s.payload
              /\ \A j \in 1 .. Len(file) : j > k => file[j].duty # s.duty
      BY DEF LastFor
    <3>3. k \in Lines(file, s.duty)
      BY <2>1, <2>2, <3>1, <3>2
    <3>4. PICK i \in Lines(file, s.duty) :
              /\ Load(file)[s.duty] = file[i].payload
              /\ \A j \in Lines(file, s.duty) : j <= i
      BY <2>1, <3>1, <3>3, LoadIsLast
    <3>5. i \in 1 .. Len(file) /\ file[i].duty = s.duty /\ k <= i
      BY <3>3, <3>4 DEF Lines
    <3>6. i = k
      BY <3>2, <3>5, <1>0
    <3> QED
      BY <3>2, <3>4, <3>6
  <2> QED
    BY <1>1, <2>1, <2>3, <2>4 DEF Open, LastFor
<1>2. ASSUME NEW d \in Duties, NEW p \in Payloads, Write(d, p)
      PROVE  ConflictInv'
  <2>1. /\ Len(file') = Len(file) + 1
        /\ \A i \in 1 .. Len(file) : file'[i] = file[i]
        /\ file'[Len(file')] = Rec(d, p, "full")
    BY <1>2 DEF Write, DurableInv, TypeOK
  <2>2. ASSUME NEW e \in Duties, NEW q \in Payloads, e # d, LastFor(e, q)
        PROVE  LastFor(e, q)'
    <3>1. PICK i \in 1 .. durable :
              /\ file[i].duty = e /\ file[i].payload = q
              /\ \A j \in 1 .. Len(file) : j > i => file[j].duty # e
      BY <2>2 DEF LastFor
    <3>2. \A j \in 1 .. Len(file') : j > i => file'[j].duty # e
      BY <1>0, <2>1, <2>2, <3>1 DEF Rec
    <3>3. i \in 1 .. durable' /\ file'[i] = file[i]
      BY <1>0, <1>2, <2>1 DEF Write
    <3> QED
      BY <3>1, <3>2, <3>3 DEF LastFor
  <2>3. signed[d] = NoPayload /\ signed' = signed /\ signatures' = signatures
        /\ open' = open /\ open /\ pending' = {[duty |-> d, payload |-> p]}
    BY <1>2 DEF Write
  <2>4. \A s \in signatures : s.duty \in Duties /\ s.payload \in Payloads /\ s.duty # d
    BY <1>0, <2>3, NoPayloadAssumption DEF Signature
  <2>5. ASSUME NEW e \in Duties, signed'[e] # NoPayload
        PROVE  LastFor(e, signed[e])'
    <3>1. signed[e] \in Payloads /\ e # d /\ signed'[e] = signed[e]
      BY <2>3, <2>5 DEF DurableInv, TypeOK
    <3>2. LastFor(e, signed[e])
      BY <2>5, <3>1
    <3>3. PICK q \in Payloads : q = signed[e]
      BY <3>1
    <3>4. LastFor(e, q)
      BY <3>2, <3>3 DEF LastFor
    <3>5. LastFor(e, q)'
      BY <2>2, <3>1, <3>4
    <3> QED
      BY <3>1, <3>3, <3>5 DEF LastFor
  <2>6. \A i \in 1 .. Len(file') : file'[i].cut = "full"
    BY <1>0, <2>1 DEF Rec
  <2> QED
    BY <2>2, <2>3, <2>4, <2>5, <2>6
<1>3. ASSUME NEW d \in Duties, NEW p \in Payloads, WriteFails(d, p)
      PROVE  ConflictInv'
  BY <1>3 DEF WriteFails
<1>4. ASSUME NEW d \in Duties, NEW p \in Payloads, Sign(d, p)
      PROVE  ConflictInv'
  <2>1. LastFor(d, p) /\ signed[d] = p /\ signatures' = signatures \cup {[duty |-> d, payload |-> p]}
    BY <1>4, NoPayloadAssumption DEF Sign
  <2>2. \A s \in signatures' : LastFor(s.duty, s.payload) /\ signed[s.duty] = s.payload
    BY <1>4, <2>1 DEF Sign
  <2> QED
    BY <1>4, <2>2 DEF Sign, LastFor
<1>5. CASE Sync
  <2>1. PICK r \in pending : signed' = [signed EXCEPT ![r.duty] = r.payload]
    BY <1>5 DEF Sync
  <2>2. r.duty \in Duties /\ r.payload \in Payloads
        /\ file[Len(file)] = Rec(r.duty, r.payload, "full")
        /\ Len(file) > 0 /\ signed[r.duty] = NoPayload
    BY <2>1 DEF PendingIsLast, DurableInv, TypeOK, Signature
  <2>3. durable' = Len(file) /\ UNCHANGED <<file, open, signatures>>
        /\ pending' = {} /\ open
    BY <1>5 DEF Sync
  <2>4. LastFor(r.duty, r.payload)'
    BY <1>0, <2>2, <2>3 DEF LastFor, Rec
  <2>5. \A e \in Duties, q \in Payloads : LastFor(e, q) => LastFor(e, q)'
    BY <1>0, <2>3 DEF LastFor
  <2>6. ASSUME NEW e \in Duties, signed'[e] # NoPayload
        PROVE  LastFor(e, signed[e])'
    <3>1. CASE e = r.duty
      BY <2>1, <2>2, <2>4, <3>1 DEF DurableInv, TypeOK, LastFor
    <3>2. CASE e # r.duty
      <4>1. signed'[e] = signed[e] /\ signed[e] \in Payloads
        BY <2>1, <2>6, <3>2 DEF DurableInv, TypeOK
      <4>2. PICK q \in Payloads : q = signed[e]
        BY <4>1
      <4>3. LastFor(e, q)
        BY <2>6, <4>1, <4>2 DEF LastFor
      <4>4. LastFor(e, q)'
        BY <2>5, <4>3
      <4> QED
        BY <4>1, <4>2, <4>4 DEF LastFor
    <3> QED
      BY <3>1, <3>2
  <2>7. \A s \in signatures : /\ s.duty \in Duties /\ s.payload \in Payloads
                              /\ s.duty # r.duty
    BY <1>0, <2>2, <2>3, NoPayloadAssumption DEF Signature
  <2>8. \A s \in signatures : LastFor(s.duty, s.payload)' /\ signed'[s.duty] = s.payload
    BY <2>1, <2>3, <2>5, <2>7 DEF DurableInv, TypeOK
  <2> QED
    BY <2>3, <2>6, <2>8
<1>6. CASE SyncFails
  BY <1>6 DEF SyncFails, LastFor
<1>7. CASE Kill
  BY <1>7 DEF Kill, DurableInv, TypeOK
<1>8. CASE PowerLoss
  <2>1. PICK n \in durable .. Len(file), c \in {"full"} \cup Cuts :
            file' = OnDisk(n, c) /\ durable' = n
    BY <1>8 DEF PowerLoss
  <2>2. /\ n \in Nat /\ durable <= n /\ n <= Len(file) /\ Len(file') = n
        /\ \A i \in 1 .. durable : file'[i] = file[i]
        /\ \A i \in 1 .. n : file'[i].duty = file[i].duty
    BY <1>0, <2>1, OnDiskIsPrefix DEF DurableInv
  <2>3. \A i \in 1 .. n : file'[i].cut = "full"
    BY <1>0, <2>1, <2>2 DEF OnDisk, Record
  <2>4. ASSUME NEW e \in Duties, NEW q \in Payloads, LastFor(e, q)
        PROVE  LastFor(e, q)'
    <3>1. PICK i \in 1 .. durable :
              /\ file[i].duty = e /\ file[i].payload = q
              /\ \A j \in 1 .. Len(file) : j > i => file[j].duty # e
      BY <2>4 DEF LastFor
    <3>2. i \in 1 .. n /\ file'[i] = file[i]
      BY <1>0, <2>2
    <3>3. \A j \in 1 .. n : j > i => file'[j].duty # e
      BY <1>0, <2>2, <3>1
    <3> QED
      BY <2>1, <2>2, <3>1, <3>2, <3>3 DEF LastFor
  <2>5. \A d \in Duties : signed'[d] = NoPayload
    BY <1>8 DEF PowerLoss, Stopped
  <2>6. pending' = {} /\ ~open' /\ signatures' = signatures
    BY <1>8 DEF PowerLoss, Stopped
  <2>7. \A s \in signatures : LastFor(s.duty, s.payload)'
    BY <1>0, <2>4 DEF Signature
  <2> QED
    BY <2>2, <2>3, <2>5, <2>6, <2>7
<1>9. CASE UNCHANGED vars
  BY <1>9 DEF vars, LastFor
<1> QED
  BY <1>1, <1>2, <1>3, <1>4, <1>5, <1>6, <1>7, <1>8, <1>9 DEF Next

(* A journal whose appends are never cut short keeps the key from signing  *)
(* two payloads for one duty, however often power is lost and syncs fail.  *)
THEOREM NeverConflicting ==
    ASSUME Cuts = {}, \A r \in Stops : "kill" \notin r
    PROVE  Spec => []NoConflictingSignature
<1>1. DurableInv /\ TypeOK' /\ [Next]_vars => DurableInv'
  BY DurableStep
<1>2. ConflictInv /\ DurableInv' /\ [Next]_vars => ConflictInv'
  BY ConflictStep
<1>3. ConflictInv => NoConflictingSignature
  <2> SUFFICES ASSUME ConflictInv, NEW s \in signatures, NEW t \in signatures,
                      s.duty = t.duty
               PROVE  s.payload = t.payload
    BY DEF NoConflictingSignature
  <2>1. Len(file) \in Nat /\ durable \in Nat /\ durable <= Len(file)
    BY DEF ConflictInv, DurableInv, TypeOK
  <2> QED
    BY <2>1 DEF ConflictInv, LastFor
<1> QED
  BY <1>1, <1>2, <1>3, TypeCorrect, DurableInit, ConflictInit, PTL DEF Spec

(* Such a journal implements the abstract signer: every signature is given *)
(* for a duty that was signed for no other payload.                        *)
THEOREM ImplementsSafeSigner ==
    ASSUME Cuts = {}, \A r \in Stops : "kill" \notin r
    PROVE  Spec => SafeSignerSpec
<1>1. Init => Safe!Init
  BY DEF Init, Safe!Init
<1>2. ConflictInv /\ [Next]_vars => [Safe!Next]_signatures
  <2> SUFFICES ASSUME ConflictInv, [Next]_vars, signatures' # signatures
               PROVE  Safe!Next
    OBVIOUS
  <2>1. PICK d \in Duties, p \in Payloads : Sign(d, p)
    BY DEF Next, vars, Open, Write, WriteFails, Sync, SyncFails, Kill, PowerLoss, Stopped
  <2>2. Safe!Sign(d, p)
    BY <2>1 DEF Sign, Safe!Sign, ConflictInv
  <2> QED
    BY <2>2 DEF Safe!Next
<1>3. DurableInv /\ TypeOK' /\ [Next]_vars => DurableInv'
  BY DurableStep
<1>4. ConflictInv /\ DurableInv' /\ [Next]_vars => ConflictInv'
  BY ConflictStep
<1> QED
  BY <1>1, <1>2, <1>3, <1>4, TypeCorrect, DurableInit, ConflictInit, PTL
     DEF Spec, SafeSignerSpec, Safe!Spec
=============================================================================
