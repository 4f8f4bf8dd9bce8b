------------------------ MODULE LedgerControlProofs ------------------------
(***************************************************************************)
(* The ledger of a user, for any number of verifications, repair workers,  *)
(* unlock requests, incidents, jobs and failing calls: its types, that it  *)
(* follows LedgerLifecycle, that one repair at a time is past its lock and *)
(* that no approval is spent twice.                                        *)
(***************************************************************************)
EXTENDS LedgerControl, TLAPS, FiniteSetTheorems, SequenceTheorems, WellFoundedInduction

-----------------------------------------------------------------------------
(* Least and greatest elements                                             *)

\* An element with the fewest others below it is the least.
LEMMA LeastNumber ==
  ASSUME NEW S \in SUBSET Nat, S # {}
  PROVE  \E x \in S : \A y \in S : x <= y
  <1> DEFINE Below(n) == {k \in S : k < n}
             T == {Below(n) : n \in S}
  <1>1. T \subseteq FiniteSubsetsOf(Nat)
    <2>1. ASSUME NEW x \in S PROVE Below(x) \in SUBSET Nat /\ IsFiniteSet(Below(x))
      <3>1. x \in Nat /\ Below(x) \in SUBSET Nat
        OBVIOUS
      <3>2. \A y \in Below(x) : y <= x
        OBVIOUS
      <3>3. QED
        BY <3>1, <3>2, FS_BoundedSetOfNaturals
    <2>2. QED
      BY <2>1 DEF FiniteSubsetsOf
  <1>2. T # {}
    OBVIOUS
  <1>3. PICK m \in T : \A o \in T : <<o, m>> \notin StrictSubsetOrdering(Nat)
    <2> HIDE DEF T
    <2>1. QED
      BY <1>1, <1>2, FS_StrictSubsetOrderingWellFounded, WFMin
  <1>4. PICK x \in S : m = Below(x)
    BY <1>3
  <1>5. ASSUME NEW y \in S, y < x PROVE FALSE
    <2>1. x \in Nat /\ \A k \in S : k \in Nat
      OBVIOUS
    <2>2. \A k \in S : k < y => k < x
      BY <1>5, <2>1
    <2>3. Below(y) \subseteq Below(x)
      BY <2>2
    <2>4. y \in Below(x) /\ y \notin Below(y)
      BY <1>5, <2>1
    <2>5. Below(y) \in SUBSET Nat /\ Below(x) \in SUBSET Nat
      BY <2>1
    <2>6. Below(y) \in T
      OBVIOUS
    <2> HIDE DEF T, Below
    <2>7. <<Below(y), Below(x)>> \in StrictSubsetOrdering(Nat)
      BY <2>3, <2>4, <2>5 DEF StrictSubsetOrdering
    <2>8. QED
      BY <1>3, <1>4, <2>6, <2>7
  <1>6. QED
    BY <1>5

\* And one with the fewest others above it the greatest.
LEMMA GreatestSeq ==
  ASSUME NEW S, IsFiniteSet(S), S # {}, \A b \in S : b.seq \in Nat
  PROVE  \E b \in S : \A o \in S : o.seq <= b.seq
  <1> DEFINE Above(b) == {o \in S : o.seq > b.seq}
             T == {Above(b) : b \in S}
  <1>1. T \subseteq FiniteSubsetsOf(S)
    BY FS_Subset DEF FiniteSubsetsOf
  <1>2. T # {}
    OBVIOUS
  <1>3. PICK m \in T : \A o \in T : <<o, m>> \notin StrictSubsetOrdering(S)
    <2> HIDE DEF T
    <2>1. QED
      BY <1>1, <1>2, FS_StrictSubsetOrderingWellFounded, WFMin
  <1>4. PICK b \in S : m = Above(b)
    BY <1>3
  <1>5. ASSUME NEW o \in S, o.seq > b.seq PROVE FALSE
    <2>1. Above(o) \subseteq Above(b) /\ o \in Above(b) /\ o \notin Above(o)
      BY <1>5
    <2>2. <<Above(o), Above(b)>> \in StrictSubsetOrdering(S)
      BY <2>1 DEF StrictSubsetOrdering
    <2>3. QED
      BY <1>3, <1>4, <2>2
  <1>6. QED
    BY <1>5

-----------------------------------------------------------------------------
(* What verification and repair compute                                    *)

Reports == [seq : Nat, reason : Reasons]

LEMMA HashType ==
  ASSUME NEW content \in Nat, NEW prev \in Hashes, NEW at \in Nat
  PROVE  generateHash(content, prev, at) \in Hashes
  BY DEF generateHash, Hashes

LEMMA RowTypes == Genesis \in Hashes /\ NoRow \in Rows
  <1>1. Genesis \in Hashes
    BY DEF Hashes, Genesis
  <1>2. QED
    BY <1>1 DEF NoRow, Rows

LEMMA ReportsType ==
  ASSUME NEW rows \in SUBSET Rows, NEW latest, NEW contents
  PROVE  Compromised(rows, latest, contents) \subseteq Reports
  <1>1. ASSUME NEW r \in rows PROVE Reason(rows, r, latest, contents) \in Reasons \cup {"none"}
    BY DEF Reason, Reasons
  <1>2. \A r \in rows : r.seq \in Nat
    BY DEF Rows
  <1>3. QED
    BY <1>1, <1>2 DEF Compromised, Reports

LEMMA RestoredRowType ==
  ASSUME NEW rows \in SUBSET Rows, NEW b \in Rows
  PROVE  RestoredRow(rows, b) \in Rows
  <1>1. RowsAt(rows, b.seq) # {} => (CHOOSE r \in RowsAt(rows, b.seq) : TRUE) \in Rows
    BY DEF RowsAt
  <1>2. HashTime(rows, b) \in Nat /\ RestoredTxn(rows, b) \in Nat
    BY <1>1 DEF HashTime, RestoredTxn, Rows
  <1>3. b.seq \in Nat /\ b.data \in Nat /\ b.prev \in Hashes
    BY DEF Rows
  <1>4. generateHash(b.data, b.prev, HashTime(rows, b)) \in Hashes
    BY <1>2, <1>3, HashType
  <1>5. QED
    BY <1>2, <1>3, <1>4 DEF RestoredRow, Rows

LEMMA RestoredType ==
  ASSUME NEW rows \in SUBSET Rows, NEW records \in SUBSET Rows,
         records # {}, IsFiniteSet(records), NEW contents \in Seq(Nat)
  PROVE  /\ RestoredLog(rows, records) \in SUBSET Rows
         /\ RestoredHead(rows, records) \in [seq : Nat, hash : Hashes]
         /\ RestoredLive(contents, records) \in Seq(Nat)
  <1>1. RestoredLog(rows, records) \in SUBSET Rows
    BY RestoredRowType DEF RestoredLog
  <1>2. \E b \in records : \A o \in records : o.seq <= b.seq
    BY GreatestSeq DEF Rows
  <1>3. LastRecord(records) \in records
    BY <1>2 DEF LastRecord
  <1>4. RestoredHead(rows, records) \in [seq : Nat, hash : Hashes]
    BY <1>3, RestoredRowType DEF RestoredHead, Rows
  <1>5. \A t \in DOMAIN contents : RestoredLive(contents, records)[t] \in Nat
    <2>1. TAKE t \in DOMAIN contents
    <2>2. CASE \E b \in records : b.txn = t
      <3>1. (CHOOSE b \in records : b.txn = t) \in Rows
        BY <2>2
      <3>2. QED
        BY <2>2, <3>1 DEF RestoredLive, Rows
    <2>3. CASE ~\E b \in records : b.txn = t
      BY <2>3 DEF RestoredLive
    <2>4. QED
      BY <2>2, <2>3
  <1>6. RestoredLive(contents, records) \in [1 .. Len(contents) -> Nat]
    BY <1>5 DEF RestoredLive
  <1>7. QED
    <2>1. Len(contents) \in Nat
      OBVIOUS
    <2>2. RestoredLive(contents, records) \in Seq(Nat)
      BY <1>6, <2>1, SeqDef
    <2>3. QED
      BY <1>1, <1>4, <2>2

-----------------------------------------------------------------------------
(* The inductive invariant                                                 *)

DataInv ==
    /\ live \in Seq(Nat)
    /\ log \in SUBSET Rows
    /\ head \in [seq : Nat, hash : Hashes]
    /\ backups \in SUBSET Rows
    /\ IsFiniteSet(backups)
    /\ admitted \in BOOLEAN
    /\ auditor \in [pc : {"idle", "commit", "backup"}, row : Rows, next : Nat]

HistoryInv == "disturbed" \in DOMAIN history

VerifierShape ==
    [pc : {"idle", "anchor", "open", "lock"}, rows : SUBSET Rows, live : Seq(Nat),
     todo : SUBSET Reports, incident : Nat]

VerifyInv ==
    /\ verifier \in [Verifiers -> VerifierShape]
    /\ \A v \in Verifiers :
          /\ verifier[v].pc \in {"open", "lock"} => verifier[v].todo # {}
          /\ verifier[v].incident \in 0 .. Len(incidents)

IncidentShape == [start : Nat, reason : Reasons, status : IncidentStatus, credit : Int]

IncidentsInv == incidents \in Seq(IncidentShape)

LedgerInv ==
    /\ ledger \in [status : LedgerStatus, incident : {0} \cup Incidents]
    /\ ledger.status = "UNDER_REPAIR" => ledger.incident \in Incidents

AdminInv ==
    /\ admin \in [Admins -> [pc : {"idle", "activate", "check", "resolve"},
                            incident : {0} \cup Incidents]]
    /\ \A a \in Admins : admin[a].pc # "idle" => admin[a].incident \in Incidents

UnlockInv == LedgerInv /\ AdminInv

JobShape ==
    [incident : Nat, keyed : BOOLEAN, attempts : 0 .. RepairAttempts,
     status : {"waiting", "active", "completed", "failed"}]

Underway == {"find", "fetch", "boundary", "lock", "mark", "restore"}

RepairerShape == [pc : {"idle"} \cup Underway, job : Nat, records : SUBSET Rows]

JobsInv ==
    /\ jobs \in Seq(JobShape)
    /\ \A j \in 1 .. Len(jobs) :
          /\ jobs[j].incident \in Incidents
          /\ jobs[j].status \in {"waiting", "active"} => jobs[j].attempts < RepairAttempts

\* A worker that is under way has an active job of its own, and records once it
\* has read them.
RepairersInv ==
    /\ repairer \in [RepairWorkers -> RepairerShape]
    /\ \A w \in RepairWorkers :
          /\ repairer[w].pc = "idle" => repairer[w].job = 0
          /\ repairer[w].pc \in Underway =>
                /\ repairer[w].job \in 1 .. Len(jobs)
                /\ jobs[repairer[w].job].status = "active"
          /\ repairer[w].pc \in Underway \ {"find", "fetch"} =>
                repairer[w].records # {} /\ IsFiniteSet(repairer[w].records)
    /\ \A u, w \in RepairWorkers :
          repairer[u].pc \in Underway /\ repairer[w].pc \in Underway
             /\ repairer[u].job = repairer[w].job
          => u = w

Shapes ==
    DataInv /\ HistoryInv /\ VerifyInv /\ IncidentsInv /\ UnlockInv /\ JobsInv /\ RepairersInv

\* While nobody has written over the lock of a running repair, the one worker
\* past its lock holds it.
LockInv ==
    history.disturbed \cap Locked = {} =>
        \A w \in RepairWorkers : repairer[w].pc \in Locked =>
            /\ ledger.status = "UNDER_REPAIR"
            /\ \A u \in RepairWorkers : repairer[u].pc \in Locked => u = w

\* What a worker's step takes for granted: an approval for it, as long as nobody
\* holds the lock or the worker does, and another one if the incident has been
\* approved again meanwhile.
Allowed(pc, status, incident) ==
    /\ pc \in Locked \/ status # "UNDER_REPAIR" => incident.credit >= 1
    /\ pc = "restore" /\ incident.status = "APPROVED" => incident.credit >= 2

Covered(incident) ==
    incident.credit >= 0 /\ (incident.status = "APPROVED" => incident.credit >= 1)

CreditInv ==
    history.disturbed \cap Checked = {} =>
        /\ \A i \in Incidents : Covered(incidents[i])
        /\ \A w \in RepairWorkers : repairer[w].pc \in Checked =>
              Allowed(repairer[w].pc, ledger.status, incidents[IncidentOf(w)])

Inv == Shapes /\ LockInv /\ CreditInv

control == <<ledger, incidents, jobs, repairer>>

\* What is said of the ledger, the incidents and their repairs holds as long as they are
\* left alone.
LEMMA ControlKept ==
  ASSUME Inv, UNCHANGED control, DataInv', HistoryInv', VerifyInv', UnlockInv',
         history'.disturbed = history.disturbed
  PROVE  Inv'
  <1>1. IncidentsInv'
    BY DEF Inv, Shapes, IncidentsInv, control
  <1>2. JobsInv' /\ RepairersInv'
    BY DEF Inv, Shapes, JobsInv, RepairersInv, Incidents, control
  <1>3. LockInv'
    BY DEF Inv, LockInv, control
  <1>4. CreditInv'
    BY DEF Inv, CreditInv, Covered, Allowed, Incidents, IncidentOf, control
  <1>5. QED
    BY <1>1, <1>2, <1>3, <1>4 DEF Inv, Shapes

\* The invariant holds in every initial state.
LEMMA InitInv == Init => Inv
  <1> SUFFICES ASSUME Init PROVE Inv
    OBVIOUS
  <1>1. Genesis \in Hashes /\ NoRow \in Rows
    BY RowTypes
  <1>2. DataInv
    <2>1. IsFiniteSet(backups)
      BY FS_EmptySet DEF Init
    <2>2. live \in Seq(Nat) /\ log \in SUBSET Rows /\ backups \in SUBSET Rows
      BY DEF Init
    <2>3. head \in [seq : Nat, hash : Hashes]
      BY <1>1 DEF Init
    <2>4. auditor \in [pc : {"idle", "commit", "backup"}, row : Rows, next : Nat]
      <3> HIDE DEF NoRow, Rows
      <3>1. QED
        BY <1>1 DEF Init
    <2>5. admitted \in BOOLEAN
      BY DEF Init
    <2>6. QED
      BY <2>1, <2>2, <2>3, <2>4, <2>5 DEF DataInv
  <1>3. HistoryInv
    BY DEF Init, HistoryInv
  <1>4. VerifyInv /\ IncidentsInv /\ UnlockInv
    BY DEF Init, VerifyInv, IncidentsInv, UnlockInv, LedgerInv, AdminInv, IdleVerifier,
           VerifierShape, IdleAdmin, LedgerStatus
  <1>5. JobsInv /\ RepairersInv
    BY DEF Init, JobsInv, RepairersInv, IdleRepairer, RepairerShape, Underway
  <1>6. LockInv /\ CreditInv
    BY DEF Init, LockInv, CreditInv, IdleRepairer, Locked, Checked, Incidents
  <1>7. QED
    BY <1>2, <1>3, <1>4, <1>5, <1>6 DEF Inv, Shapes

-----------------------------------------------------------------------------
(* Transactions and their audit                                            *)

LEMMA NewRowType == ASSUME DataInv PROVE NewRow \in Rows
  <1>1. head.seq \in Nat /\ head.hash \in Hashes /\ auditor.next \in Nat
    BY DEF DataInv
  <1>2. \A prev \in Hashes : generateHash(auditor.next, prev, Stamp) \in Hashes
    BY <1>1, HashType DEF Stamp
  <1>3. (IF head.seq = 0 THEN Genesis ELSE head.hash) \in Hashes
    BY <1>1, RowTypes
  <1>4. QED
    BY <1>1, <1>2, <1>3 DEF NewRow, Rows, Stamp

\* What an altered row keeps: all but one field.
LEMMA AlteredRow ==
  ASSUME live \in Seq(Nat), NEW r \in Rows, NEW field \in RowFields, NEW q \in Altered(r, field)
  PROVE  /\ q \in Rows
         /\ IF field = "seq" THEN RowsAt(log, q.seq) = {} ELSE q.seq = r.seq
         /\ IF field = "txn" THEN q.txn \in 1 .. Len(live) ELSE q.txn = r.txn
         /\ field # "time" => q.at = r.at
         /\ q.hash \in {r.hash, Garbled}
  <1>1. Garbled \in Hashes /\ 0 \in Nat
    BY DEF Garbled, Hashes
  <1>2. MaxTxns \in Nat /\ DOMAIN live = 1 .. Len(live) /\ Len(live) \in Nat
    BY LedgerAssumption
  <1>3. CASE field = "data"
    <2>1. q = [r EXCEPT !.data = 0]
      BY <1>3 DEF Altered
    <2>2. QED
      BY <1>1, <1>3, <2>1 DEF Rows
  <1>4. CASE field = "hash"
    <2>1. q = [r EXCEPT !.hash = Garbled]
      BY <1>4 DEF Altered
    <2>2. QED
      BY <1>1, <1>4, <2>1 DEF Rows
  <1>5. CASE field = "prev"
    <2>1. q = [r EXCEPT !.prev = Garbled]
      BY <1>5 DEF Altered
    <2>2. QED
      BY <1>1, <1>5, <2>1 DEF Rows
  <1>6. CASE field = "time"
    <2>1. q = [r EXCEPT !.at = 0]
      BY <1>6 DEF Altered
    <2>2. QED
      BY <1>1, <1>6, <2>1 DEF Rows
  <1>7. CASE field = "seq"
    <2>1. PICK n \in 0 .. MaxTxns + 1 : RowsAt(log, n) = {} /\ q = [r EXCEPT !.seq = n]
      BY <1>7 DEF Altered
    <2>2. n \in Nat
      BY <1>2
    <2>3. QED
      BY <1>7, <2>1, <2>2 DEF Rows
  <1>8. CASE field = "txn"
    <2>1. PICK t \in 1 .. Len(live) : q = [r EXCEPT !.txn = t]
      BY <1>2, <1>8 DEF Altered
    <2>2. t \in Nat
      BY <1>2
    <2>3. QED
      BY <1>8, <2>1, <2>2 DEF Rows
  <1>9. QED
    BY <1>3, <1>4, <1>5, <1>6, <1>7, <1>8 DEF RowFields

\* A corrupted row is still a row.
LEMMA CorruptTypes ==
  ASSUME DataInv, NEW kind, Corrupt(kind)
  PROVE  log' \in SUBSET Rows /\ live' \in Seq(Nat)
  <1>1. log \in SUBSET Rows /\ live \in Seq(Nat)
    BY DEF DataInv
  <1>2. PICK r \in log :
           \/ kind \in RowFields /\ (\E q \in Altered(r, kind) : log' = (log \ {r}) \cup {q}) /\ UNCHANGED live
           \/ kind = "row" /\ log' = log \ {r} /\ UNCHANGED live
           \/ kind = "live" /\ live' = [live EXCEPT ![r.txn] = 0] /\ UNCHANGED log
    BY DEF Corrupt
  <1>3. r \in Rows
    BY <1>1
  <1>4. kind \in RowFields => \A q \in Altered(r, kind) : q \in Rows
    BY <1>1, <1>3, AlteredRow
  <1>5. log' \in SUBSET Rows
    BY <1>1, <1>2, <1>4
  <1>6. [live EXCEPT ![r.txn] = 0] \in Seq(Nat)
    <2>1. live \in [1 .. Len(live) -> Nat] /\ Len(live) \in Nat
      BY <1>1
    <2>2. [live EXCEPT ![r.txn] = 0] \in [1 .. Len(live) -> Nat]
      BY <2>1
    <2>3. QED
      BY <2>1, <2>2, SeqDef
  <1>7. live' \in Seq(Nat)
    BY <1>1, <1>2, <1>6
  <1>8. QED
    BY <1>5, <1>7

LEMMA AuditInv == ASSUME Inv, AuditStep PROVE Inv'
  <1>1. DataInv /\ HistoryInv
    BY DEF Inv, Shapes
  <1>2. UNCHANGED <<ledger, incidents, procs>>
    BY DEF AuditStep, ledgerMiddleware, createTransaction, readChainState, commitRow,
           commitConflicts, writeTransactionBackup, backupGivenUp, Corrupt, procs
  <1>3. HistoryInv' /\ history'.disturbed = history.disturbed
    <2>1. CASE UNCHANGED history
      BY <1>1, <2>1 DEF HistoryInv
    <2>2. CASE commitRow
      BY <1>1, <2>2 DEF HistoryInv, commitRow
    <2>3. CASE backupGivenUp
      <3>1. history' = [history EXCEPT !.faults = @ + 1, !.lost = TRUE]
        BY <2>3 DEF backupGivenUp
      <3>2. QED
        BY <1>1, <3>1 DEF HistoryInv
    <2>4. ASSUME NEW kind \in CorruptionKinds, Corrupt(kind)
          PROVE  HistoryInv' /\ history'.disturbed = history.disturbed
      BY <1>1, <2>4 DEF HistoryInv, Corrupt
    <2>5. QED
      BY <2>1, <2>2, <2>3, <2>4
         DEF AuditStep, ledgerMiddleware, createTransaction, readChainState, commitConflicts,
             writeTransactionBackup
  <1>4. Audited \in [pc : {"idle", "commit", "backup"}, row : Rows, next : Nat]
        /\ [Audited EXCEPT !.next = auditor.next]
             \in [pc : {"idle", "commit", "backup"}, row : Rows, next : Nat]
    BY <1>1, RowTypes DEF Audited, DataInv
  <1>5. DataInv'
    <2>1. CASE ledgerMiddleware
      BY <1>1, <2>1 DEF DataInv, ledgerMiddleware, data
    <2>2. CASE createTransaction
      <3>1. live' = Append(live, Len(live) + 1) /\ admitted' = FALSE
        BY <2>2 DEF createTransaction
      <3>2. live \in Seq(Nat) /\ Len(live) + 1 \in Nat
        BY <1>1 DEF DataInv
      <3>3. live' \in Seq(Nat)
        <4>1. Append(live, Len(live) + 1) \in Seq(Nat)
          BY <3>2, AppendProperties
        <4>2. QED
          BY <3>1, <4>1
      <3>4. UNCHANGED <<log, head, backups, auditor>> /\ admitted' \in BOOLEAN
        BY <2>2 DEF createTransaction
      <3>5. QED
        BY <1>1, <3>3, <3>4 DEF DataInv
    <2>3. CASE readChainState
      BY <1>1, <2>3, NewRowType DEF DataInv, readChainState
    <2>4. CASE commitRow
      <3>1. auditor.row \in Rows
        BY <1>1 DEF DataInv
      <3>2. log' \in SUBSET Rows /\ head' \in [seq : Nat, hash : Hashes]
        BY <1>1, <2>4, <3>1 DEF DataInv, commitRow, Rows
      <3>3. QED
        BY <1>1, <2>4, <3>2 DEF DataInv, commitRow
    <2>5. CASE commitConflicts
      BY <1>1, <1>4, <2>5 DEF DataInv, commitConflicts
    <2>6. CASE writeTransactionBackup
      <3>1. IsFiniteSet(backups')
        <4> DEFINE kept == {b \in backups : b.seq # auditor.row.seq \/ b.txn # auditor.row.txn}
        <4>1. IsFiniteSet(kept)
          BY <1>1, FS_Subset DEF DataInv
        <4> HIDE DEF kept
        <4>2. IsFiniteSet(kept \cup {auditor.row})
          BY <4>1, FS_AddElement
        <4>3. QED
          BY <2>6, <4>2 DEF writeTransactionBackup, kept
      <3>2. QED
        BY <1>1, <1>4, <2>6, <3>1 DEF DataInv, writeTransactionBackup
    <2>7. CASE backupGivenUp
      BY <1>1, <1>4, <2>7 DEF DataInv, backupGivenUp
    <2>8. ASSUME NEW kind \in CorruptionKinds, Corrupt(kind) PROVE DataInv'
      <3>1. UNCHANGED <<head, backups, admitted, auditor>>
        BY <2>8 DEF Corrupt
      <3>2. QED
        BY <1>1, <2>8, <3>1, CorruptTypes DEF DataInv
    <2>9. QED
      BY <2>1, <2>2, <2>3, <2>4, <2>5, <2>6, <2>7, <2>8 DEF AuditStep
  <1>6. VerifyInv' /\ UnlockInv'
    BY <1>2 DEF Inv, Shapes, VerifyInv, UnlockInv, LedgerInv, AdminInv, Incidents, procs
  <1>7. QED
    BY <1>2, <1>3, <1>5, <1>6, ControlKept DEF control, procs

-----------------------------------------------------------------------------
(* Verification                                                            *)

\* The row that the loop has reached is one of those it has to report.
LEMMA CurrentType ==
  ASSUME VerifyInv, NEW v \in Verifiers, verifier[v].pc \in {"open", "lock"}
  PROVE  Current(v) \in verifier[v].todo /\ Current(v) \in Reports
  <1> DEFINE todo == verifier[v].todo
             seqs == {c.seq : c \in todo}
  <1>1. todo # {} /\ todo \subseteq Reports
    BY DEF VerifyInv, VerifierShape
  <1>2. seqs \in SUBSET Nat /\ seqs # {}
    BY <1>1 DEF Reports
  <1>3. \E n \in seqs : \A m \in seqs : n <= m
    <2> HIDE DEF seqs
    <2>1. QED
      BY <1>2, LeastNumber
  <1>4. \E c \in todo : \A d \in todo : c.seq <= d.seq
    BY <1>3
  <1>5. QED
    BY <1>1, <1>4 DEF Current

LEMMA ReportType ==
  ASSUME NEW todo \in SUBSET Reports
  PROVE  /\ Report(todo) \in VerifierShape
         /\ Report(todo).incident = 0
         /\ Report(todo).pc \in {"open", "lock"} => Report(todo).todo # {}
  <1>1. <<>> \in Seq(Nat)
    OBVIOUS
  <1>2. CASE todo = {}
    BY <1>1, <1>2 DEF Report, IdleVerifier, VerifierShape
  <1>3. CASE todo # {}
    <2>1. Report(todo) = [IdleVerifier EXCEPT !.pc = "open", !.todo = todo]
      BY <1>3 DEF Report
    <2>2. Report(todo) = [pc |-> "open", rows |-> {}, live |-> <<>>, todo |-> todo, incident |-> 0]
      BY <2>1 DEF IdleVerifier
    <2>3. QED
      BY <1>1, <1>3, <2>2 DEF VerifierShape
  <1>4. QED
    BY <1>2, <1>3

\* What verifications know stays right when one of them goes on.
LEMMA VerifierSteps ==
  ASSUME VerifyInv, NEW v \in Verifiers, NEW next \in VerifierShape,
         verifier' = [verifier EXCEPT ![v] = next],
         next.pc \in {"open", "lock"} => next.todo # {},
         next.incident \in 0 .. Len(incidents'),
         0 .. Len(incidents) \subseteq 0 .. Len(incidents')
  PROVE  VerifyInv'
  <1>1. verifier' \in [Verifiers -> VerifierShape]
    BY DEF VerifyInv
  <1>2. ASSUME NEW u \in Verifiers
        PROVE  /\ verifier'[u].pc \in {"open", "lock"} => verifier'[u].todo # {}
               /\ verifier'[u].incident \in 0 .. Len(incidents')
    <2>1. verifier[u].incident \in 0 .. Len(incidents)
      BY DEF VerifyInv
    <2>2. verifier'[u] = IF u = v THEN next ELSE verifier[u]
      BY DEF VerifyInv
    <2>3. CASE u = v
      BY <2>2, <2>3
    <2>4. CASE u # v
      BY <2>1, <2>2, <2>4 DEF VerifyInv
    <2>5. QED
      BY <2>3, <2>4
  <1>3. QED
    BY <1>1, <1>2 DEF VerifyInv

\* Writing over the ledger's status disturbs the repairs that are under way: nothing is
\* claimed of them any more, and nothing was claimed if there are none.
LEMMA DisturbInv ==
  ASSUME Inv, Disturb, UNCHANGED <<incidents, jobs, repairer>>
  PROVE  HistoryInv' /\ LockInv' /\ CreditInv'
  <1>1. HistoryInv' /\ history'.disturbed =
                          history.disturbed \cup ({repairer[w].pc : w \in RepairWorkers} \cap Checked)
    BY DEF Inv, Shapes, HistoryInv, Disturb
  <1>2. LockInv'
    BY <1>1 DEF LockInv, Checked
  <1>3. CreditInv'
    <2>1. ASSUME history'.disturbed \cap Checked = {}
          PROVE  /\ history.disturbed \cap Checked = {}
                 /\ \A w \in RepairWorkers : repairer[w].pc \notin Checked
      BY <1>1, <2>1
    <2>2. QED
      BY <2>1 DEF Inv, CreditInv, Incidents
  <1>4. QED
    BY <1>1, <1>2, <1>3

LEMMA DataKept == ASSUME Inv, UNCHANGED <<data, admitted>> PROVE DataInv'
  BY DEF Inv, Shapes, DataInv, data

LEMMA Lengths ==
  ASSUME Inv
  PROVE  Len(incidents) \in Nat /\ Len(jobs) \in Nat /\ Incidents = 1 .. Len(incidents)
  BY DEF Inv, Shapes, IncidentsInv, JobsInv, Incidents

LEMMA ReadingInv ==
  ASSUME Inv, NEW v \in Verifiers,
         readLogs(v) \/ readLatestBackup(v) \/ verificationFails(v)
  PROVE  Inv'
  <1>1. UNCHANGED <<data, admitted, ledger, incidents, jobs, repairer, admin>>
    BY DEF readLogs, readLatestBackup, verificationFails
  <1>2. HistoryInv' /\ history'.disturbed = history.disturbed
    <2>1. CASE UNCHANGED history
      BY <2>1 DEF Inv, Shapes, HistoryInv
    <2>2. CASE Fault
      BY <2>2 DEF Inv, Shapes, HistoryInv, Fault
    <2>3. QED
      BY <2>1, <2>2 DEF readLogs, readLatestBackup, verificationFails
  <1>3. /\ verifier[v] \in VerifierShape
        /\ verifier[v].incident \in 0 .. Len(incidents)
        /\ Len(incidents) \in Nat
    BY Lengths DEF Inv, Shapes, VerifyInv
  <1>4. PICK next \in VerifierShape :
           /\ verifier' = [verifier EXCEPT ![v] = next]
           /\ next.pc \in {"open", "lock"} => next.todo # {}
           /\ next.incident \in 0 .. Len(incidents)
    <2>1. CASE readLogs(v)
      <3> DEFINE next == [verifier[v] EXCEPT !.pc = "anchor", !.rows = log, !.live = live]
      <3>1. next \in VerifierShape /\ next.pc = "anchor" /\ next.incident = verifier[v].incident
        BY <1>3 DEF VerifierShape, Inv, Shapes, DataInv
      <3>2. verifier' = [verifier EXCEPT ![v] = next]
        BY <2>1 DEF readLogs
      <3> HIDE DEF next
      <3>3. QED
        BY <1>3, <3>1, <3>2
    <2>2. CASE readLatestBackup(v)
      <3> DEFINE todo == Compromised(verifier[v].rows, LatestBackup(backups), verifier[v].live)
      <3>1. todo \in SUBSET Reports
        BY <1>3, ReportsType DEF VerifierShape
      <3>2. verifier' = [verifier EXCEPT ![v] = Report(todo)]
        BY <2>2 DEF readLatestBackup
      <3> HIDE DEF todo
      <3>3. /\ Report(todo) \in VerifierShape
            /\ Report(todo).incident \in 0 .. Len(incidents)
            /\ Report(todo).pc \in {"open", "lock"} => Report(todo).todo # {}
        BY <1>3, <3>1, ReportType
      <3>4. QED
        BY <3>2, <3>3
    <2>3. CASE verificationFails(v)
      <3>1. verifier' = [verifier EXCEPT ![v] = Report({})]
        BY <2>3 DEF verificationFails, Report
      <3>2. /\ Report({}) \in VerifierShape
            /\ Report({}).incident \in 0 .. Len(incidents)
            /\ Report({}).pc \in {"open", "lock"} => Report({}).todo # {}
        BY <1>3, ReportType
      <3>3. QED
        BY <3>1, <3>2
    <2>4. QED
      BY <2>1, <2>2, <2>3
  <1>5. VerifyInv'
    <2>1. VerifyInv /\ next.incident \in 0 .. Len(incidents')
          /\ 0 .. Len(incidents) \subseteq 0 .. Len(incidents')
      BY <1>1, <1>4 DEF Inv, Shapes
    <2>2. QED
      BY <1>4, <2>1, VerifierSteps
  <1>6. UnlockInv'
    BY <1>1 DEF Inv, Shapes, UnlockInv, LedgerInv, AdminInv, Incidents
  <1>7. QED
    BY <1>1, <1>2, <1>5, <1>6, DataKept, ControlKept DEF control

\* A new incident takes nothing from the others.
LEMMA CreateIncidentInv ==
  ASSUME Inv, NEW v \in Verifiers, createIncident(v) PROVE Inv'
  <1> DEFINE new == [start |-> Current(v).seq, reason |-> Current(v).reason,
                     status |-> "OPEN", credit |-> 0]
  <1>1. UNCHANGED <<data, admitted, ledger, jobs, repairer, admin, history>>
    BY DEF createIncident
  <1>2. Current(v) \in Reports /\ verifier[v].todo # {}
    BY CurrentType DEF createIncident, Inv, Shapes, VerifyInv
  <1>3. new \in IncidentShape /\ new.credit = 0 /\ new.status = "OPEN"
    BY <1>2 DEF Reports, IncidentShape, IncidentStatus
  <1>4. incidents' = Append(incidents, new)
    BY DEF createIncident
  <1> HIDE DEF new
  <1>5. incidents \in Seq(IncidentShape)
    BY DEF Inv, Shapes, IncidentsInv
  <1>6. /\ incidents' \in Seq(IncidentShape)
        /\ Len(incidents') = Len(incidents) + 1
        /\ \A i \in 1 .. Len(incidents) : incidents'[i] = incidents[i]
        /\ incidents'[Len(incidents) + 1] = new
    BY <1>3, <1>4, <1>5, AppendProperties
  <1>7. /\ Incidents = 1 .. Len(incidents)
        /\ Incidents' = 1 .. (Len(incidents) + 1)
        /\ Len(incidents) \in Nat
    BY <1>6, Lengths DEF Incidents
  <1>8. VerifyInv'
    <2> DEFINE next == [verifier[v] EXCEPT !.pc = "lock", !.incident = Len(incidents) + 1]
    <2>1. verifier[v] \in VerifierShape /\ Len(incidents) + 1 \in Nat
      BY <1>7 DEF Inv, Shapes, VerifyInv
    <2>2. /\ next \in VerifierShape
          /\ next.todo = verifier[v].todo
          /\ next.incident = Len(incidents) + 1
      BY <2>1 DEF VerifierShape
    <2>3. verifier' = [verifier EXCEPT ![v] = next]
      BY DEF createIncident, Inv, Shapes, VerifyInv
    <2> HIDE DEF next
    <2>4. next.incident \in 0 .. Len(incidents')
      BY <1>6, <1>7, <2>2
    <2>5. VerifyInv /\ 0 .. Len(incidents) \subseteq 0 .. Len(incidents') /\ next.todo # {}
      BY <1>2, <1>6, <1>7, <2>2 DEF Inv, Shapes
    <2>6. QED
      BY <2>2, <2>3, <2>4, <2>5, VerifierSteps
  <1>9. UnlockInv'
    <2>1. Incidents \subseteq Incidents'
      BY <1>7
    <2>2. QED
      BY <1>1, <2>1 DEF Inv, Shapes, UnlockInv, LedgerInv, AdminInv
  <1>10. JobsInv' /\ RepairersInv'
    BY <1>1, <1>7 DEF Inv, Shapes, JobsInv, RepairersInv
  <1>11. LockInv'
    BY <1>1 DEF Inv, LockInv
  <1>12. CreditInv'
    <2> SUFFICES ASSUME history.disturbed \cap Checked = {} PROVE CreditInv'
      BY <1>1 DEF CreditInv
    <2>1. ASSUME NEW i \in Incidents' PROVE Covered(incidents'[i])
      <3>1. CASE i \in Incidents
        BY <1>6, <1>7, <3>1 DEF Inv, CreditInv
      <3>2. CASE i = Len(incidents) + 1
        BY <1>3, <1>6, <3>2 DEF Covered
      <3>3. QED
        BY <1>7, <3>1, <3>2
    <2>2. ASSUME NEW w \in RepairWorkers, repairer[w].pc \in Checked
          PROVE  Allowed(repairer[w].pc, ledger.status, incidents'[IncidentOf(w)])
      <3>1. IncidentOf(w) \in 1 .. Len(incidents)
        BY <1>7, <2>2 DEF Inv, Shapes, JobsInv, RepairersInv, Checked, Locked, Underway, IncidentOf
      <3>2. QED
        BY <1>6, <2>2, <3>1 DEF Inv, CreditInv
    <2>3. \A w \in RepairWorkers : jobs'[repairer'[w].job].incident = IncidentOf(w)
      BY <1>1 DEF IncidentOf
    <2>4. QED
      BY <1>1, <2>1, <2>2, <2>3 DEF CreditInv, Covered, Allowed, IncidentOf
  <1>13. IncidentsInv' /\ HistoryInv'
    BY <1>1, <1>6 DEF Inv, Shapes, IncidentsInv, HistoryInv
  <1>14. QED
    BY <1>1, <1>8, <1>9, <1>10, <1>11, <1>12, <1>13, DataKept DEF Inv, Shapes

LEMMA LockLedgerInv ==
  ASSUME Inv, NEW v \in Verifiers, lockLedger(v) PROVE Inv'
  <1>1. UNCHANGED <<data, admitted, incidents, jobs, repairer, admin>> /\ Disturb
    BY DEF lockLedger
  <1>2. /\ verifier[v] \in VerifierShape
        /\ verifier[v].incident \in 0 .. Len(incidents)
        /\ Len(incidents) \in Nat
    BY Lengths DEF Inv, Shapes, VerifyInv
  <1>3. UnlockInv'
    <2>1. ledger' = [status |-> "LOCKED", incident |-> verifier[v].incident]
      BY DEF lockLedger
    <2>2. ledger' \in [status : LedgerStatus, incident : {0} \cup Incidents]
      BY <1>2, <2>1, Lengths DEF LedgerStatus
    <2>3. Incidents' = Incidents
      BY <1>1 DEF Incidents
    <2>4. QED
      BY <1>1, <2>1, <2>2, <2>3 DEF Inv, Shapes, UnlockInv, LedgerInv, AdminInv
  <1>4. VerifyInv'
    <2> DEFINE todo == verifier[v].todo \ {Current(v)}
    <2>1. todo \in SUBSET Reports
      BY <1>2 DEF VerifierShape
    <2>2. verifier' = [verifier EXCEPT ![v] = Report(todo)]
      BY DEF lockLedger
    <2> HIDE DEF todo
    <2>3. /\ Report(todo) \in VerifierShape
          /\ Report(todo).incident \in 0 .. Len(incidents')
          /\ Report(todo).pc \in {"open", "lock"} => Report(todo).todo # {}
      BY <1>1, <1>2, <2>1, ReportType
    <2>4. VerifyInv /\ 0 .. Len(incidents) \subseteq 0 .. Len(incidents')
      BY <1>1 DEF Inv, Shapes
    <2>5. QED
      BY <2>2, <2>3, <2>4, VerifierSteps
  <1>5. IncidentsInv' /\ JobsInv' /\ RepairersInv'
    BY <1>1 DEF Inv, Shapes, IncidentsInv, JobsInv, RepairersInv, Incidents
  <1>6. HistoryInv' /\ LockInv' /\ CreditInv'
    BY <1>1, DisturbInv
  <1>7. QED
    BY <1>1, <1>3, <1>4, <1>5, <1>6, DataKept DEF Inv, Shapes

LEMMA VerifyStepInv ==
  ASSUME Inv, NEW v \in Verifiers, VerifyStep(v) PROVE Inv'
  BY ReadingInv, CreateIncidentInv, LockLedgerInv DEF VerifyStep

-----------------------------------------------------------------------------
(* The statuses of incidents                                               *)

\* Whatever status is written, an incident keeps its credit, and an approval adds to it.
LEMMA WithStatusKeeps ==
  ASSUME NEW incident \in IncidentShape, NEW status \in IncidentStatus
  PROVE  /\ WithStatus(incident, status) \in IncidentShape
         /\ WithStatus(incident, status).status = status
         /\ WithStatus(incident, status).credit
              = IF status = "APPROVED" THEN incident.credit + 1 ELSE incident.credit
  <1>1. incident.credit \in Int
    BY DEF IncidentShape
  <1>2. CASE status = "APPROVED"
    <2>1. WithStatus(incident, status) = [incident EXCEPT !.status = status, !.credit = incident.credit + 1]
      BY <1>2 DEF WithStatus
    <2>2. incident.credit + 1 \in Int
      BY <1>1
    <2>3. QED
      BY <1>2, <2>1, <2>2 DEF IncidentShape
  <1>3. CASE status # "APPROVED"
    <2>1. WithStatus(incident, status) = [incident EXCEPT !.status = status, !.credit = incident.credit]
      BY <1>3 DEF WithStatus
    <2>2. QED
      BY <1>1, <1>3, <2>1 DEF IncidentShape
  <1>4. QED
    BY <1>2, <1>3

LEMMA CoveredKept ==
  ASSUME NEW incident \in IncidentShape, NEW status \in IncidentStatus
  PROVE  /\ Covered(incident) => Covered(WithStatus(incident, status))
         /\ \A pc, held : Allowed(pc, held, incident) => Allowed(pc, held, WithStatus(incident, status))
  <1>1. incident.credit \in Int
    BY DEF IncidentShape
  <1>2. /\ WithStatus(incident, status).status = status
        /\ WithStatus(incident, status).credit
             = IF status = "APPROVED" THEN incident.credit + 1 ELSE incident.credit
    BY WithStatusKeeps
  <1>3. Covered(incident) => Covered(WithStatus(incident, status))
    BY <1>1, <1>2 DEF Covered
  <1>4. ASSUME NEW pc, NEW held, Allowed(pc, held, incident)
        PROVE  Allowed(pc, held, WithStatus(incident, status))
    BY <1>1, <1>2, <1>4 DEF Allowed, Locked
  <1>5. QED
    BY <1>3, <1>4

\* The effect of a status on the list of incidents.
LEMMA Restated ==
  ASSUME Inv, NEW i \in Incidents, NEW status \in IncidentStatus,
         incidents' = [incidents EXCEPT ![i] = WithStatus(@, status)]
  PROVE  /\ IncidentsInv'
         /\ Len(incidents') = Len(incidents)
         /\ Incidents' = Incidents
         /\ \A j \in Incidents :
               incidents'[j] = IF j = i THEN WithStatus(incidents[i], status) ELSE incidents[j]
         /\ \A j \in Incidents : Covered(incidents[j]) => Covered(incidents'[j])
         /\ \A j \in Incidents : \A pc, held :
               Allowed(pc, held, incidents[j]) => Allowed(pc, held, incidents'[j])
  <1>1. incidents \in Seq(IncidentShape) /\ Len(incidents) \in Nat /\ Incidents = 1 .. Len(incidents)
    BY Lengths DEF Inv, Shapes, IncidentsInv
  <1>2. \A j \in Incidents : incidents[j] \in IncidentShape
    BY <1>1
  <1>3. WithStatus(incidents[i], status) \in IncidentShape
    BY <1>2, WithStatusKeeps
  <1>4. incidents' = [incidents EXCEPT ![i] = WithStatus(incidents[i], status)]
    OBVIOUS
  <1>5. incidents' \in Seq(IncidentShape) /\ Len(incidents') = Len(incidents)
    BY <1>1, <1>3, <1>4, ExceptSeq
  <1>6. \A j \in Incidents :
           incidents'[j] = IF j = i THEN WithStatus(incidents[i], status) ELSE incidents[j]
    BY <1>1, <1>4
  <1>7. Incidents' = Incidents
    BY <1>5 DEF Incidents
  <1>8. ASSUME NEW j \in Incidents
        PROVE  /\ Covered(incidents[j]) => Covered(incidents'[j])
               /\ \A pc, held : Allowed(pc, held, incidents[j]) => Allowed(pc, held, incidents'[j])
    <2>1. CASE j = i
      BY <1>2, <1>6, <2>1, CoveredKept
    <2>2. CASE j # i
      BY <1>6, <2>2
    <2>3. QED
      BY <2>1, <2>2
  <1>9. QED
    BY <1>5, <1>6, <1>7, <1>8 DEF IncidentsInv

\* The incident of a job that is under way.
LEMMA IncidentOfType ==
  ASSUME Inv, NEW w \in RepairWorkers, repairer[w].pc \in Underway
  PROVE  IncidentOf(w) \in Incidents
  BY DEF Inv, Shapes, JobsInv, RepairersInv, IncidentOf

\* Writing a status disturbs nothing else.
LEMMA RestatedInv ==
  ASSUME Inv, NEW i \in Incidents, NEW status \in IncidentStatus,
         incidents' = [incidents EXCEPT ![i] = WithStatus(@, status)],
         UNCHANGED <<data, admitted, ledger, verifier, jobs, repairer, history>>,
         Incidents' = Incidents => AdminInv'
  PROVE  Inv'
  <1>1. /\ IncidentsInv'
        /\ Len(incidents') = Len(incidents)
        /\ Incidents' = Incidents
        /\ \A j \in Incidents : Covered(incidents[j]) => Covered(incidents'[j])
        /\ \A j \in Incidents : \A pc, held :
              Allowed(pc, held, incidents[j]) => Allowed(pc, held, incidents'[j])
    BY Restated
  <1>2. VerifyInv' /\ UnlockInv'
    BY <1>1 DEF Inv, Shapes, VerifyInv, UnlockInv, LedgerInv
  <1>3. JobsInv' /\ RepairersInv'
    BY <1>1 DEF Inv, Shapes, JobsInv, RepairersInv
  <1>4. LockInv' /\ HistoryInv'
    BY DEF Inv, Shapes, LockInv, HistoryInv
  <1>5. CreditInv'
    <2> SUFFICES ASSUME history.disturbed \cap Checked = {} PROVE CreditInv'
      BY DEF CreditInv
    <2>1. ASSUME NEW j \in Incidents PROVE Covered(incidents'[j])
      BY <1>1 DEF Inv, CreditInv
    <2>2. ASSUME NEW w \in RepairWorkers, repairer[w].pc \in Checked
          PROVE  Allowed(repairer[w].pc, ledger.status, incidents'[IncidentOf(w)])
      <3>1. IncidentOf(w) \in Incidents
        BY <2>2, IncidentOfType DEF Checked, Locked, Underway
      <3>2. QED
        BY <1>1, <2>2, <3>1 DEF Inv, CreditInv
    <2>3. \A w \in RepairWorkers : jobs'[repairer'[w].job].incident = IncidentOf(w)
      BY DEF IncidentOf
    <2>4. QED
      BY <1>1, <2>1, <2>2, <2>3 DEF CreditInv, Covered, Allowed, IncidentOf
  <1>6. QED
    BY <1>1, <1>2, <1>3, <1>4, <1>5, DataKept DEF Inv, Shapes

-----------------------------------------------------------------------------
(* Managers                                                                *)

LEMMA AddJobInv ==
  ASSUME Inv, NEW i \in Incidents, NEW keyed \in BOOLEAN, AddJob(i, keyed) PROVE Inv'
  <1> DEFINE job == [incident |-> i, keyed |-> keyed, status |-> "waiting", attempts |-> 0]
  <1>1. UNCHANGED <<data, admitted, ledger, incidents, verifier, repairer, admin, history>>
    BY DEF AddJob
  <1>2. i \in Nat /\ 0 \in 0 .. RepairAttempts /\ 0 < RepairAttempts
    BY Lengths, LedgerAssumption
  <1>3. job \in JobShape
    <2>1. job.status \in {"waiting", "active", "completed", "failed"}
      OBVIOUS
    <2>2. QED
      BY <1>2 DEF JobShape
  <1>4. job.incident = i /\ job.attempts = 0
    OBVIOUS
  <1>5. jobs' = Append(jobs, job)
    BY DEF AddJob
  <1> HIDE DEF job
  <1>6. jobs \in Seq(JobShape) /\ Len(jobs) \in Nat
    BY Lengths DEF Inv, Shapes, JobsInv
  <1>7. /\ jobs' \in Seq(JobShape)
        /\ Len(jobs') = Len(jobs) + 1
        /\ \A j \in 1 .. Len(jobs) : jobs'[j] = jobs[j]
        /\ jobs'[Len(jobs) + 1] = job
    BY <1>3, <1>5, <1>6, AppendProperties
  <1>8. JobsInv'
    <2>1. ASSUME NEW j \in 1 .. Len(jobs')
          PROVE  /\ jobs'[j].incident \in Incidents
                 /\ jobs'[j].status \in {"waiting", "active"} => jobs'[j].attempts < RepairAttempts
      <3>1. CASE j \in 1 .. Len(jobs)
        BY <1>7, <3>1 DEF Inv, Shapes, JobsInv
      <3>2. CASE j = Len(jobs) + 1
        BY <1>2, <1>4, <1>7, <3>2
      <3>3. QED
        BY <1>6, <1>7, <3>1, <3>2
    <2>2. Incidents' = Incidents
      BY <1>1 DEF Incidents
    <2>3. QED
      BY <1>7, <2>1, <2>2 DEF JobsInv
  <1>9. RepairersInv'
    <2>1. 1 .. Len(jobs) \subseteq 1 .. Len(jobs')
      BY <1>6, <1>7
    <2>2. QED
      BY <1>1, <1>7, <2>1 DEF Inv, Shapes, RepairersInv
  <1>10. CreditInv'
    <2>1. ASSUME NEW w \in RepairWorkers, repairer[w].pc \in Checked
          PROVE  jobs'[repairer'[w].job].incident = IncidentOf(w)
      <3>1. repairer[w].job \in 1 .. Len(jobs)
        BY <2>1 DEF Inv, Shapes, RepairersInv, Checked, Locked, Underway
      <3>2. QED
        BY <1>1, <1>7, <3>1 DEF IncidentOf
    <2>2. Incidents' = Incidents
      BY <1>1 DEF Incidents
    <2>3. QED
      BY <1>1, <2>1, <2>2 DEF Inv, CreditInv, Covered, Allowed, IncidentOf
  <1>11. VerifyInv' /\ UnlockInv' /\ IncidentsInv'
    BY <1>1 DEF Inv, Shapes, VerifyInv, UnlockInv, LedgerInv, AdminInv, Incidents, IncidentsInv
  <1>12. HistoryInv' /\ LockInv'
    BY <1>1 DEF Inv, Shapes, HistoryInv, LockInv
  <1>13. QED
    BY <1>1, <1>8, <1>9, <1>10, <1>11, <1>12, DataKept DEF Inv, Shapes

LEMMA ManagerStepInv ==
  ASSUME Inv, NEW i \in Incidents, ManagerStep(i) PROVE Inv'
  <1>1. ASSUME NEW status \in IncidentStatus, updateIncidentStatus(i, status) PROVE Inv'
    <2>1. Incidents' = Incidents => AdminInv'
      BY <1>1 DEF updateIncidentStatus, procs, Inv, Shapes, UnlockInv, AdminInv
    <2>2. QED
      BY <1>1, <2>1, RestatedInv DEF updateIncidentStatus, procs
  <1>2. triggerRepair(i) \/ repairUserChain(i) => Inv'
    BY AddJobInv DEF triggerRepair, repairUserChain
  <1>3. QED
    BY <1>1, <1>2 DEF ManagerStep

-----------------------------------------------------------------------------
(* Unlock requests                                                         *)

LEMMA AdminSteps ==
  ASSUME AdminInv, Incidents' = Incidents, NEW a \in Admins,
         NEW pc \in {"idle", "activate", "check", "resolve"},
         NEW i \in {0} \cup Incidents, pc # "idle" => i \in Incidents,
         admin' = [admin EXCEPT ![a] = [pc |-> pc, incident |-> i]]
  PROVE  AdminInv'
  <1> DEFINE next == [pc |-> pc, incident |-> i]
  <1>1. next \in [pc : {"idle", "activate", "check", "resolve"}, incident : {0} \cup Incidents]
    OBVIOUS
  <1>2. admin' = [admin EXCEPT ![a] = next] /\ (next.pc # "idle" => next.incident \in Incidents)
    OBVIOUS
  <1> HIDE DEF next
  <1>3. QED
    BY <1>1, <1>2 DEF AdminInv

\* Unlock requests that only look, or fail.
LEMMA LookingInv ==
  ASSUME Inv, NEW a \in Admins,
         readLedger(a) \/ checkRepairing(a) \/ unlockFails(a)
  PROVE  Inv'
  <1>1. UNCHANGED <<data, admitted, ledger, incidents, verifier, jobs, repairer>>
    BY DEF readLedger, checkRepairing, unlockFails
  <1>2. HistoryInv' /\ history'.disturbed = history.disturbed
    <2>1. CASE UNCHANGED history
      BY <2>1 DEF Inv, Shapes, HistoryInv
    <2>2. CASE Fault
      BY <2>2 DEF Inv, Shapes, HistoryInv, Fault
    <2>3. QED
      BY <2>1, <2>2 DEF readLedger, checkRepairing, unlockFails
  <1>3. Incidents' = Incidents
    BY <1>1 DEF Incidents
  <1>4. AdminInv
    BY DEF Inv, Shapes, UnlockInv
  <1>5. [admin[a] EXCEPT !.pc = "resolve"] = [pc |-> "resolve", incident |-> admin[a].incident]
    BY <1>4 DEF AdminInv
  <1>6. AdminInv'
    <2>1. CASE readLedger(a)
      <3>1. ledger.incident \in Incidents
        BY <2>1 DEF readLedger, MayUnlock, Inv, Shapes, UnlockInv, LedgerInv
      <3>2. admin' = [admin EXCEPT ![a] = [pc |-> "activate", incident |-> ledger.incident]]
        BY <2>1 DEF readLedger
      <3>3. QED
        BY <1>3, <1>4, <3>1, <3>2, AdminSteps
    <2>2. CASE admin' = [admin EXCEPT ![a] = IdleAdmin]
      BY <1>3, <1>4, <2>2, AdminSteps DEF IdleAdmin
    <2>3. CASE checkRepairing(a) /\ admin' = [admin EXCEPT ![a].pc = "resolve"]
      <3>1. admin[a].incident \in Incidents
        BY <1>4, <2>3 DEF checkRepairing, AdminInv
      <3>2. admin' = [admin EXCEPT ![a] = [pc |-> "resolve", incident |-> admin[a].incident]]
        BY <1>5, <2>3
      <3>3. QED
        BY <1>3, <1>4, <3>1, <3>2, AdminSteps
    <2>4. QED
      BY <2>1, <2>2, <2>3 DEF checkRepairing, unlockFails
  <1>7. VerifyInv' /\ LedgerInv'
    BY <1>1, <1>3 DEF Inv, Shapes, VerifyInv, UnlockInv, LedgerInv
  <1>8. QED
    BY <1>1, <1>2, <1>6, <1>7, DataKept, ControlKept DEF control, UnlockInv

LEMMA ActivateLedgerInv ==
  ASSUME Inv, NEW a \in Admins, activateLedger(a) PROVE Inv'
  <1>1. UNCHANGED <<data, admitted, incidents, verifier, jobs, repairer>> /\ Disturb
    BY DEF activateLedger
  <1>2. Incidents' = Incidents
    BY <1>1 DEF Incidents
  <1>3. AdminInv'
    <2>1. AdminInv /\ admin[a].incident \in Incidents
      BY DEF activateLedger, Inv, Shapes, UnlockInv, AdminInv
    <2>2. [admin[a] EXCEPT !.pc = "check"] = [pc |-> "check", incident |-> admin[a].incident]
      BY <2>1 DEF AdminInv
    <2>3. admin' = [admin EXCEPT ![a] = [pc |-> "check", incident |-> admin[a].incident]]
      BY <2>2 DEF activateLedger
    <2>4. QED
      BY <1>2, <2>1, <2>3, AdminSteps
  <1>4. LedgerInv'
    BY <1>2 DEF activateLedger, LedgerInv, LedgerStatus
  <1>5. VerifyInv' /\ IncidentsInv' /\ JobsInv' /\ RepairersInv'
    BY <1>1 DEF Inv, Shapes, VerifyInv, IncidentsInv, JobsInv, RepairersInv, Incidents
  <1>6. HistoryInv' /\ LockInv' /\ CreditInv'
    BY <1>1, DisturbInv
  <1>7. QED
    BY <1>1, <1>3, <1>4, <1>5, <1>6, DataKept DEF Inv, Shapes, UnlockInv

LEMMA UnlockStepInv ==
  ASSUME Inv, NEW a \in Admins, UnlockStep(a) PROVE Inv'
  <1>1. CASE resolveIncident(a)
    <2>1. AdminInv /\ admin[a].incident \in Incidents
      BY <1>1 DEF resolveIncident, Inv, Shapes, UnlockInv, AdminInv
    <2>2. Incidents' = Incidents => AdminInv'
      BY <1>1, <2>1, AdminSteps DEF resolveIncident, IdleAdmin
    <2>3. "RESOLVED" \in IncidentStatus
      BY DEF IncidentStatus
    <2>4. QED
      BY <1>1, <2>1, <2>2, <2>3, RestatedInv DEF resolveIncident
  <1>2. QED
    BY <1>1, LookingInv, ActivateLedgerInv DEF UnlockStep

-----------------------------------------------------------------------------
(* Repair: what a step of a worker does to the queue and to the others     *)

\* The other workers keep their place and their incident.
OthersStay(w) ==
    \A u \in RepairWorkers \ {w} :
       /\ repairer'[u] = repairer[u]
       /\ repairer[u].pc \in Underway => jobs'[repairer[u].job].incident = IncidentOf(u)

\* A worker goes on with its job.
LEMMA WorkerGoes ==
  ASSUME Inv, NEW w \in RepairWorkers, repairer[w].pc \in Underway, Incidents' = Incidents,
         UNCHANGED jobs, NEW next \in RepairerShape,
         repairer' = [repairer EXCEPT ![w] = next],
         next.pc \in Underway, next.job = repairer[w].job,
         next.pc \notin {"find", "fetch"} => next.records # {} /\ IsFiniteSet(next.records)
  PROVE  JobsInv' /\ RepairersInv' /\ OthersStay(w)
  <1>1. JobsInv'
    BY DEF Inv, Shapes, JobsInv
  <1>2. repairer \in [RepairWorkers -> RepairerShape]
    BY DEF Inv, Shapes, RepairersInv
  <1>3. \A u \in RepairWorkers : repairer'[u] = IF u = w THEN next ELSE repairer[u]
    BY <1>2
  <1>4. OthersStay(w)
    BY <1>3 DEF OthersStay, IncidentOf
  <1>5. repairer' \in [RepairWorkers -> RepairerShape]
    BY <1>2
  <1>6. next.pc # "idle"
    BY DEF Underway
  <1>7. ASSUME NEW u \in RepairWorkers
        PROVE  /\ repairer'[u].pc = "idle" => repairer'[u].job = 0
               /\ repairer'[u].pc \in Underway =>
                     /\ repairer'[u].job \in 1 .. Len(jobs)
                     /\ jobs[repairer'[u].job].status = "active"
               /\ repairer'[u].pc \in Underway \ {"find", "fetch"} =>
                     repairer'[u].records # {} /\ IsFiniteSet(repairer'[u].records)
    <2>1. CASE u = w
      BY <1>3, <1>6, <2>1 DEF Inv, Shapes, RepairersInv
    <2>2. CASE u # w
      BY <1>3, <2>2 DEF Inv, Shapes, RepairersInv
    <2>3. QED
      BY <2>1, <2>2
  <1>8. ASSUME NEW u \in RepairWorkers, NEW x \in RepairWorkers,
               repairer'[u].pc \in Underway, repairer'[x].pc \in Underway,
               repairer'[u].job = repairer'[x].job
        PROVE  u = x
    <2>1. /\ repairer[u].pc \in Underway /\ repairer[u].job = repairer'[u].job
          /\ repairer[x].pc \in Underway /\ repairer[x].job = repairer'[x].job
      BY <1>3, <1>8
    <2>2. QED
      BY <1>8, <2>1 DEF Inv, Shapes, RepairersInv
  <1>9. QED
    BY <1>1, <1>4, <1>5, <1>7, <1>8 DEF RepairersInv

\* A worker leaves its job.
LEMMA WorkerLeaves ==
  ASSUME Inv, NEW w \in RepairWorkers, repairer[w].pc \in Underway, Incidents' = Incidents,
         NEW job \in JobShape, job.incident = IncidentOf(w),
         job.status \in {"waiting", "active"} => job.attempts < RepairAttempts,
         jobs' = [jobs EXCEPT ![repairer[w].job] = job],
         repairer' = [repairer EXCEPT ![w] = IdleRepairer]
  PROVE  JobsInv' /\ RepairersInv' /\ OthersStay(w) /\ repairer'[w].pc = "idle"
  <1>1. repairer \in [RepairWorkers -> RepairerShape]
    BY DEF Inv, Shapes, RepairersInv
  <1>2. /\ \A u \in RepairWorkers \ {w} : repairer'[u] = repairer[u]
        /\ repairer'[w] = IdleRepairer
    BY <1>1
  <1>3. IdleRepairer \in RepairerShape /\ IdleRepairer.pc = "idle" /\ IdleRepairer.job = 0
    BY DEF IdleRepairer, RepairerShape
  <1>4. jobs \in Seq(JobShape) /\ Len(jobs) \in Nat /\ repairer[w].job \in 1 .. Len(jobs)
    BY Lengths DEF Inv, Shapes, JobsInv, RepairersInv
  <1>5. /\ jobs' \in Seq(JobShape)
        /\ Len(jobs') = Len(jobs)
        /\ \A j \in 1 .. Len(jobs) : jobs'[j] = IF j = repairer[w].job THEN job ELSE jobs[j]
    BY <1>4, ExceptSeq
  <1>6. JobsInv'
    <2>1. ASSUME NEW j \in 1 .. Len(jobs')
          PROVE  /\ jobs'[j].incident \in Incidents
                 /\ jobs'[j].status \in {"waiting", "active"} => jobs'[j].attempts < RepairAttempts
      <3>1. CASE j = repairer[w].job
        BY <1>4, <1>5, <3>1, IncidentOfType
      <3>2. CASE j # repairer[w].job
        BY <1>5, <3>2 DEF Inv, Shapes, JobsInv
      <3>3. QED
        BY <3>1, <3>2
    <2>2. QED
      BY <1>5, <2>1 DEF JobsInv
  <1>7. ASSUME NEW u \in RepairWorkers, u # w, repairer[u].pc \in Underway
        PROVE  /\ repairer[u].job \in 1 .. Len(jobs)
               /\ jobs'[repairer[u].job] = jobs[repairer[u].job]
               /\ jobs[repairer[u].job].status = "active"
    <2>1. repairer[u].job \in 1 .. Len(jobs) /\ repairer[u].job # repairer[w].job
          /\ jobs[repairer[u].job].status = "active"
      BY <1>7 DEF Inv, Shapes, RepairersInv
    <2>2. QED
      BY <1>5, <2>1
  <1>8. OthersStay(w)
    BY <1>2, <1>7 DEF OthersStay, IncidentOf
  <1>9. "idle" \notin Underway
    BY DEF Underway
  <1>10. RepairersInv'
    <2>1. repairer' \in [RepairWorkers -> RepairerShape]
      BY <1>1, <1>3
    <2>2. ASSUME NEW u \in RepairWorkers
          PROVE  /\ repairer'[u].pc = "idle" => repairer'[u].job = 0
                 /\ repairer'[u].pc \in Underway =>
                       /\ repairer'[u].job \in 1 .. Len(jobs)
                       /\ jobs'[repairer'[u].job].status = "active"
                 /\ repairer'[u].pc \in Underway \ {"find", "fetch"} =>
                       repairer'[u].records # {} /\ IsFiniteSet(repairer'[u].records)
      <3>1. CASE u = w
        BY <1>2, <1>3, <1>9, <3>1
      <3>2. CASE u # w
        BY <1>2, <1>7, <3>2 DEF Inv, Shapes, RepairersInv
      <3>3. QED
        BY <3>1, <3>2
    <2>3. ASSUME NEW u \in RepairWorkers, NEW x \in RepairWorkers,
                 repairer'[u].pc \in Underway, repairer'[x].pc \in Underway,
                 repairer'[u].job = repairer'[x].job
          PROVE  u = x
      <3>1. repairer'[u] = repairer[u] /\ repairer'[x] = repairer[x]
        BY <1>2, <1>3, <1>9, <2>3
      <3>2. QED
        BY <2>3, <3>1 DEF Inv, Shapes, RepairersInv
    <2>4. QED
      BY <1>5, <2>1, <2>2, <2>3 DEF RepairersInv
  <1>11. QED
    BY <1>2, <1>3, <1>6, <1>8, <1>10

\* A job that fails, or loses its worker, waits again or has used up its attempts.
LEMMA FailingLeaves ==
  ASSUME Inv, NEW w \in RepairWorkers, repairer[w].pc \in Underway, Incidents' = Incidents,
         Throw(w) \/ Stall(w)
  PROVE  JobsInv' /\ RepairersInv' /\ OthersStay(w) /\ repairer'[w].pc = "idle"
  <1> DEFINE j == repairer[w].job
  <1>1. /\ j \in 1 .. Len(jobs)
        /\ jobs[j].status = "active"
        /\ jobs[j] \in JobShape
        /\ jobs[j].attempts < RepairAttempts
    BY DEF Inv, Shapes, JobsInv, RepairersInv
  <1>2. RepairAttempts \in Nat /\ jobs[j].attempts \in Nat
    BY <1>1, LedgerAssumption DEF JobShape
  <1>3. repairer' = [repairer EXCEPT ![w] = IdleRepairer]
    BY DEF Throw, Stall
  <1>4. CASE Stall(w)
    <2> DEFINE job == [jobs[j] EXCEPT !.status = "waiting"]
    <2>1. /\ job \in JobShape
          /\ job.incident = jobs[j].incident
          /\ job.attempts = jobs[j].attempts
      BY <1>1 DEF JobShape
    <2>2. jobs' = [jobs EXCEPT ![j] = job]
      BY <1>4 DEF Stall
    <2> HIDE DEF job
    <2>3. QED
      BY <1>1, <1>3, <2>1, <2>2, WorkerLeaves DEF IncidentOf
  <1>5. CASE Throw(w)
    <2> DEFINE status == IF jobs[j].attempts + 1 < RepairAttempts THEN "waiting" ELSE "failed"
               attempts == jobs[j].attempts + 1
               job == [jobs[j] EXCEPT !.attempts = attempts, !.status = status]
    <2>1. attempts \in 0 .. RepairAttempts
      BY <1>1, <1>2
    <2>2. /\ status \in {"waiting", "active", "completed", "failed"}
          /\ status \in {"waiting", "active"} => attempts < RepairAttempts
      <3> HIDE DEF job, j
      <3>1. CASE attempts < RepairAttempts
        BY <3>1
      <3>2. CASE ~(attempts < RepairAttempts)
        BY <3>2
      <3>3. QED
        BY <3>1, <3>2
    <2>3. jobs' = [jobs EXCEPT ![j] = job]
      BY <1>5 DEF Throw
    <2> HIDE DEF status, attempts
    <2>4. /\ job \in JobShape
          /\ job.incident = jobs[j].incident
          /\ job.attempts = attempts
          /\ job.status = status
      BY <1>1, <2>1, <2>2 DEF JobShape
    <2> HIDE DEF job
    <2>5. /\ job.incident = IncidentOf(w)
          /\ job.status \in {"waiting", "active"} => job.attempts < RepairAttempts
      BY <2>2, <2>4 DEF IncidentOf
    <2>6. QED
      BY <1>3, <2>3, <2>4, <2>5, WorkerLeaves
  <1>6. QED
    BY <1>4, <1>5

-----------------------------------------------------------------------------
(* Repair: what a step of a worker does to the ledger and the incidents    *)

\* The status stays, or the ledger is taken for repair.
StaysOrTaken == ledger' = ledger \/ ledger'.status = "UNDER_REPAIR"

Undisturbed == history.disturbed \cap Checked = {}

\* What a step of w writes takes no approval away from the other workers.
OthersServed(w) ==
    Undisturbed =>
       /\ \A i \in Incidents : Covered(incidents'[i])
       /\ \A u \in RepairWorkers \ {w} : repairer[u].pc \in Checked =>
             Allowed(repairer[u].pc, ledger'.status, incidents'[IncidentOf(u)])

\* A taken ledger asks less of a worker than any other.
LEMMA AllowedTaken ==
  ASSUME StaysOrTaken, NEW pc, NEW incident, Allowed(pc, ledger.status, incident)
  PROVE  Allowed(pc, ledger'.status, incident)
  <1>1. CASE ledger' = ledger
    BY <1>1
  <1>2. CASE ledger'.status = "UNDER_REPAIR"
    BY <1>2 DEF Allowed
  <1>3. QED
    BY <1>1, <1>2 DEF StaysOrTaken

LEMMA UndisturbedCredit ==
  ASSUME Inv, Undisturbed
  PROVE  /\ \A i \in Incidents : Covered(incidents[i])
         /\ \A u \in RepairWorkers : repairer[u].pc \in Checked =>
               IncidentOf(u) \in Incidents
               /\ Allowed(repairer[u].pc, ledger.status, incidents[IncidentOf(u)])
  <1>1. Checked \subseteq Underway
    BY DEF Checked, Locked, Underway
  <1>2. QED
    BY <1>1, IncidentOfType DEF Inv, CreditInv, Undisturbed

\* A step that writes the ledger's lock, or nothing.
LEMMA LockServes ==
  ASSUME Inv, NEW w \in RepairWorkers, repairer[w].pc \in Underway,
         UNCHANGED incidents, UNCHANGED ledger \/ WriteLock(w)
  PROVE  /\ Incidents' = Incidents /\ Len(incidents') = Len(incidents)
         /\ IncidentsInv' /\ LedgerInv' /\ StaysOrTaken /\ OthersServed(w)
  <1>1. Incidents' = Incidents /\ Len(incidents') = Len(incidents) /\ IncidentsInv'
    BY DEF Incidents, IncidentsInv, Inv, Shapes
  <1>2. LedgerInv'
    BY <1>1, IncidentOfType DEF LedgerInv, WriteLock, LedgerStatus, Inv, Shapes, UnlockInv
  <1>3. StaysOrTaken
    BY DEF StaysOrTaken, WriteLock
  <1>4. OthersServed(w)
    <2> SUFFICES ASSUME Undisturbed
                 PROVE  /\ \A i \in Incidents : Covered(incidents'[i])
                        /\ \A u \in RepairWorkers \ {w} : repairer[u].pc \in Checked =>
                              Allowed(repairer[u].pc, ledger'.status, incidents'[IncidentOf(u)])
      BY DEF OthersServed
    <2>1. QED
      BY <1>3, UndisturbedCredit, AllowedTaken
  <1>5. QED
    BY <1>1, <1>2, <1>3, <1>4

\* A step that writes REPAIRING.
LEMMA RepairingServes ==
  ASSUME Inv, NEW w \in RepairWorkers, repairer[w].pc \in Underway,
         UNCHANGED ledger, WriteRepairing(w)
  PROVE  /\ Incidents' = Incidents /\ Len(incidents') = Len(incidents)
         /\ IncidentsInv' /\ LedgerInv' /\ StaysOrTaken /\ OthersServed(w)
  <1>1. IncidentOf(w) \in Incidents /\ "REPAIRING" \in IncidentStatus
    BY IncidentOfType DEF IncidentStatus
  <1>2. /\ IncidentsInv' /\ Incidents' = Incidents /\ Len(incidents') = Len(incidents)
        /\ \A j \in Incidents : Covered(incidents[j]) => Covered(incidents'[j])
        /\ \A j \in Incidents : \A pc, held :
              Allowed(pc, held, incidents[j]) => Allowed(pc, held, incidents'[j])
    BY <1>1, Restated DEF WriteRepairing
  <1>3. LedgerInv' /\ StaysOrTaken
    BY <1>2 DEF LedgerInv, StaysOrTaken, Inv, Shapes, UnlockInv
  <1>4. OthersServed(w)
    BY <1>2, UndisturbedCredit DEF OthersServed
  <1>5. QED
    BY <1>2, <1>3, <1>4

\* The restoring transaction spends an approval.  The worker holds the lock, so that the
\* other workers have not come past theirs and will find the ledger taken.
LEMMA RestoringServes ==
  ASSUME Inv, NEW w \in RepairWorkers, repairer[w].pc = "restore",
         UNCHANGED ledger, WriteRestored(w)
  PROVE  /\ Incidents' = Incidents /\ Len(incidents') = Len(incidents)
         /\ IncidentsInv' /\ LedgerInv' /\ StaysOrTaken /\ OthersServed(w)
  <1> DEFINE i == IncidentOf(w)
             spent == [incidents[i] EXCEPT !.credit = incidents[i].credit - 1]
  <1>1. i \in Incidents
    BY IncidentOfType DEF Underway
  <1>2. incidents \in Seq(IncidentShape) /\ Incidents = 1 .. Len(incidents) /\ Len(incidents) \in Nat
    BY Lengths DEF Inv, Shapes, IncidentsInv
  <1>3. incidents[i] \in IncidentShape /\ incidents[i].credit \in Int
    <2>1. incidents[i] \in IncidentShape
      BY <1>1, <1>2
    <2>2. QED
      BY <2>1 DEF IncidentShape
  <1>4. /\ spent \in IncidentShape
        /\ spent.credit = incidents[i].credit - 1
        /\ spent.status = incidents[i].status
    <2> DEFINE credit == incidents[i].credit - 1
    <2>1. credit \in Int
      BY <1>3
    <2> HIDE DEF credit
    <2>2. [incidents[i] EXCEPT !.credit = credit] \in IncidentShape
          /\ [incidents[i] EXCEPT !.credit = credit].credit = credit
          /\ [incidents[i] EXCEPT !.credit = credit].status = incidents[i].status
      BY <1>3, <2>1 DEF IncidentShape
    <2>3. QED
      BY <2>2 DEF credit
  <1>5. incidents' = [incidents EXCEPT ![i] = spent]
    <2>1. incidents' = [incidents EXCEPT ![IncidentOf(w)].credit = @ - 1]
      BY DEF WriteRestored
    <2>2. QED
      BY <2>1
  <1> HIDE DEF spent
  <1>6. /\ incidents' \in Seq(IncidentShape)
        /\ Len(incidents') = Len(incidents)
        /\ \A j \in Incidents : incidents'[j] = IF j = i THEN spent ELSE incidents[j]
    BY <1>1, <1>2, <1>4, <1>5, ExceptSeq
  <1>7. Incidents' = Incidents /\ IncidentsInv'
    BY <1>6 DEF Incidents, IncidentsInv
  <1>8. LedgerInv' /\ StaysOrTaken
    BY <1>7 DEF LedgerInv, StaysOrTaken, Inv, Shapes, UnlockInv
  <1>9. OthersServed(w)
    <2> SUFFICES ASSUME Undisturbed
                 PROVE  /\ \A j \in Incidents : Covered(incidents'[j])
                        /\ \A u \in RepairWorkers \ {w} : repairer[u].pc \in Checked =>
                              Allowed(repairer[u].pc, ledger'.status, incidents'[IncidentOf(u)])
      BY DEF OthersServed
    <2>1. /\ incidents[i].credit >= 1
          /\ incidents[i].status = "APPROVED" => incidents[i].credit >= 2
      BY UndisturbedCredit DEF Allowed, Checked, Locked
    <2>2. Covered(spent)
      BY <1>3, <1>4, <2>1 DEF Covered
    <2>3. ASSUME NEW j \in Incidents PROVE Covered(incidents'[j])
      BY <1>6, <2>2, UndisturbedCredit
    <2>4. /\ ledger.status = "UNDER_REPAIR"
          /\ \A u \in RepairWorkers : repairer[u].pc \in Locked => u = w
      BY DEF Inv, LockInv, Undisturbed, Checked, Locked
    <2>5. ASSUME NEW u \in RepairWorkers \ {w}
          PROVE  Allowed(repairer[u].pc, ledger'.status, incidents'[IncidentOf(u)])
      BY <2>4 DEF Allowed, Locked
    <2>6. QED
      BY <2>3, <2>5
  <1>10. QED
    BY <1>6, <1>7, <1>8, <1>9

\* A step of w whose parts are accounted for preserves the invariant.
LEMMA WorkerStepInv ==
  ASSUME Inv, NEW w \in RepairWorkers, DataInv', HistoryInv',
         history'.disturbed = history.disturbed, UNCHANGED <<verifier, admin>>,
         Incidents' = Incidents, Len(incidents') = Len(incidents), IncidentsInv', LedgerInv',
         StaysOrTaken, OthersServed(w),
         JobsInv', RepairersInv', OthersStay(w),
         repairer'[w].pc \in Locked =>
            \/ repairer[w].pc \in Locked
            \/ ledger'.status = "UNDER_REPAIR" /\ ledger.status # "UNDER_REPAIR",
         Undisturbed /\ repairer'[w].pc \in Checked =>
            Allowed(repairer'[w].pc, ledger'.status, incidents'[jobs'[repairer'[w].job].incident])
  PROVE  Inv'
  <1>1. VerifyInv' /\ AdminInv'
    BY DEF Inv, Shapes, VerifyInv, UnlockInv, AdminInv
  <1>2. \A u \in RepairWorkers \ {w} : repairer'[u] = repairer[u]
    BY DEF OthersStay
  <1>3. LockInv'
    <2> SUFFICES ASSUME history.disturbed \cap Locked = {},
                        NEW u \in RepairWorkers, repairer'[u].pc \in Locked
                 PROVE  /\ ledger'.status = "UNDER_REPAIR"
                        /\ \A x \in RepairWorkers : repairer'[x].pc \in Locked => x = u
      BY DEF LockInv
    <2>1. \A x \in RepairWorkers : repairer[x].pc \in Locked =>
             /\ ledger.status = "UNDER_REPAIR"
             /\ \A y \in RepairWorkers : repairer[y].pc \in Locked => y = x
      BY DEF Inv, LockInv
    <2>2. CASE repairer'[w].pc \notin Locked \/ repairer[w].pc \in Locked
      <3>1. \A x \in RepairWorkers : repairer'[x].pc \in Locked => repairer[x].pc \in Locked
        BY <1>2, <2>2
      <3>2. QED
        BY <2>1, <3>1 DEF StaysOrTaken
    <2>3. CASE repairer'[w].pc \in Locked /\ repairer[w].pc \notin Locked
      <3>1. \A x \in RepairWorkers : repairer[x].pc \notin Locked
        BY <2>1, <2>3
      <3>2. \A x \in RepairWorkers : repairer'[x].pc \in Locked => x = w
        BY <1>2, <3>1
      <3>3. QED
        BY <2>3, <3>2
    <2>4. QED
      BY <2>2, <2>3
  <1>4. CreditInv'
    <2> SUFFICES ASSUME Undisturbed PROVE CreditInv'
      BY DEF CreditInv, Undisturbed
    <2>1. \A i \in Incidents' : Covered(incidents'[i])
      BY DEF OthersServed
    <2>2. ASSUME NEW u \in RepairWorkers, repairer'[u].pc \in Checked
          PROVE  Allowed(repairer'[u].pc, ledger'.status, incidents'[jobs'[repairer'[u].job].incident])
      <3>1. CASE u = w
        BY <2>2, <3>1
      <3>2. CASE u # w
        <4>1. repairer'[u] = repairer[u] /\ repairer[u].pc \in Checked
          BY <1>2, <2>2, <3>2
        <4>2. jobs'[repairer'[u].job].incident = IncidentOf(u)
          BY <3>2, <4>1 DEF OthersStay, Checked, Locked, Underway
        <4>3. QED
          BY <3>2, <4>1, <4>2 DEF OthersServed
      <3>3. QED
        BY <3>1, <3>2
    <2>3. QED
      BY <2>1, <2>2 DEF CreditInv, Covered, Allowed, IncidentOf
  <1>5. QED
    BY <1>1, <1>3, <1>4 DEF Inv, Shapes, UnlockInv

-----------------------------------------------------------------------------
(* Repair: the steps                                                       *)

LEMMA WorkerShape ==
  ASSUME Inv, NEW w \in RepairWorkers
  PROVE  repairer[w] \in RepairerShape /\ repairer \in [RepairWorkers -> RepairerShape]
  BY DEF Inv, Shapes, RepairersInv

\* A worker whose step goes to pc, with the records it restores.
LEMMA GoesTo ==
  ASSUME Inv, NEW w \in RepairWorkers, repairer[w].pc \in Underway, Incidents' = Incidents,
         NEW pc \in Underway, NEW records \in SUBSET Rows,
         pc \notin {"find", "fetch"} => records # {} /\ IsFiniteSet(records),
         repairer' = [repairer EXCEPT ![w] = [repairer[w] EXCEPT !.pc = pc, !.records = records]],
         UNCHANGED jobs
  PROVE  /\ JobsInv' /\ RepairersInv' /\ OthersStay(w)
         /\ repairer'[w].pc = pc
         /\ jobs'[repairer'[w].job].incident = IncidentOf(w)
  <1> DEFINE next == [repairer[w] EXCEPT !.pc = pc, !.records = records]
  <1>1. /\ next \in RepairerShape /\ next.pc = pc /\ next.job = repairer[w].job
        /\ next.records = records
    BY WorkerShape DEF RepairerShape
  <1>2. repairer' = [repairer EXCEPT ![w] = next]
    OBVIOUS
  <1> HIDE DEF next
  <1>3. JobsInv' /\ RepairersInv' /\ OthersStay(w)
    BY <1>1, <1>2, WorkerGoes
  <1>4. repairer'[w] = next
    BY <1>2, WorkerShape
  <1>5. QED
    BY <1>1, <1>3, <1>4 DEF IncidentOf

LEMMA GotoGoes ==
  ASSUME Inv, NEW w \in RepairWorkers, repairer[w].pc \in Underway, Incidents' = Incidents,
         NEW pc \in Underway, Goto(w, pc),
         pc \in {"find", "fetch"} \/ repairer[w].pc \notin {"find", "fetch"}
  PROVE  /\ JobsInv' /\ RepairersInv' /\ OthersStay(w)
         /\ repairer'[w].pc = pc
         /\ jobs'[repairer'[w].job].incident = IncidentOf(w)
  <1> DEFINE records == repairer[w].records
  <1>1. records \in SUBSET Rows
    BY WorkerShape DEF RepairerShape
  <1>2. pc \notin {"find", "fetch"} => records # {} /\ IsFiniteSet(records)
    BY DEF Inv, Shapes, RepairersInv
  <1>3. [repairer[w] EXCEPT !.pc = pc] = [repairer[w] EXCEPT !.pc = pc, !.records = records]
    BY WorkerShape DEF RepairerShape
  <1>4. repairer' = [repairer EXCEPT ![w] = [repairer[w] EXCEPT !.pc = pc, !.records = records]]
        /\ UNCHANGED jobs
    BY <1>3 DEF Goto
  <1> HIDE DEF records
  <1>5. QED
    BY <1>1, <1>2, <1>4, GoesTo

\* Steps that write nothing but the worker's own place: they end at pc, or leave the job.
LEMMA QuietStepInv ==
  ASSUME Inv, NEW w \in RepairWorkers, repairer[w].pc \in Underway,
         UNCHANGED <<data, admitted, ledger, incidents, verifier, admin, history>>,
         JobsInv', RepairersInv', OthersStay(w), repairer'[w].pc \notin Locked,
         Undisturbed /\ repairer'[w].pc \in Checked =>
            Allowed(repairer'[w].pc, ledger.status, incidents[jobs'[repairer'[w].job].incident])
  PROVE  Inv'
  <1>1. /\ Incidents' = Incidents /\ Len(incidents') = Len(incidents)
        /\ IncidentsInv' /\ LedgerInv' /\ StaysOrTaken /\ OthersServed(w)
    BY LockServes
  <1>2. DataInv' /\ HistoryInv' /\ history'.disturbed = history.disturbed
    BY DataKept DEF Inv, Shapes, HistoryInv
  <1>3. QED
    BY <1>1, <1>2, WorkerStepInv

LEMMA FindIncidentInv ==
  ASSUME Inv, NEW w \in RepairWorkers, findIncident(w) PROVE Inv'
  <1>1. UNCHANGED <<data, admitted, ledger, incidents, verifier, admin, history>>
        /\ repairer[w].pc \in Underway /\ repairer[w].pc = "find"
    BY DEF findIncident, Underway
  <1>2. Incidents' = Incidents
    BY <1>1 DEF Incidents
  <1>3. CASE Throw(w)
    <2>1. JobsInv' /\ RepairersInv' /\ OthersStay(w) /\ repairer'[w].pc = "idle"
      BY <1>1, <1>2, <1>3, FailingLeaves
    <2>2. QED
      BY <1>1, <2>1, QuietStepInv DEF Locked, Checked
  <1>4. CASE MayRepair(incidents[IncidentOf(w)]) /\ Goto(w, "fetch")
    <2>1. /\ JobsInv' /\ RepairersInv' /\ OthersStay(w)
          /\ repairer'[w].pc = "fetch"
          /\ jobs'[repairer'[w].job].incident = IncidentOf(w)
      BY <1>1, <1>2, <1>4, GotoGoes DEF Underway
    <2>2. IncidentOf(w) \in Incidents
      BY <1>1, IncidentOfType
    <2>3. Undisturbed => Allowed("fetch", ledger.status, incidents[IncidentOf(w)])
      BY <1>4, <2>2, UndisturbedCredit DEF MayRepair, Covered, Allowed
    <2>4. QED
      BY <1>1, <2>1, <2>3, QuietStepInv DEF Locked
  <1>5. QED
    BY <1>3, <1>4 DEF findIncident

\* The checks between the approval and the lock.
LEMMA CheckingInv ==
  ASSUME Inv, NEW w \in RepairWorkers,
         fetchHistory(w) \/ assertBoundaryLinksToTrustedChain(w)
  PROVE  Inv'
  <1>1. UNCHANGED <<data, admitted, ledger, incidents, verifier, admin, history>>
        /\ repairer[w].pc \in {"fetch", "boundary"}
    BY DEF fetchHistory, assertBoundaryLinksToTrustedChain
  <1>2. repairer[w].pc \in Underway /\ repairer[w].pc \in Checked /\ repairer[w].pc \notin Locked
    BY <1>1 DEF Underway, Checked, Locked
  <1>3. Incidents' = Incidents
    BY <1>1 DEF Incidents
  <1>4. CASE Throw(w)
    <2>1. JobsInv' /\ RepairersInv' /\ OthersStay(w) /\ repairer'[w].pc = "idle"
      BY <1>2, <1>3, <1>4, FailingLeaves
    <2>2. QED
      BY <1>1, <1>2, <2>1, QuietStepInv DEF Locked, Checked
  <1>5. ASSUME NEW pc \in {"boundary", "lock"},
               JobsInv', RepairersInv', OthersStay(w), repairer'[w].pc = pc,
               jobs'[repairer'[w].job].incident = IncidentOf(w)
        PROVE  Inv'
    <2>1. Undisturbed => Allowed(repairer[w].pc, ledger.status, incidents[IncidentOf(w)])
      BY <1>2, UndisturbedCredit
    <2>2. Undisturbed => Allowed(pc, ledger.status, incidents[IncidentOf(w)])
      BY <1>2, <2>1 DEF Allowed, Locked
    <2>3. QED
      BY <1>1, <1>2, <1>5, <2>2, QuietStepInv DEF Locked
  <1>6. CASE fetchHistory(w) /\ ~Throw(w)
    <2> DEFINE records == FromStart(Listed(backups), incidents[IncidentOf(w)].start)
    <2>1. /\ records # {}
          /\ repairer' = [repairer EXCEPT ![w].pc = "boundary", ![w].records = records]
          /\ UNCHANGED jobs
      BY <1>6 DEF fetchHistory
    <2>2. records \in SUBSET Rows /\ IsFiniteSet(records)
      <3>1. records \subseteq backups
        BY DEF FromStart, Listed
      <3>2. QED
        BY <3>1, FS_Subset DEF Inv, Shapes, DataInv
    <2> HIDE DEF records
    <2>3. repairer' = [repairer EXCEPT ![w] = [repairer[w] EXCEPT !.pc = "boundary", !.records = records]]
      BY <2>1, WorkerShape
    <2>4. "boundary" \in Underway
      BY DEF Underway
    <2>5. QED
      BY <1>2, <1>3, <1>5, <2>1, <2>2, <2>3, <2>4, GoesTo
  <1>7. CASE assertBoundaryLinksToTrustedChain(w) /\ ~Throw(w)
    <2>1. Goto(w, "lock") /\ repairer[w].pc = "boundary"
      BY <1>7 DEF assertBoundaryLinksToTrustedChain
    <2>2. "lock" \in Underway
      BY DEF Underway
    <2>3. QED
      BY <1>2, <1>3, <1>5, <2>1, <2>2, GotoGoes
  <1>8. QED
    BY <1>4, <1>6, <1>7

LEMMA TakeJobInv ==
  ASSUME Inv, NEW w \in RepairWorkers, NEW j \in DOMAIN jobs, takeJob(w, j) PROVE Inv'
  <1> DEFINE taken == [jobs[j] EXCEPT !.status = "active"]
             next == [IdleRepairer EXCEPT !.pc = "find", !.job = j]
  <1>1. /\ UNCHANGED <<data, admitted, ledger, incidents, verifier, admin, history>>
        /\ repairer[w].pc = "idle" /\ jobs[j].status = "waiting"
    BY DEF takeJob
  <1>2. Incidents' = Incidents
    BY <1>1 DEF Incidents
  <1>3. jobs \in Seq(JobShape) /\ Len(jobs) \in Nat /\ j \in 1 .. Len(jobs)
    BY Lengths DEF Inv, Shapes, JobsInv
  <1>4. /\ taken \in JobShape
        /\ taken.incident = jobs[j].incident
        /\ taken.attempts = jobs[j].attempts
        /\ taken.status = "active"
    <2>1. jobs[j] \in JobShape
      BY <1>3
    <2>2. QED
      BY <2>1 DEF JobShape
  <1>5. next \in RepairerShape /\ next.pc = "find" /\ next.job = j
    <2>1. IdleRepairer \in RepairerShape
      BY DEF IdleRepairer, RepairerShape
    <2>2. j \in Nat
      BY <1>3
    <2>3. QED
      BY <2>1, <2>2 DEF RepairerShape, Underway
  <1>6. jobs' = [jobs EXCEPT ![j] = taken] /\ repairer' = [repairer EXCEPT ![w] = next]
    BY DEF takeJob
  <1> HIDE DEF taken, next
  <1>7. /\ jobs' \in Seq(JobShape)
        /\ Len(jobs') = Len(jobs)
        /\ \A k \in 1 .. Len(jobs) : jobs'[k] = IF k = j THEN taken ELSE jobs[k]
    BY <1>3, <1>4, <1>6, ExceptSeq
  <1>8. JobsInv'
    <2>1. ASSUME NEW k \in 1 .. Len(jobs)
          PROVE  /\ jobs'[k].incident \in Incidents
                 /\ jobs'[k].status \in {"waiting", "active"} => jobs'[k].attempts < RepairAttempts
      <3>1. jobs[k].incident \in Incidents
            /\ (jobs[k].status \in {"waiting", "active"} => jobs[k].attempts < RepairAttempts)
        BY DEF Inv, Shapes, JobsInv
      <3>2. QED
        BY <1>1, <1>4, <1>7, <3>1
    <2>2. QED
      BY <1>2, <1>7, <2>1 DEF JobsInv
  <1>9. /\ repairer' \in [RepairWorkers -> RepairerShape]
        /\ \A u \in RepairWorkers : repairer'[u] = IF u = w THEN next ELSE repairer[u]
    BY <1>5, <1>6, WorkerShape
  <1>10. ASSUME NEW u \in RepairWorkers, u # w, repairer[u].pc \in Underway
         PROVE  /\ repairer[u].job \in 1 .. Len(jobs)
                /\ jobs[repairer[u].job].status = "active"
                /\ repairer[u].job # j
                /\ jobs'[repairer[u].job] = jobs[repairer[u].job]
    <2>1. repairer[u].job \in 1 .. Len(jobs) /\ jobs[repairer[u].job].status = "active"
      BY <1>10 DEF Inv, Shapes, RepairersInv
    <2>2. repairer[u].job # j
      BY <1>1, <2>1
    <2>3. QED
      BY <1>7, <2>1, <2>2
  <1>11. RepairersInv'
    <2>1. ASSUME NEW u \in RepairWorkers
          PROVE  /\ repairer'[u].pc = "idle" => repairer'[u].job = 0
                 /\ repairer'[u].pc \in Underway =>
                       /\ repairer'[u].job \in 1 .. Len(jobs)
                       /\ jobs'[repairer'[u].job].status = "active"
                 /\ repairer'[u].pc \in Underway \ {"find", "fetch"} =>
                       repairer'[u].records # {} /\ IsFiniteSet(repairer'[u].records)
      <3>1. CASE u = w
        BY <1>3, <1>4, <1>5, <1>7, <1>9, <3>1
      <3>2. CASE u # w
        BY <1>9, <1>10, <3>2 DEF Inv, Shapes, RepairersInv
      <3>3. QED
        BY <3>1, <3>2
    <2>2. ASSUME NEW u \in RepairWorkers, NEW x \in RepairWorkers,
                 repairer'[u].pc \in Underway, repairer'[x].pc \in Underway,
                 repairer'[u].job = repairer'[x].job
          PROVE  u = x
      <3>1. CASE u # w /\ x # w
        BY <1>9, <2>2, <3>1 DEF Inv, Shapes, RepairersInv
      <3>2. CASE u = w \/ x = w
        BY <1>5, <1>9, <1>10, <2>2, <3>2
      <3>3. QED
        BY <3>1, <3>2
    <2>3. QED
      BY <1>7, <1>9, <2>1, <2>2 DEF RepairersInv
  <1>12. OthersStay(w)
    BY <1>9, <1>10 DEF OthersStay, IncidentOf
  <1>13. /\ Incidents' = Incidents /\ Len(incidents') = Len(incidents)
         /\ IncidentsInv' /\ LedgerInv' /\ StaysOrTaken /\ OthersServed(w)
    <2>1. IncidentsInv' /\ Len(incidents') = Len(incidents)
      BY <1>1 DEF IncidentsInv, Inv, Shapes
    <2>2. LedgerInv' /\ StaysOrTaken
      BY <1>1, <1>2 DEF LedgerInv, StaysOrTaken, Inv, Shapes, UnlockInv
    <2>3. OthersServed(w)
      BY <1>1, UndisturbedCredit DEF OthersServed
    <2>4. QED
      BY <1>2, <2>1, <2>2, <2>3
  <1>14. repairer'[w].pc \notin Locked /\ repairer'[w].pc \notin Checked
    BY <1>5, <1>9 DEF Locked, Checked
  <1>15. DataInv' /\ HistoryInv' /\ history'.disturbed = history.disturbed
    BY <1>1, DataKept DEF Inv, Shapes, HistoryInv
  <1>16. QED
    BY <1>1, <1>8, <1>11, <1>12, <1>13, <1>14, <1>15, WorkerStepInv

\* The lock is taken from a ledger that was not UNDER_REPAIR: no other worker holds it, and
\* the approval that was there before is still there.
LEMMA LockForRepairInv ==
  ASSUME Inv, NEW w \in RepairWorkers, lockLedgerForRepair(w) PROVE Inv'
  <1>1. UNCHANGED <<data, admitted, incidents, verifier, admin, history>>
        /\ repairer[w].pc = "lock"
    BY DEF lockLedgerForRepair
  <1>2. repairer[w].pc \in Underway /\ repairer[w].pc \in Checked /\ "mark" \in Underway
    BY <1>1 DEF Underway, Checked
  <1>3. Incidents' = Incidents
    BY <1>1 DEF Incidents
  <1>4. CASE Throw(w) /\ UNCHANGED ledger
    <2>1. JobsInv' /\ RepairersInv' /\ OthersStay(w) /\ repairer'[w].pc = "idle"
      BY <1>2, <1>3, <1>4, FailingLeaves
    <2>2. QED
      BY <1>1, <1>2, <1>4, <2>1, QuietStepInv DEF Locked, Checked
  <1>5. CASE MayLock(ledger.status) /\ Goto(w, "mark") /\ WriteLock(w)
    <2>1. /\ JobsInv' /\ RepairersInv' /\ OthersStay(w)
          /\ repairer'[w].pc = "mark"
          /\ jobs'[repairer'[w].job].incident = IncidentOf(w)
      BY <1>1, <1>2, <1>3, <1>5, GotoGoes
    <2>2. Len(incidents') = Len(incidents)
          /\ IncidentsInv' /\ LedgerInv' /\ StaysOrTaken /\ OthersServed(w)
      BY <1>1, <1>2, <1>5, LockServes
    <2>3. ledger'.status = "UNDER_REPAIR" /\ ledger.status # "UNDER_REPAIR"
      BY <1>5 DEF WriteLock, MayLock
    <2>4. Undisturbed => Allowed("mark", ledger'.status, incidents'[IncidentOf(w)])
      <3>1. Undisturbed => Allowed("lock", ledger.status, incidents[IncidentOf(w)])
        BY <1>1, <1>2, UndisturbedCredit
      <3>2. QED
        BY <1>1, <2>3, <3>1 DEF Allowed
    <2>5. DataInv' /\ HistoryInv' /\ history'.disturbed = history.disturbed
      BY <1>1, DataKept DEF Inv, Shapes, HistoryInv
    <2>6. QED
      BY <1>1, <1>3, <2>1, <2>2, <2>3, <2>4, <2>5, WorkerStepInv
  <1>6. QED
    BY <1>4, <1>5 DEF lockLedgerForRepair

LEMMA MarkRepairingInv ==
  ASSUME Inv, NEW w \in RepairWorkers, markRepairing(w) PROVE Inv'
  <1>1. /\ UNCHANGED <<data, admitted, ledger, verifier, admin, history>>
        /\ repairer[w].pc = "mark" /\ WriteRepairing(w) /\ Goto(w, "restore")
    BY DEF markRepairing
  <1>2. /\ repairer[w].pc \in Underway /\ repairer[w].pc \in Checked /\ repairer[w].pc \in Locked
        /\ "restore" \in Underway
    BY <1>1 DEF Underway, Checked, Locked
  <1>3. /\ Incidents' = Incidents /\ Len(incidents') = Len(incidents)
        /\ IncidentsInv' /\ LedgerInv' /\ StaysOrTaken /\ OthersServed(w)
    BY <1>1, <1>2, RepairingServes
  <1>4. /\ JobsInv' /\ RepairersInv' /\ OthersStay(w)
        /\ repairer'[w].pc = "restore"
        /\ jobs'[repairer'[w].job].incident = IncidentOf(w)
    BY <1>1, <1>2, <1>3, GotoGoes
  <1>5. Undisturbed => Allowed("restore", ledger'.status, incidents'[IncidentOf(w)])
    <2> SUFFICES ASSUME Undisturbed PROVE Allowed("restore", ledger'.status, incidents'[IncidentOf(w)])
      OBVIOUS
    <2>1. /\ IncidentOf(w) \in Incidents
          /\ Allowed("mark", ledger.status, incidents[IncidentOf(w)])
      BY <1>1, <1>2, UndisturbedCredit
    <2>2. "REPAIRING" \in IncidentStatus
      BY DEF IncidentStatus
    <2>3. /\ incidents'[IncidentOf(w)] = WithStatus(incidents[IncidentOf(w)], "REPAIRING")
          /\ Allowed("mark", ledger.status, incidents'[IncidentOf(w)])
      <3>1. incidents' = [incidents EXCEPT ![IncidentOf(w)] = WithStatus(@, "REPAIRING")]
        BY <1>1 DEF WriteRepairing
      <3> DEFINE i == IncidentOf(w)
      <3>2. i \in Incidents /\ Allowed("mark", ledger.status, incidents[i])
        BY <2>1
      <3> HIDE DEF i
      <3>3. /\ incidents'[i] = WithStatus(incidents[i], "REPAIRING")
            /\ \A pc, held : Allowed(pc, held, incidents[i]) => Allowed(pc, held, incidents'[i])
        BY <2>2, <3>1, <3>2, Restated DEF i
      <3>4. QED
        BY <3>2, <3>3 DEF i
    <2>4. incidents[IncidentOf(w)] \in IncidentShape
      BY <2>1 DEF Inv, Shapes, IncidentsInv, Incidents
    <2>5. incidents'[IncidentOf(w)].status = "REPAIRING"
      BY <2>2, <2>3, <2>4, WithStatusKeeps
    <2>6. QED
      BY <2>3, <2>5 DEF Allowed, Locked
  <1>6. DataInv' /\ HistoryInv' /\ history'.disturbed = history.disturbed
    BY <1>1, DataKept DEF Inv, Shapes, HistoryInv
  <1>7. QED
    BY <1>1, <1>2, <1>3, <1>4, <1>5, <1>6, WorkerStepInv

\* What the restoring transaction writes has the types of the rows it replaces.
LEMMA RestoredDataInv ==
  ASSUME Inv, NEW w \in RepairWorkers, repairer[w].pc = "restore", WriteRestored(w),
         UNCHANGED <<backups, admitted, auditor>>
  PROVE  DataInv'
  <1> DEFINE records == repairer[w].records
  <1>1. records \in SUBSET Rows
    BY WorkerShape DEF RepairerShape
  <1>2. records # {} /\ IsFiniteSet(records)
    BY DEF Inv, Shapes, RepairersInv, Underway
  <1>3. log \in SUBSET Rows /\ live \in Seq(Nat)
    BY DEF Inv, Shapes, DataInv
  <1>4. /\ log' = RestoredLog(log, records) /\ head' = RestoredHead(log, records)
        /\ live' = RestoredLive(live, records)
    BY DEF WriteRestored
  <1> HIDE DEF records
  <1>5. log' \in SUBSET Rows /\ head' \in [seq : Nat, hash : Hashes] /\ live' \in Seq(Nat)
    BY <1>1, <1>2, <1>3, <1>4, RestoredType
  <1>6. QED
    BY <1>5 DEF Inv, Shapes, DataInv

LEMMA RestoreInv ==
  ASSUME Inv, NEW w \in RepairWorkers, restore(w) PROVE Inv'
  <1>1. /\ UNCHANGED <<backups, admitted, auditor, ledger, verifier, admin, history>>
        /\ repairer[w].pc = "restore" /\ WriteRestored(w)
        /\ repairer' = [repairer EXCEPT ![w] = IdleRepairer]
    BY DEF restore
  <1>2. repairer[w].pc \in Underway
    BY <1>1 DEF Underway
  <1>3. /\ Incidents' = Incidents /\ Len(incidents') = Len(incidents)
        /\ IncidentsInv' /\ LedgerInv' /\ StaysOrTaken /\ OthersServed(w)
    BY <1>1, RestoringServes
  <1>4. JobsInv' /\ RepairersInv' /\ OthersStay(w) /\ repairer'[w].pc = "idle"
    <2> DEFINE j == repairer[w].job
               job == [jobs[j] EXCEPT !.status = "completed"]
    <2>1. j \in 1 .. Len(jobs) /\ jobs[j] \in JobShape
      BY <1>2 DEF Inv, Shapes, JobsInv, RepairersInv
    <2>2. job \in JobShape /\ job.incident = jobs[j].incident /\ job.status = "completed"
      BY <2>1 DEF JobShape
    <2>3. jobs' = [jobs EXCEPT ![j] = job]
      BY DEF restore
    <2> HIDE DEF job
    <2>4. job.incident = IncidentOf(w)
      BY <2>2 DEF IncidentOf
    <2>5. QED
      BY <1>1, <1>2, <1>3, <2>2, <2>3, <2>4, WorkerLeaves
  <1>5. DataInv'
    BY <1>1, RestoredDataInv
  <1>6. HistoryInv' /\ history'.disturbed = history.disturbed
    BY <1>1 DEF Inv, Shapes, HistoryInv
  <1>7. QED
    BY <1>1, <1>3, <1>4, <1>5, <1>6, WorkerStepInv DEF Locked, Checked

\* A failing step may have written what it was to write.
LEMMA RepairFailsInv ==
  ASSUME Inv, NEW w \in RepairWorkers, repairFails(w) PROVE Inv'
  <1>1. /\ UNCHANGED <<backups, admitted, auditor, verifier, admin>>
        /\ Throw(w) \/ Stall(w)
        /\ repairer[w].pc # "idle"
    BY DEF repairFails
  <1>2. repairer[w].pc \in Underway
    BY <1>1, WorkerShape DEF RepairerShape
  <1>3. HistoryInv' /\ history'.disturbed = history.disturbed
    BY DEF repairFails, Fault, Inv, Shapes, HistoryInv
  <1>4. /\ DataInv'
        /\ Incidents' = Incidents /\ Len(incidents') = Len(incidents)
        /\ IncidentsInv' /\ LedgerInv' /\ StaysOrTaken /\ OthersServed(w)
    <2>1. CASE UNCHANGED <<live, log, head, ledger, incidents>>
      BY <1>1, <1>2, <2>1, LockServes, DataKept DEF data
    <2>2. CASE WriteLock(w) /\ UNCHANGED <<live, log, head, incidents>>
      BY <1>1, <1>2, <2>2, LockServes, DataKept DEF data
    <2>3. CASE WriteRepairing(w) /\ UNCHANGED <<live, log, head, ledger>>
      BY <1>1, <1>2, <2>3, RepairingServes, DataKept DEF data
    <2>4. CASE repairer[w].pc = "restore" /\ WriteRestored(w) /\ UNCHANGED ledger
      BY <1>1, <2>4, RestoringServes, RestoredDataInv
    <2>5. QED
      BY <2>1, <2>2, <2>3, <2>4 DEF repairFails, MayBeWritten
  <1>5. JobsInv' /\ RepairersInv' /\ OthersStay(w) /\ repairer'[w].pc = "idle"
    BY <1>1, <1>2, <1>4, FailingLeaves
  <1>6. QED
    BY <1>1, <1>3, <1>4, <1>5, WorkerStepInv DEF Locked, Checked

LEMMA RepairStepInv ==
  ASSUME Inv, NEW w \in RepairWorkers, RepairStep(w) PROVE Inv'
  BY TakeJobInv, FindIncidentInv, CheckingInv, LockForRepairInv, MarkRepairingInv, RestoreInv,
     RepairFailsInv DEF RepairStep

-----------------------------------------------------------------------------
(* The theorems                                                            *)

LEMMA StutterInv == ASSUME Inv, UNCHANGED vars PROVE Inv'
  <1>1. UNCHANGED <<data, admitted, ledger, incidents, verifier, jobs, repairer, admin, history>>
    BY DEF vars, data
  <1>2. VerifyInv' /\ UnlockInv' /\ HistoryInv'
    BY <1>1 DEF Inv, Shapes, VerifyInv, UnlockInv, LedgerInv, AdminInv, HistoryInv, Incidents
  <1>3. QED
    BY <1>1, <1>2, DataKept, ControlKept DEF control

LEMMA NextInv == Inv /\ [Next]_vars => Inv'
  BY AuditInv, VerifyStepInv, ManagerStepInv, RepairStepInv, UnlockStepInv, StutterInv DEF Next

LEMMA InvImpliesTypeOK == Inv => TypeOK
  <1> SUFFICES ASSUME Inv PROVE TypeOK
    OBVIOUS
  <1>1. live \in Seq(Nat) /\ log \subseteq Rows /\ head \in [seq : Nat, hash : Hashes]
    BY DEF Inv, Shapes, DataInv
  <1>2. backups \subseteq Rows /\ auditor \in [pc : {"idle", "commit", "backup"}, row : Rows, next : Nat]
    BY DEF Inv, Shapes, DataInv
  <1>3. admitted \in BOOLEAN
    BY DEF Inv, Shapes, DataInv
  <1>4. Len(incidents) \in Nat /\ Len(jobs) \in Nat /\ Incidents = 1 .. Len(incidents)
    BY Lengths
  <1>5. ledger \in [status : LedgerStatus, incident : Nat]
    BY <1>4 DEF Inv, Shapes, UnlockInv, LedgerInv
  <1>6. incidents \in Seq([start : Nat, reason : Reasons, status : IncidentStatus, credit : Int])
    BY DEF Inv, Shapes, IncidentsInv, IncidentShape
  <1>7. \A v \in Verifiers :
          /\ verifier[v].pc \in {"idle", "anchor", "open", "lock"}
          /\ verifier[v].rows \subseteq Rows
          /\ verifier[v].pc \in {"open", "lock"} => verifier[v].todo # {}
    BY DEF Inv, Shapes, VerifyInv, VerifierShape
  <1>8. jobs \in Seq([incident : Incidents, keyed : BOOLEAN, attempts : 0 .. RepairAttempts,
                      status : {"waiting", "active", "completed", "failed"}])
    <2> DEFINE Shape == [incident : Incidents, keyed : BOOLEAN, attempts : 0 .. RepairAttempts,
                         status : {"waiting", "active", "completed", "failed"}]
    <2>1. jobs \in Seq(JobShape)
      BY DEF Inv, Shapes, JobsInv
    <2>2. ASSUME NEW j \in 1 .. Len(jobs) PROVE jobs[j] \in Shape
      <3>1. jobs[j] \in JobShape /\ jobs[j].incident \in Incidents
        BY <2>1 DEF Inv, Shapes, JobsInv
      <3>2. QED
        BY <3>1 DEF JobShape
    <2> HIDE DEF Shape
    <2>3. jobs \in [1 .. Len(jobs) -> Shape]
      BY <2>1, <2>2
    <2>4. jobs \in Seq(Shape)
      BY <1>4, <2>3, SeqDef
    <2>5. QED
      BY <2>4 DEF Shape
  <1>9. repairer \in [RepairWorkers -> [pc : {"idle", "find", "fetch", "boundary", "lock", "mark", "restore"},
                                        job : 0 .. Len(jobs), records : SUBSET Rows]]
    <2>1. ASSUME NEW w \in RepairWorkers
          PROVE  repairer[w] \in [pc : {"idle", "find", "fetch", "boundary", "lock", "mark", "restore"},
                                  job : 0 .. Len(jobs), records : SUBSET Rows]
      <3>1. repairer[w] \in RepairerShape
        BY WorkerShape
      <3>2. repairer[w].job \in 0 .. Len(jobs)
        BY <1>4, <3>1 DEF Inv, Shapes, RepairersInv, RepairerShape
      <3>3. QED
        BY <3>1, <3>2 DEF RepairerShape, Underway
    <2>2. repairer \in [RepairWorkers -> RepairerShape]
      BY DEF Inv, Shapes, RepairersInv
    <2>3. QED
      BY <2>1, <2>2
  <1>10. admin \in [Admins -> [pc : {"idle", "activate", "check", "resolve"}, incident : 0 .. Len(incidents)]]
    BY <1>4 DEF Inv, Shapes, UnlockInv, AdminInv
  <1>11. QED
    BY <1>1, <1>2, <1>3, <1>5, <1>6, <1>7, <1>8, <1>9, <1>10 DEF TypeOK

\* The invariant holds in every reachable state.
LEMMA Invariance == Spec => []Inv
  <1>1. QED
    BY InitInv, NextInv, PTL DEF Spec

\* The stores and the actors of a ledger keep their types.
THEOREM LedgerTypesHold == Spec => []TypeOK
  <1>1. QED
    BY Invariance, InvImpliesTypeOK, PTL

LEMMA InvImpliesOneRepair == Inv => OneRepairUndisturbed
  <1> SUFFICES ASSUME Inv, history.disturbed \cap Locked = {} PROVE OneRepairPerUser
    BY DEF OneRepairUndisturbed
  <1> DEFINE holders == {w \in RepairWorkers : repairer[w].pc \in Locked}
  <1>1. \A u, w \in holders : u = w
    BY DEF Inv, LockInv
  <1>2. CASE holders = {}
    BY <1>2, FS_EmptySet DEF OneRepairPerUser
  <1>3. CASE holders # {}
    <2>1. PICK w : w \in holders
      BY <1>3
    <2>2. holders = {w}
      BY <1>1, <2>1
    <2>3. Cardinality(holders) = 1
      <3> HIDE DEF holders
      <3>1. QED
        BY <2>2, FS_Singleton
    <2>4. QED
      BY <2>3 DEF OneRepairPerUser
  <1>4. QED
    BY <1>2, <1>3

\* As long as no verification and no unlock request writes over the lock of a running
\* repair, at most one repair of a user is past lockLedgerForRepair, for any number of
\* workers, jobs, failures and stalls.
THEOREM RepairsExcluded == Spec => []OneRepairUndisturbed
  <1>1. QED
    BY Invariance, InvImpliesOneRepair, PTL

LEMMA InvImpliesApproval == Inv => OneRepairPerApproval
  BY DEF Inv, CreditInv, Covered, OneRepairPerApproval

\* And each repair of an incident has used up a manager's approval of it.
THEOREM ApprovalsSpentOnce == Spec => []OneRepairPerApproval
  <1>1. QED
    BY Invariance, InvImpliesApproval, PTL

-----------------------------------------------------------------------------
(* The ledger's status follows LedgerLifecycle                             *)

LEMMA InitFollows == Init => Lifecycle!Init
  BY DEF Init, Lifecycle!Init, IdleAdmin

\* A step that leaves the status and the unlock requests alone.
LEMMA StutterFollows ==
  ASSUME UNCHANGED <<ledger, admin>> PROVE UNCHANGED Lifecycle!vars
  BY DEF Lifecycle!vars

LEMMA VerifyFollows ==
  ASSUME Inv, NEW v \in Verifiers, VerifyStep(v) PROVE [Lifecycle!Next]_(Lifecycle!vars)
  <1>1. CASE lockLedger(v)
    <2>1. ledger'.status = "LOCKED" /\ UNCHANGED admin
      BY <1>1 DEF lockLedger
    <2>2. Lifecycle!Lock
      BY <2>1 DEF Lifecycle!Lock
    <2>3. QED
      BY <2>2 DEF Lifecycle!Next
  <1>2. CASE UNCHANGED <<ledger, admin>>
    BY <1>2, StutterFollows
  <1>3. QED
    BY <1>1, <1>2 DEF VerifyStep, readLogs, readLatestBackup, createIncident, verificationFails

LEMMA RepairFollows ==
  ASSUME Inv, NEW w \in RepairWorkers, RepairStep(w) PROVE [Lifecycle!Next]_(Lifecycle!vars)
  <1>1. CASE MayLock(ledger.status) /\ WriteLock(w) /\ UNCHANGED admin
    <2>1. ledger.status # "UNDER_REPAIR" /\ ledger'.status = "UNDER_REPAIR" /\ UNCHANGED admin
      BY <1>1 DEF MayLock, WriteLock
    <2>2. Lifecycle!TakeForRepair
      BY <2>1 DEF Lifecycle!TakeForRepair
    <2>3. QED
      BY <2>2 DEF Lifecycle!Next
  <1>2. CASE UNCHANGED <<ledger, admin>>
    BY <1>2, StutterFollows
  <1>3. QED
    BY <1>1, <1>2
       DEF RepairStep, takeJob, findIncident, fetchHistory, assertBoundaryLinksToTrustedChain,
           lockLedgerForRepair, markRepairing, restore, repairFails, MayBeWritten

LEMMA UnlockFollows ==
  ASSUME Inv, NEW a \in Admins, UnlockStep(a) PROVE [Lifecycle!Next]_(Lifecycle!vars)
  <1>1. admin \in [Admins -> [pc : {"idle", "activate", "check", "resolve"},
                              incident : {0} \cup Incidents]]
    BY DEF Inv, Shapes, UnlockInv, AdminInv
  <1>2. CASE readLedger(a)
    <2>1. ledger.status = "UNDER_REPAIR" /\ UNCHANGED ledger
      BY <1>2 DEF readLedger, MayUnlock
    <2>2. {b \in Admins : admin'[b].pc = "activate"} = {b \in Admins : admin[b].pc = "activate"} \cup {a}
      BY <1>1, <1>2 DEF readLedger
    <2>3. Lifecycle!Grant(a)
      BY <2>1, <2>2 DEF Lifecycle!Grant
    <2>4. QED
      BY <2>3 DEF Lifecycle!Next
  <1>3. CASE activateLedger(a)
    <2>1. ledger'.status = "ACTIVE" /\ admin[a].pc = "activate"
      BY <1>3 DEF activateLedger
    <2>2. {b \in Admins : admin'[b].pc = "activate"} = {b \in Admins : admin[b].pc = "activate"} \ {a}
      BY <1>1, <1>3 DEF activateLedger
    <2>3. Lifecycle!Activate(a)
      BY <2>1, <2>2 DEF Lifecycle!Activate
    <2>4. QED
      BY <2>3 DEF Lifecycle!Next
  <1>4. CASE UNCHANGED ledger /\ admin' = [admin EXCEPT ![a] = IdleAdmin]
    <2>1. {b \in Admins : admin'[b].pc = "activate"} = {b \in Admins : admin[b].pc = "activate"} \ {a}
      BY <1>1, <1>4 DEF IdleAdmin
    <2>2. Lifecycle!Withdraw(a)
      BY <1>4, <2>1 DEF Lifecycle!Withdraw
    <2>3. QED
      BY <2>2 DEF Lifecycle!Next
  <1>5. CASE UNCHANGED ledger /\ admin[a].pc = "check" /\ admin' = [admin EXCEPT ![a].pc = "resolve"]
    <2>1. {b \in Admins : admin'[b].pc = "activate"} = {b \in Admins : admin[b].pc = "activate"}
      BY <1>1, <1>5
    <2>2. QED
      BY <1>5, <2>1 DEF Lifecycle!vars
  <1>6. QED
    BY <1>2, <1>3, <1>4, <1>5 DEF UnlockStep, checkRepairing, resolveIncident, unlockFails

LEMMA StepFollows == Inv /\ [Next]_vars => [Lifecycle!Next]_(Lifecycle!vars)
  <1> SUFFICES ASSUME Inv, [Next]_vars PROVE [Lifecycle!Next]_(Lifecycle!vars)
    OBVIOUS
  <1>1. CASE AuditStep
    <2>1. UNCHANGED <<ledger, admin>>
      BY <1>1 DEF AuditStep, ledgerMiddleware, createTransaction, readChainState, commitRow,
             commitConflicts, writeTransactionBackup, backupGivenUp, Corrupt, procs
    <2>2. QED
      BY <2>1, StutterFollows
  <1>2. ASSUME NEW i \in Incidents, ManagerStep(i) PROVE [Lifecycle!Next]_(Lifecycle!vars)
    <2>1. UNCHANGED <<ledger, admin>>
      BY <1>2 DEF ManagerStep, updateIncidentStatus, triggerRepair, repairUserChain, AddJob, procs
    <2>2. QED
      BY <2>1, StutterFollows
  <1>3. CASE UNCHANGED vars
    BY <1>3, StutterFollows DEF vars
  <1>4. QED
    BY <1>1, <1>2, <1>3, VerifyFollows, RepairFollows, UnlockFollows DEF Next

\* Verification, managers, repair jobs with their retries and stalls, and unlock requests
\* move the status of a ledger only as LedgerLifecycle says.
THEOREM LifecycleFollowed == Spec => FollowsLifecycle
  <1>1. QED
    BY InitFollows, StepFollows, Invariance, PTL DEF Spec, FollowsLifecycle, Lifecycle!Spec
=============================================================================
