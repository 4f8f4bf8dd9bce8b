------------------------- MODULE LedgerHealthProofs -------------------------
(***************************************************************************)
(* A ledger that nobody has tampered with, for any number of transactions, *)
(* verifications, repairs and failing calls: its rows stay one linked      *)
(* chain, a repair writes what is there already, and a verification has    *)
(* nothing to report but a backup that is not there.                       *)
(***************************************************************************)
EXTENDS LedgerControlProofs

-----------------------------------------------------------------------------
(* Healthy rows                                                            *)

\* A row as the audit worker writes it, for one of n transactions.
Genuine(r, n) ==
    /\ r.seq >= 1
    /\ r.txn \in 1 .. n
    /\ r.data = r.txn
    /\ r.hash = generateHash(r.data, r.prev, r.at)

\* It continues the chain of these rows.
Continues(rows, r) ==
    \/ r.seq = 1 /\ r.prev = Genesis
    \/ \E q \in rows : q.seq = r.seq - 1 /\ q.hash = r.prev

Healthy(rows, n) ==
    /\ \A q, r \in rows : q.seq = r.seq => q = r
    /\ \A r \in rows : Genuine(r, n) /\ Continues(rows, r)

AsCreated(contents) == \A t \in 1 .. Len(contents) : contents[t] = t

\* In a healthy chain the row that verification finds before another one is the one it
\* continues, and its hash can be computed again.
LEMMA HealthyHash ==
  ASSUME NEW rows \in SUBSET Rows, NEW n, Healthy(rows, n), NEW r \in rows
  PROVE  HashMatches(rows, r)
  <1> DEFINE below == {q \in rows : q.seq < r.seq}
  <1>1. \A q \in rows : q.seq \in Nat /\ q.seq >= 1
    BY DEF Healthy, Genuine, Rows
  <1>2. PrecedingHash(rows, r) = r.prev
    <2>1. CASE r.seq = 1 /\ r.prev = Genesis
      <3>1. below = {}
        BY <1>1, <2>1
      <3>2. QED
        BY <2>1, <3>1 DEF PrecedingHash
    <2>2. CASE \E q \in rows : q.seq = r.seq - 1 /\ q.hash = r.prev
      <3>1. PICK q \in rows : q.seq = r.seq - 1 /\ q.hash = r.prev
        BY <2>2
      <3>2. q \in below /\ \A p \in below : p.seq <= q.seq
        BY <1>1, <3>1
      <3>3. \A x \in below : (\A p \in below : p.seq <= x.seq) => x = q
        <4>1. TAKE x \in below
        <4>2. HAVE \A p \in below : p.seq <= x.seq
        <4>3. q.seq <= x.seq /\ x.seq <= q.seq
          BY <3>2, <4>2
        <4>4. x.seq = q.seq
          BY <1>1, <4>3
        <4>5. QED
          BY <4>4 DEF Healthy
      <3>4. (CHOOSE x \in below : \A p \in below : p.seq <= x.seq) = q
        BY <3>2, <3>3
      <3>5. QED
        BY <3>1, <3>2, <3>4 DEF PrecedingHash
    <2>3. QED
      BY <2>1, <2>2 DEF Healthy, Continues
  <1>3. QED
    BY <1>2 DEF HashMatches, Healthy, Genuine

\* So that all a verification can report of it is the missing backup.
LEMMA HealthyReport ==
  ASSUME NEW rows \in SUBSET Rows, NEW contents, Healthy(rows, Len(contents)),
         AsCreated(contents), NEW latest,
         \A b \in latest : \A r \in rows : b.seq = r.seq => b = r,
         NEW c \in Compromised(rows, latest, contents)
  PROVE  c.reason = "missing_s3_backup"
  <1>1. PICK r \in rows : c = [seq |-> r.seq, reason |-> Reason(rows, r, latest, contents)]
                          /\ Reason(rows, r, latest, contents) # "none"
    BY DEF Compromised
  <1>2. HashMatches(rows, r)
    BY HealthyHash
  <1>3. \A b \in AnchorOf(latest, r) : ~Contradicts(b, r)
    BY DEF AnchorOf, Contradicts
  <1>4. snapshotsMatch(r, contents)
    BY DEF Healthy, Genuine, AsCreated, snapshotsMatch
  <1>5. Reason(rows, r, latest, contents) \in {"missing_s3_backup", "none"}
    BY <1>2, <1>3, <1>4 DEF Reason
  <1>6. QED
    BY <1>1, <1>5

\* The row of a record that is in the log is restored as it is.
LEMMA RestoredSame ==
  ASSUME NEW rows \in SUBSET Rows, NEW n, Healthy(rows, n), NEW b \in rows
  PROVE  RestoredRow(rows, b) = b
  <1>1. RowsAt(rows, b.seq) = {b}
    BY DEF RowsAt, Healthy
  <1>2. HashTime(rows, b) = b.at /\ RestoredTxn(rows, b) = b.txn
    BY <1>1 DEF HashTime, RestoredTxn
  <1>3. b.hash = generateHash(b.data, b.prev, b.at)
    BY DEF Healthy, Genuine
  <1>4. b = [seq |-> b.seq, txn |-> b.txn, data |-> b.data, prev |-> b.prev,
             hash |-> b.hash, at |-> b.at]
    BY DEF Rows
  <1>5. QED
    BY <1>2, <1>3, <1>4 DEF RestoredRow

LEMMA RestoredHealthy ==
  ASSUME NEW rows \in SUBSET Rows, NEW contents \in Seq(Nat), Healthy(rows, Len(contents)),
         AsCreated(contents), NEW records \in SUBSET rows, records # {}, IsFiniteSet(records)
  PROVE  /\ RestoredLog(rows, records) = rows
         /\ \E r \in rows : /\ RestoredHead(rows, records).seq = r.seq
                            /\ RestoredHead(rows, records).hash = r.hash
         /\ Len(RestoredLive(contents, records)) = Len(contents)
         /\ AsCreated(RestoredLive(contents, records))
  <1>1. RestoredLog(rows, records) = rows
    <2>1. {RestoredRow(rows, b) : b \in records} = records
      BY RestoredSame
    <2>2. \A r \in rows : (\A b \in records : b.seq # r.seq) \/ r \in records
      BY DEF Healthy
    <2>3. QED
      BY <2>1, <2>2 DEF RestoredLog
  <1>2. LastRecord(records) \in rows
    <2>1. \E b \in records : \A o \in records : o.seq <= b.seq
      <3>1. \A b \in records : b.seq \in Nat
        BY DEF Rows
      <3>2. QED
        BY <3>1, GreatestSeq
    <2>2. QED
      BY <2>1 DEF LastRecord
  <1>3. /\ RestoredHead(rows, records).seq = LastRecord(records).seq
        /\ RestoredHead(rows, records).hash = LastRecord(records).hash
    BY <1>2, RestoredSame DEF RestoredHead
  <1>4. Len(contents) \in Nat /\ DOMAIN contents = 1 .. Len(contents)
    OBVIOUS
  <1>5. \A t \in 1 .. Len(contents) : RestoredLive(contents, records)[t] = t
    <2>1. TAKE t \in 1 .. Len(contents)
    <2>2. CASE \E b \in records : b.txn = t
      <3>1. (CHOOSE b \in records : b.txn = t) \in rows /\ (CHOOSE b \in records : b.txn = t).txn = t
        BY <2>2
      <3>2. QED
        BY <1>4, <2>2, <3>1 DEF RestoredLive, Healthy, Genuine
    <2>3. CASE ~\E b \in records : b.txn = t
      BY <1>4, <2>3 DEF RestoredLive, AsCreated
    <2>4. QED
      BY <2>2, <2>3
  <1>6. RestoredLive(contents, records) \in Seq(Nat)
    BY RestoredType
  <1>7. Len(RestoredLive(contents, records)) = Len(contents)
    BY <1>4, <1>6 DEF RestoredLive
  <1>8. QED
    BY <1>1, <1>2, <1>3, <1>5, <1>7 DEF AsCreated

-----------------------------------------------------------------------------
(* The inductive invariant                                                 *)

StoresHealthy ==
    /\ AsCreated(live)
    /\ Healthy(log, Len(live))
    /\ head.seq = 0 \/ \E r \in log : head.seq = r.seq /\ head.hash = r.hash
    /\ backups \subseteq log

\* The row on its way to the log continues it, wherever the head is by now.
AuditorHealthy ==
    /\ auditor.next >= 1
    /\ auditor.pc = "commit" => Genuine(auditor.row, Len(live)) /\ Continues(log, auditor.row)
    /\ auditor.pc = "backup" => auditor.row \in log

\* What verifications and repairs have read is part of the log, and what is reported a
\* missing backup.
VerifiersHealthy ==
    \A v \in Verifiers :
       /\ verifier[v].pc = "anchor" =>
             /\ Healthy(verifier[v].rows, Len(verifier[v].live))
             /\ AsCreated(verifier[v].live)
             /\ verifier[v].rows \subseteq log
       /\ \A c \in verifier[v].todo : c.reason = "missing_s3_backup"

RepairersHealthy == \A w \in RepairWorkers : repairer[w].records \subseteq log

IncidentsHealthy == \A i \in Incidents : incidents[i].reason = "missing_s3_backup"

Health ==
    StoresHealthy /\ AuditorHealthy /\ VerifiersHealthy /\ RepairersHealthy /\ IncidentsHealthy

CountInv == {"corruptions", "disturbed"} \subseteq DOMAIN history /\ history.corruptions \in Nat

HealthInv == CountInv /\ (history.corruptions = 0 => Health)

LEMMA InitHealth == Init => HealthInv
  BY DEF Init, HealthInv, CountInv, Health, StoresHealthy, AuditorHealthy, VerifiersHealthy,
         RepairersHealthy, IncidentsHealthy, AsCreated, Healthy, IdleVerifier, IdleRepairer,
         Incidents

\* A step that corrupts nothing leaves the count of corruptions alone.
LEMMA CountKept ==
  ASSUME CountInv, Next
  PROVE  /\ CountInv'
         /\ \/ history'.corruptions = history.corruptions
            \/ \E kind \in CorruptionKinds : Corrupt(kind) /\ history'.corruptions # 0
  <1>1. CASE UNCHANGED history \/ Fault \/ Disturb
    BY <1>1 DEF CountInv, Fault, Disturb
  <1>2. CASE commitRow \/ backupGivenUp
    BY <1>2 DEF CountInv, commitRow, backupGivenUp
  <1>3. ASSUME NEW kind \in CorruptionKinds, Corrupt(kind)
        PROVE  CountInv' /\ history'.corruptions # 0
    BY <1>3 DEF CountInv, Corrupt
  <1>4. ASSUME NEW v \in Verifiers, VerifyStep(v) PROVE UNCHANGED history \/ Fault \/ Disturb
    BY <1>4 DEF VerifyStep, readLogs, readLatestBackup, createIncident, lockLedger, verificationFails
  <1>5. ASSUME NEW i \in Incidents, ManagerStep(i) PROVE UNCHANGED history
    BY <1>5 DEF ManagerStep, updateIncidentStatus, triggerRepair, repairUserChain, AddJob
  <1>6. ASSUME NEW w \in RepairWorkers, RepairStep(w) PROVE UNCHANGED history \/ Fault
    BY <1>6 DEF RepairStep, takeJob, findIncident, fetchHistory, assertBoundaryLinksToTrustedChain,
           lockLedgerForRepair, markRepairing, restore, repairFails
  <1>7. ASSUME NEW a \in Admins, UnlockStep(a) PROVE UNCHANGED history \/ Fault \/ Disturb
    BY <1>7 DEF UnlockStep, readLedger, activateLedger, checkRepairing, resolveIncident, unlockFails
  <1>8. QED
    BY <1>1, <1>2, <1>3, <1>4, <1>5, <1>6, <1>7
       DEF Next, AuditStep, ledgerMiddleware, createTransaction, readChainState, commitConflicts,
           writeTransactionBackup

\* From facts about the next values to the invariants of the next state.
LEMMA StoresNext ==
  ASSUME AsCreated(live'), Healthy(log', Len(live')), backups' \subseteq log',
         head'.seq = 0 \/ \E r \in log' : head'.seq = r.seq /\ head'.hash = r.hash
  PROVE  StoresHealthy'
  BY DEF StoresHealthy, AsCreated, Healthy, Genuine, Continues

LEMMA AuditorNext ==
  ASSUME auditor'.next >= 1,
         auditor'.pc = "commit" => Genuine(auditor'.row, Len(live')) /\ Continues(log', auditor'.row),
         auditor'.pc = "backup" => auditor'.row \in log'
  PROVE  AuditorHealthy'
  BY DEF AuditorHealthy, Genuine, Continues

LEMMA HealthyGrows ==
  ASSUME NEW rows, NEW n \in Nat, NEW m \in Nat, n <= m
  PROVE  /\ Healthy(rows, n) => Healthy(rows, m)
         /\ \A r : Genuine(r, n) => Genuine(r, m)
  BY DEF Healthy, Genuine

LEMMA HealthyAppend ==
  ASSUME NEW rows, NEW n, NEW row, Healthy(rows, n), Genuine(row, n), Continues(rows, row),
         RowsAt(rows, row.seq) = {}
  PROVE  Healthy(rows \cup {row}, n)
  <1>1. \A r : Continues(rows, r) => Continues(rows \cup {row}, r)
    BY DEF Continues
  <1>2. \A r \in rows : r.seq # row.seq
    BY DEF RowsAt
  <1>3. QED
    BY <1>1, <1>2 DEF Healthy

\* The steps that leave what the actors have read alone.
LEMMA ReadersKept ==
  ASSUME Health, log \subseteq log', UNCHANGED <<verifier, repairer, incidents>>
  PROVE  VerifiersHealthy' /\ RepairersHealthy' /\ IncidentsHealthy'
  <1>1. VerifiersHealthy'
    BY DEF Health, VerifiersHealthy, Healthy, Genuine, Continues, AsCreated
  <1>2. RepairersHealthy' /\ IncidentsHealthy'
    BY DEF Health, RepairersHealthy, IncidentsHealthy, Incidents
  <1>3. QED
    BY <1>1, <1>2

\* The steps that leave the stores alone.
LEMMA StoresKept ==
  ASSUME Health, UNCHANGED data
  PROVE  StoresHealthy' /\ AuditorHealthy'
  <1>1. UNCHANGED <<live, log, head, backups, auditor>>
    BY DEF data
  <1>2. StoresHealthy'
    BY <1>1 DEF Health, StoresHealthy, AsCreated, Healthy, Genuine, Continues
  <1>3. AuditorHealthy'
    BY <1>1 DEF Health, AuditorHealthy, Genuine, Continues
  <1>4. QED
    BY <1>2, <1>3

-----------------------------------------------------------------------------
(* Transactions and their audit                                            *)

LEMMA CreateHealth == ASSUME Inv, Health, createTransaction PROVE Health'
  <1>1. /\ live' = Append(live, Len(live) + 1)
        /\ UNCHANGED <<log, head, backups, auditor, verifier, repairer, incidents>>
    BY DEF createTransaction, procs
  <1>2. live \in Seq(Nat) /\ Len(live) \in Nat
    BY DEF Inv, Shapes, DataInv
  <1>3. /\ Len(live') = Len(live) + 1
        /\ \A t \in 1 .. Len(live) : live'[t] = live[t]
        /\ live'[Len(live) + 1] = Len(live) + 1
    BY <1>1, <1>2, AppendProperties
  <1>4. AsCreated(live')
    BY <1>2, <1>3 DEF AsCreated, Health, StoresHealthy
  <1>5. /\ Healthy(log, Len(live'))
        /\ \A r : Genuine(r, Len(live)) => Genuine(r, Len(live'))
    BY <1>2, <1>3, HealthyGrows DEF Health, StoresHealthy
  <1>6. StoresHealthy'
    <2>1. Healthy(log', Len(live')) /\ backups' \subseteq log'
          /\ (head'.seq = 0 \/ \E r \in log' : head'.seq = r.seq /\ head'.hash = r.hash)
      BY <1>1, <1>5 DEF Health, StoresHealthy
    <2>2. QED
      BY <1>4, <2>1, StoresNext
  <1>7. AuditorHealthy'
    BY <1>1, <1>5, AuditorNext DEF Health, AuditorHealthy
  <1>8. QED
    BY <1>1, <1>6, <1>7, ReadersKept DEF Health

\* The row that is read for continues the chain at the head, which is one of its rows.
LEMMA ReadHeadHealth == ASSUME Inv, Health, readChainState PROVE Health'
  <1>1. /\ auditor' = [auditor EXCEPT !.pc = "commit", !.row = NewRow]
        /\ UNCHANGED <<live, log, head, backups, verifier, repairer, incidents>>
    BY DEF readChainState, procs
  <1>2. /\ auditor'.pc = "commit" /\ auditor'.row = NewRow /\ auditor'.next = auditor.next
        /\ auditor.next \in Nat /\ head.seq \in Nat /\ Len(live) \in Nat
    BY <1>1 DEF Inv, Shapes, DataInv
  <1>3. auditor.next >= 1 /\ auditor.next \in 1 .. Len(live)
    BY <1>2 DEF Health, AuditorHealthy, readChainState
  <1>4. Genuine(NewRow, Len(live))
    BY <1>2, <1>3 DEF Genuine, NewRow
  <1>5. Continues(log, NewRow)
    <2>1. CASE head.seq = 0
      BY <2>1 DEF Continues, NewRow
    <2>2. CASE head.seq # 0
      <3>1. PICK r \in log : head.seq = r.seq /\ head.hash = r.hash
        BY <2>2 DEF Health, StoresHealthy
      <3>2. NewRow.seq - 1 = head.seq /\ NewRow.prev = head.hash
        BY <1>2, <2>2 DEF NewRow
      <3>3. QED
        BY <3>1, <3>2 DEF Continues
    <2>3. QED
      BY <2>1, <2>2
  <1>6. StoresHealthy'
    BY <1>1, StoresNext DEF Health, StoresHealthy
  <1>7. AuditorHealthy'
    BY <1>1, <1>2, <1>3, <1>4, <1>5, AuditorNext
  <1>8. QED
    BY <1>1, <1>6, <1>7, ReadersKept DEF Health

LEMMA CommitHealth == ASSUME Inv, Health, commitRow PROVE Health'
  <1> DEFINE row == auditor.row
  <1>1. /\ auditor.pc = "commit"
        /\ RowsAt(log, row.seq) = {}
        /\ log' = log \cup {row}
        /\ head' = [seq |-> row.seq, hash |-> row.hash]
        /\ auditor' = [auditor EXCEPT !.pc = "backup"]
        /\ UNCHANGED <<live, backups, verifier, repairer, incidents>>
    BY DEF commitRow, procs
  <1>2. Genuine(row, Len(live)) /\ Continues(log, row) /\ auditor.next >= 1
    BY <1>1 DEF Health, AuditorHealthy
  <1>3. Healthy(log', Len(live'))
    BY <1>1, <1>2, HealthyAppend DEF Health, StoresHealthy
  <1>4. auditor'.pc = "backup" /\ auditor'.row = row /\ auditor'.next = auditor.next
    BY <1>1 DEF Inv, Shapes, DataInv
  <1>5. AsCreated(live') /\ backups' \subseteq log'
        /\ \E r \in log' : head'.seq = r.seq /\ head'.hash = r.hash
    BY <1>1 DEF Health, StoresHealthy
  <1>6. StoresHealthy'
    BY <1>3, <1>5, StoresNext
  <1>7. AuditorHealthy'
    BY <1>1, <1>2, <1>4, AuditorNext
  <1>8. QED
    BY <1>1, <1>6, <1>7, ReadersKept DEF Health

\* The job is over, with its backup or without.
LEMMA AuditEndsHealth ==
  ASSUME Inv, Health, commitConflicts \/ writeTransactionBackup \/ backupGivenUp PROVE Health'
  <1>1. UNCHANGED <<live, log, head, verifier, repairer, incidents>>
    BY DEF commitConflicts, writeTransactionBackup, backupGivenUp, procs
  <1>2. auditor.next \in Nat /\ auditor.next >= 1
    BY DEF Inv, Shapes, DataInv, Health, AuditorHealthy
  <1>3. auditor' \in {Audited, [Audited EXCEPT !.next = auditor.next]}
    BY DEF commitConflicts, writeTransactionBackup, backupGivenUp
  <1>4. auditor'.pc = "idle" /\ auditor'.next >= 1
    BY <1>2, <1>3 DEF Audited
  <1>5. backups' \subseteq log'
    <2>1. CASE writeTransactionBackup
      BY <1>1, <2>1 DEF writeTransactionBackup, Health, StoresHealthy, AuditorHealthy
    <2>2. CASE UNCHANGED backups
      BY <1>1, <2>2 DEF Health, StoresHealthy
    <2>3. QED
      BY <2>1, <2>2 DEF commitConflicts, backupGivenUp
  <1>6. StoresHealthy'
    BY <1>1, <1>5, StoresNext DEF Health, StoresHealthy
  <1>7. AuditorHealthy'
    BY <1>4, AuditorNext
  <1>8. QED
    BY <1>1, <1>6, <1>7, ReadersKept DEF Health

LEMMA AuditHealth ==
  ASSUME Inv, Health, AuditStep, \A kind \in CorruptionKinds : ~Corrupt(kind) PROVE Health'
  <1>1. CASE ledgerMiddleware
    BY <1>1, StoresKept, ReadersKept DEF ledgerMiddleware, procs, data, Health
  <1>2. QED
    BY <1>1, CreateHealth, ReadHeadHealth, CommitHealth, AuditEndsHealth DEF AuditStep

-----------------------------------------------------------------------------
(* Verification                                                            *)

\* A step of one verification, which goes on as p.
LEMMA VerifierNext ==
  ASSUME Inv, Health, log' = log, NEW v \in Verifiers, NEW p,
         verifier' = [verifier EXCEPT ![v] = p],
         p.pc = "anchor" => /\ Healthy(p.rows, Len(p.live))
                            /\ AsCreated(p.live)
                            /\ p.rows \subseteq log,
         \A c \in p.todo : c.reason = "missing_s3_backup"
  PROVE  VerifiersHealthy'
  <1>1. verifier \in [Verifiers -> VerifierShape]
    BY DEF Inv, Shapes, VerifyInv
  <1>2. \A u \in Verifiers : verifier'[u] = IF u = v THEN p ELSE verifier[u]
    BY <1>1
  <1>3. ASSUME NEW u \in Verifiers, verifier'[u].pc = "anchor"
        PROVE  /\ Healthy(verifier'[u].rows, Len(verifier'[u].live))
               /\ AsCreated(verifier'[u].live)
               /\ verifier'[u].rows \subseteq log
    <2>1. CASE u = v
      BY <1>2, <1>3, <2>1
    <2>2. CASE u # v
      BY <1>2, <1>3, <2>2 DEF Health, VerifiersHealthy
    <2>3. QED
      BY <2>1, <2>2
  <1>4. ASSUME NEW u \in Verifiers, NEW c \in verifier'[u].todo PROVE c.reason = "missing_s3_backup"
    <2>1. CASE u = v
      BY <1>2, <1>4, <2>1
    <2>2. CASE u # v
      BY <1>2, <1>4, <2>2 DEF Health, VerifiersHealthy
    <2>3. QED
      BY <2>1, <2>2
  <1>5. QED
    BY <1>3, <1>4 DEF VerifiersHealthy, Healthy, Genuine, Continues, AsCreated

LEMMA ReadingHealth ==
  ASSUME Inv, Health, NEW v \in Verifiers,
         readLogs(v) \/ readLatestBackup(v) \/ lockLedger(v) \/ verificationFails(v)
  PROVE  Health'
  <1>1. UNCHANGED data /\ UNCHANGED <<incidents, repairer>>
    BY DEF readLogs, readLatestBackup, lockLedger, verificationFails
  <1>2. log' = log
    BY <1>1 DEF data
  <1>3. RepairersHealthy' /\ IncidentsHealthy'
    BY <1>1, <1>2 DEF Health, RepairersHealthy, IncidentsHealthy, Incidents
  <1>4. verifier \in [Verifiers -> VerifierShape] /\ verifier[v] \in VerifierShape
    BY DEF Inv, Shapes, VerifyInv
  <1>5. \A todo : Report(todo).pc # "anchor" /\ Report(todo).todo \subseteq todo
    BY DEF Report, IdleVerifier
  <1>6. \A c \in verifier[v].todo : c.reason = "missing_s3_backup"
    BY DEF Health, VerifiersHealthy
  <1>7. CASE readLogs(v)
    <2> DEFINE p == [verifier[v] EXCEPT !.pc = "anchor", !.rows = log, !.live = live]
    <2>1. verifier' = [verifier EXCEPT ![v] = p]
      BY <1>4, <1>7 DEF readLogs
    <2>2. p.rows = log /\ p.live = live /\ p.todo = verifier[v].todo
      BY <1>4 DEF VerifierShape
    <2>3. Healthy(log, Len(live)) /\ AsCreated(live)
      BY DEF Health, StoresHealthy
    <2>4. /\ p.pc = "anchor" => Healthy(p.rows, Len(p.live)) /\ AsCreated(p.live) /\ p.rows \subseteq log
          /\ \A c \in p.todo : c.reason = "missing_s3_backup"
      BY <1>6, <2>2, <2>3
    <2> HIDE DEF p
    <2>5. VerifiersHealthy'
      BY <1>2, <2>1, <2>4, VerifierNext
    <2>6. QED
      BY <1>1, <1>3, <2>5, StoresKept DEF Health
  <1>8. CASE readLatestBackup(v)
    <2> DEFINE latest == LatestBackup(backups)
               todo == Compromised(verifier[v].rows, latest, verifier[v].live)
    <2>1. verifier' = [verifier EXCEPT ![v] = Report(todo)]
      BY <1>4, <1>8 DEF readLatestBackup
    <2>2. /\ verifier[v].rows \in SUBSET Rows
          /\ Healthy(verifier[v].rows, Len(verifier[v].live))
          /\ AsCreated(verifier[v].live)
          /\ verifier[v].rows \subseteq log
      BY <1>4, <1>8 DEF readLatestBackup, VerifierShape, Health, VerifiersHealthy
    <2>3. latest \subseteq log
      BY DEF LatestBackup, Listed, Health, StoresHealthy
    <2>4. \A b \in latest : \A r \in verifier[v].rows : b.seq = r.seq => b = r
      BY <2>2, <2>3 DEF Health, StoresHealthy, Healthy
    <2> HIDE DEF latest
    <2>5. \A c \in todo : c.reason = "missing_s3_backup"
      BY <2>2, <2>4, HealthyReport
    <2> HIDE DEF todo
    <2>6. VerifiersHealthy'
      <3>1. /\ Report(todo).pc # "anchor"
            /\ \A c \in Report(todo).todo : c.reason = "missing_s3_backup"
        BY <1>5, <2>5
      <3>2. QED
        BY <1>2, <2>1, <3>1, VerifierNext
    <2>7. QED
      BY <1>1, <1>3, <2>6, StoresKept DEF Health
  <1>9. CASE lockLedger(v)
    <2> DEFINE todo == verifier[v].todo \ {Current(v)}
    <2>1. verifier' = [verifier EXCEPT ![v] = Report(todo)]
      BY <1>4, <1>9 DEF lockLedger
    <2>2. \A c \in todo : c.reason = "missing_s3_backup"
      BY <1>6
    <2> HIDE DEF todo
    <2>3. VerifiersHealthy'
      <3>1. /\ Report(todo).pc # "anchor"
            /\ \A c \in Report(todo).todo : c.reason = "missing_s3_backup"
        BY <1>5, <2>2
      <3>2. QED
        BY <1>2, <2>1, <3>1, VerifierNext
    <2>4. QED
      BY <1>1, <1>3, <2>3, StoresKept DEF Health
  <1>10. CASE verificationFails(v)
    <2>1. verifier' = [verifier EXCEPT ![v] = IdleVerifier]
      BY <1>10 DEF verificationFails
    <2>2. IdleVerifier.pc # "anchor" /\ \A c \in IdleVerifier.todo : c.reason = "missing_s3_backup"
      BY DEF IdleVerifier
    <2>3. VerifiersHealthy'
      BY <1>2, <2>1, <2>2, VerifierNext
    <2>4. QED
      BY <1>1, <1>3, <2>3, StoresKept DEF Health
  <1>11. QED
    BY <1>7, <1>8, <1>9, <1>10

LEMMA CreateIncidentHealth ==
  ASSUME Inv, Health, NEW v \in Verifiers, createIncident(v) PROVE Health'
  <1> DEFINE new == [start |-> Current(v).seq, reason |-> Current(v).reason,
                     status |-> "OPEN", credit |-> 0]
             next == [verifier[v] EXCEPT !.pc = "lock", !.incident = Len(incidents) + 1]
  <1>1. UNCHANGED data /\ UNCHANGED repairer
    BY DEF createIncident
  <1>2. log' = log
    BY <1>1 DEF data
  <1>3. Current(v) \in Reports /\ Current(v) \in verifier[v].todo
    BY CurrentType DEF createIncident, Inv, Shapes, VerifyInv
  <1>4. new \in IncidentShape /\ new.reason = "missing_s3_backup"
    BY <1>3 DEF Reports, IncidentShape, IncidentStatus, Health, VerifiersHealthy
  <1>5. incidents' = Append(incidents, new)
    BY DEF createIncident
  <1> HIDE DEF new
  <1>6. incidents \in Seq(IncidentShape)
    BY DEF Inv, Shapes, IncidentsInv
  <1>7. /\ Len(incidents') = Len(incidents) + 1
        /\ Len(incidents) \in Nat
        /\ \A i \in 1 .. Len(incidents) : incidents'[i] = incidents[i]
        /\ incidents'[Len(incidents) + 1] = new
    BY <1>4, <1>5, <1>6, AppendProperties
  <1>8. IncidentsHealthy'
    <2>1. ASSUME NEW i \in Incidents' PROVE incidents'[i].reason = "missing_s3_backup"
      <3>1. i \in 1 .. Len(incidents) \/ i = Len(incidents) + 1
        BY <1>7 DEF Incidents
      <3>2. QED
        BY <1>4, <1>7, <3>1 DEF Health, IncidentsHealthy, Incidents
    <2>2. QED
      BY <2>1 DEF IncidentsHealthy
  <1>9. verifier \in [Verifiers -> VerifierShape] /\ verifier[v] \in VerifierShape
    BY DEF Inv, Shapes, VerifyInv
  <1>10. verifier' = [verifier EXCEPT ![v] = next]
    BY <1>9 DEF createIncident
  <1>11. next.pc # "anchor" /\ next.todo = verifier[v].todo
    BY <1>9 DEF VerifierShape
  <1>12. \A c \in next.todo : c.reason = "missing_s3_backup"
    BY <1>11 DEF Health, VerifiersHealthy
  <1> HIDE DEF next
  <1>13. VerifiersHealthy'
    BY <1>2, <1>10, <1>11, <1>12, VerifierNext
  <1>14. RepairersHealthy'
    BY <1>1, <1>2 DEF Health, RepairersHealthy
  <1>15. QED
    BY <1>1, <1>8, <1>13, <1>14, StoresKept DEF Health

LEMMA VerifyHealth == ASSUME Inv, Health, NEW v \in Verifiers, VerifyStep(v) PROVE Health'
  BY ReadingHealth, CreateIncidentHealth DEF VerifyStep

\* The other steps leave what verifications have read alone.
LEMMA VerifiersKept == ASSUME Health, UNCHANGED <<log, verifier>> PROVE VerifiersHealthy'
  BY DEF Health, VerifiersHealthy, Healthy, Genuine, Continues, AsCreated

-----------------------------------------------------------------------------
(* Managers and unlock requests                                            *)

\* No status is a reason.
LEMMA RestatedHealth ==
  ASSUME Inv, Health, NEW i \in Incidents, NEW status \in IncidentStatus,
         incidents' = [incidents EXCEPT ![i] = WithStatus(@, status)]
  PROVE  IncidentsHealthy'
  <1>1. /\ Incidents' = Incidents
        /\ \A j \in Incidents :
              incidents'[j] = IF j = i THEN WithStatus(incidents[i], status) ELSE incidents[j]
    BY Restated
  <1>2. incidents[i] \in IncidentShape
    BY Lengths DEF Inv, Shapes, IncidentsInv
  <1>3. WithStatus(incidents[i], status).reason = incidents[i].reason
    BY <1>2 DEF WithStatus, IncidentShape
  <1>4. QED
    BY <1>1, <1>3 DEF Health, IncidentsHealthy

LEMMA ManagerHealth == ASSUME Inv, Health, NEW i \in Incidents, ManagerStep(i) PROVE Health'
  <1>1. UNCHANGED data /\ UNCHANGED <<verifier, repairer>>
    BY DEF ManagerStep, updateIncidentStatus, triggerRepair, repairUserChain, AddJob, procs
  <1>2. log' = log
    BY <1>1 DEF data
  <1>3. IncidentsHealthy'
    <2>1. ASSUME NEW status \in IncidentStatus, updateIncidentStatus(i, status) PROVE IncidentsHealthy'
      BY <2>1, RestatedHealth DEF updateIncidentStatus
    <2>2. CASE UNCHANGED incidents
      BY <2>2 DEF Health, IncidentsHealthy, Incidents
    <2>3. QED
      BY <2>1, <2>2 DEF ManagerStep, triggerRepair, repairUserChain, AddJob
  <1>4. RepairersHealthy'
    BY <1>1, <1>2 DEF Health, RepairersHealthy
  <1>5. QED
    BY <1>1, <1>2, <1>3, <1>4, StoresKept, VerifiersKept DEF Health

LEMMA UnlockHealth == ASSUME Inv, Health, NEW a \in Admins, UnlockStep(a) PROVE Health'
  <1>1. UNCHANGED data /\ UNCHANGED <<verifier, repairer>>
    BY DEF UnlockStep, readLedger, activateLedger, checkRepairing, resolveIncident, unlockFails
  <1>2. log' = log
    BY <1>1 DEF data
  <1>3. IncidentsHealthy'
    <2>1. CASE resolveIncident(a)
      <3>1. admin[a].incident \in Incidents
        BY <2>1 DEF resolveIncident, Inv, Shapes, UnlockInv, AdminInv
      <3>2. "RESOLVED" \in IncidentStatus
        BY DEF IncidentStatus
      <3>3. QED
        BY <2>1, <3>1, <3>2, RestatedHealth DEF resolveIncident
    <2>2. CASE UNCHANGED incidents
      BY <2>2 DEF Health, IncidentsHealthy, Incidents
    <2>3. QED
      BY <2>1, <2>2 DEF UnlockStep, readLedger, activateLedger, checkRepairing, unlockFails
  <1>4. RepairersHealthy'
    BY <1>1, <1>2 DEF Health, RepairersHealthy
  <1>5. QED
    BY <1>1, <1>2, <1>3, <1>4, StoresKept, VerifiersKept DEF Health

-----------------------------------------------------------------------------
(* Repairs                                                                 *)

\* A step of one worker, which goes on as p.
LEMMA RepairerNext ==
  ASSUME Inv, Health, log' = log, NEW w \in RepairWorkers, NEW p,
         repairer' = [repairer EXCEPT ![w] = p], p.records \subseteq log
  PROVE  RepairersHealthy'
  <1>1. repairer \in [RepairWorkers -> RepairerShape]
    BY DEF Inv, Shapes, RepairersInv
  <1>2. \A u \in RepairWorkers : repairer'[u] = IF u = w THEN p ELSE repairer[u]
    BY <1>1
  <1>3. QED
    BY <1>2 DEF Health, RepairersHealthy

\* Where a worker goes, it takes with it what it has read.
LEMMA GotoHealth ==
  ASSUME Inv, Health, log' = log, NEW w \in RepairWorkers,
         (\E pc : Goto(w, pc)) \/ Throw(w) \/ Stall(w)
  PROVE  RepairersHealthy'
  <1>1. repairer[w] \in RepairerShape /\ repairer[w].records \subseteq log
    BY DEF Inv, Shapes, RepairersInv, Health, RepairersHealthy
  <1>2. ASSUME NEW pc, Goto(w, pc) PROVE RepairersHealthy'
    <2> DEFINE p == [repairer[w] EXCEPT !.pc = pc]
    <2>1. repairer' = [repairer EXCEPT ![w] = p] /\ p.records = repairer[w].records
      BY <1>1, <1>2 DEF Goto, RepairerShape
    <2> HIDE DEF p
    <2>2. QED
      BY <1>1, <2>1, RepairerNext
  <1>3. CASE Throw(w) \/ Stall(w)
    <2>1. repairer' = [repairer EXCEPT ![w] = IdleRepairer] /\ IdleRepairer.records = {}
      BY <1>3 DEF Throw, Stall, IdleRepairer
    <2>2. IdleRepairer.records \subseteq log
      BY <2>1
    <2>3. QED
      BY <2>1, <2>2, RepairerNext
  <1>4. QED
    BY <1>2, <1>3

\* Up to the restoring transaction a repair reads, or writes a status.
LEMMA CheckingHealth ==
  ASSUME Inv, Health, NEW w \in RepairWorkers,
         \/ \E j \in DOMAIN jobs : takeJob(w, j)
         \/ findIncident(w)
         \/ fetchHistory(w)
         \/ assertBoundaryLinksToTrustedChain(w)
         \/ lockLedgerForRepair(w)
         \/ markRepairing(w)
  PROVE  Health'
  <1>1. UNCHANGED data /\ UNCHANGED verifier
    BY DEF takeJob, findIncident, fetchHistory, assertBoundaryLinksToTrustedChain,
           lockLedgerForRepair, markRepairing
  <1>2. log' = log
    BY <1>1 DEF data
  <1>3. IncidentsHealthy'
    <2>1. CASE markRepairing(w)
      <3>1. IncidentOf(w) \in Incidents /\ "REPAIRING" \in IncidentStatus
        BY <2>1, IncidentOfType DEF markRepairing, Underway, IncidentStatus
      <3>2. QED
        BY <2>1, <3>1, RestatedHealth DEF markRepairing, WriteRepairing
    <2>2. CASE UNCHANGED incidents
      BY <2>2 DEF Health, IncidentsHealthy, Incidents
    <2>3. QED
      BY <2>1, <2>2 DEF takeJob, findIncident, fetchHistory, assertBoundaryLinksToTrustedChain,
                        lockLedgerForRepair
  <1>4. RepairersHealthy'
    <2>1. CASE \E j \in DOMAIN jobs : takeJob(w, j)
      <3>1. PICK j \in DOMAIN jobs : takeJob(w, j)
        BY <2>1
      <3> DEFINE p == [IdleRepairer EXCEPT !.pc = "find", !.job = j]
      <3>2. repairer' = [repairer EXCEPT ![w] = p]
        BY <3>1 DEF takeJob
      <3>3. p.records \subseteq log
        BY DEF IdleRepairer
      <3> HIDE DEF p
      <3>4. QED
        BY <1>2, <3>2, <3>3, RepairerNext
    <2>2. CASE fetchHistory(w)
      <3> DEFINE records == FromStart(Listed(backups), incidents[IncidentOf(w)].start)
                 p == [repairer[w] EXCEPT !.pc = "boundary", !.records = records]
      <3>1. CASE repairer' = [repairer EXCEPT ![w].pc = "boundary", ![w].records = records]
        <4>1. repairer \in [RepairWorkers -> RepairerShape] /\ repairer[w] \in RepairerShape
          BY DEF Inv, Shapes, RepairersInv
        <4>2. records \subseteq log
          BY DEF FromStart, Listed, Health, StoresHealthy
        <4> HIDE DEF records
        <4>3. repairer' = [repairer EXCEPT ![w] = p]
          BY <3>1, <4>1
        <4>4. p.records = records
          BY <4>1 DEF RepairerShape
        <4> HIDE DEF p
        <4>5. QED
          BY <1>2, <4>2, <4>3, <4>4, RepairerNext
      <3>2. CASE Throw(w)
        BY <1>2, <3>2, GotoHealth
      <3>3. QED
        BY <2>2, <3>1, <3>2 DEF fetchHistory
    <2>3. CASE findIncident(w) \/ assertBoundaryLinksToTrustedChain(w)
               \/ lockLedgerForRepair(w) \/ markRepairing(w)
      <3>1. (\E pc : Goto(w, pc)) \/ Throw(w)
        BY <2>3 DEF findIncident, assertBoundaryLinksToTrustedChain, lockLedgerForRepair, markRepairing
      <3>2. QED
        BY <1>2, <3>1, GotoHealth
    <2>4. QED
      BY <2>1, <2>2, <2>3
  <1>5. QED
    BY <1>1, <1>2, <1>3, <1>4, StoresKept, VerifiersKept DEF Health

\* The restoring transaction writes the log, the head's row and the contents again as they
\* were, apart from where the head points.
LEMMA RestoringHealth ==
  ASSUME Inv, Health, NEW w \in RepairWorkers, repairer[w].pc = "restore", WriteRestored(w),
         UNCHANGED <<backups, auditor>>
  PROVE  StoresHealthy' /\ AuditorHealthy' /\ IncidentsHealthy' /\ log' = log
  <1> DEFINE records == repairer[w].records
             i == IncidentOf(w)
  <1>1. records # {} /\ IsFiniteSet(records) /\ records \subseteq log
    BY DEF Inv, Shapes, RepairersInv, Underway, Health, RepairersHealthy
  <1>2. log \in SUBSET Rows /\ live \in Seq(Nat)
    BY DEF Inv, Shapes, DataInv
  <1>3. Healthy(log, Len(live)) /\ AsCreated(live) /\ backups \subseteq log
    BY DEF Health, StoresHealthy
  <1>4. /\ log' = RestoredLog(log, records) /\ head' = RestoredHead(log, records)
        /\ live' = RestoredLive(live, records)
    BY DEF WriteRestored
  <1>5. /\ incidents' = [incidents EXCEPT ![i].credit = @ - 1]
        /\ i \in Incidents
    BY IncidentOfType DEF WriteRestored, Underway
  <1> HIDE DEF records, i
  <1>6. /\ log' = log
        /\ \E r \in log : head'.seq = r.seq /\ head'.hash = r.hash
        /\ Len(live') = Len(live)
        /\ AsCreated(live')
    BY <1>1, <1>2, <1>3, <1>4, RestoredHealthy
  <1>7. StoresHealthy'
    BY <1>3, <1>6, StoresNext
  <1>8. AuditorHealthy'
    BY <1>6, AuditorNext DEF Health, AuditorHealthy
  <1>9. IncidentsHealthy'
    <2>1. incidents \in Seq(IncidentShape) /\ Incidents = 1 .. Len(incidents) /\ Len(incidents) \in Nat
      BY Lengths DEF Inv, Shapes, IncidentsInv
    <2>2. Incidents' = Incidents
      BY <1>5, <2>1 DEF Incidents
    <2>3. \A j \in Incidents : incidents[j] \in IncidentShape
      BY <2>1
    <2>4. \A j \in Incidents : incidents'[j].reason = incidents[j].reason
      BY <1>5, <2>1, <2>3 DEF IncidentShape
    <2>5. QED
      BY <2>2, <2>4 DEF Health, IncidentsHealthy
  <1>10. QED
    BY <1>6, <1>7, <1>8, <1>9

LEMMA RestoreHealth == ASSUME Inv, Health, NEW w \in RepairWorkers, restore(w) PROVE Health'
  <1>1. /\ UNCHANGED <<backups, auditor, verifier>>
        /\ repairer[w].pc = "restore" /\ WriteRestored(w)
        /\ repairer' = [repairer EXCEPT ![w] = IdleRepairer]
    BY DEF restore
  <1>2. StoresHealthy' /\ AuditorHealthy' /\ IncidentsHealthy' /\ log' = log
    BY <1>1, RestoringHealth
  <1>3. IdleRepairer.records \subseteq log
    BY DEF IdleRepairer
  <1>4. RepairersHealthy'
    BY <1>1, <1>2, <1>3, RepairerNext
  <1>5. QED
    BY <1>1, <1>2, <1>4, VerifiersKept DEF Health

LEMMA RepairFailsHealth ==
  ASSUME Inv, Health, NEW w \in RepairWorkers, repairFails(w) PROVE Health'
  <1>1. /\ UNCHANGED <<backups, auditor, verifier>>
        /\ Throw(w) \/ Stall(w)
        /\ MayBeWritten(w)
    BY DEF repairFails
  <1>2. StoresHealthy' /\ AuditorHealthy' /\ IncidentsHealthy' /\ log' = log
    <2>1. CASE UNCHANGED <<live, log, head>> /\ UNCHANGED incidents
      BY <1>1, <2>1, StoresKept DEF data, Health, IncidentsHealthy, Incidents
    <2>2. CASE repairer[w].pc = "mark" /\ WriteRepairing(w) /\ UNCHANGED <<live, log, head>>
      <3>1. IncidentOf(w) \in Incidents /\ "REPAIRING" \in IncidentStatus
        BY <2>2, IncidentOfType DEF Underway, IncidentStatus
      <3>2. IncidentsHealthy'
        BY <2>2, <3>1, RestatedHealth DEF WriteRepairing
      <3>3. QED
        BY <1>1, <2>2, <3>2, StoresKept DEF data
    <2>3. CASE repairer[w].pc = "restore" /\ WriteRestored(w)
      BY <1>1, <2>3, RestoringHealth
    <2>4. QED
      BY <1>1, <2>1, <2>2, <2>3 DEF MayBeWritten
  <1>3. RepairersHealthy'
    BY <1>1, <1>2, GotoHealth
  <1>4. QED
    BY <1>1, <1>2, <1>3, VerifiersKept DEF Health

LEMMA RepairHealth == ASSUME Inv, Health, NEW w \in RepairWorkers, RepairStep(w) PROVE Health'
  BY CheckingHealth, RestoreHealth, RepairFailsHealth DEF RepairStep

-----------------------------------------------------------------------------
(* The theorem                                                             *)

LEMMA StepHealth ==
  ASSUME Inv, Health, Next, \A kind \in CorruptionKinds : ~Corrupt(kind) PROVE Health'
  BY AuditHealth, VerifyHealth, ManagerHealth, RepairHealth, UnlockHealth DEF Next

LEMMA StutterHealth == ASSUME Health, UNCHANGED vars PROVE Health'
  <1>1. UNCHANGED data /\ UNCHANGED <<log, verifier, repairer, incidents>>
    BY DEF vars, data
  <1>2. RepairersHealthy' /\ IncidentsHealthy'
    BY <1>1 DEF Health, RepairersHealthy, IncidentsHealthy, Incidents
  <1>3. QED
    BY <1>1, <1>2, StoresKept, VerifiersKept DEF Health

\* A corruption counts, so that only steps from healthy ledgers have to be healthy.
LEMMA NextHealth == Inv /\ HealthInv /\ [Next]_vars => HealthInv'
  <1> SUFFICES ASSUME Inv, HealthInv, [Next]_vars PROVE HealthInv'
    OBVIOUS
  <1>1. CASE Next
    <2>1. /\ CountInv'
          /\ \/ history'.corruptions = history.corruptions
             \/ \E kind \in CorruptionKinds : Corrupt(kind) /\ history'.corruptions # 0
      BY <1>1, CountKept DEF HealthInv
    <2>2. ASSUME history'.corruptions = 0 PROVE Health'
      <3>1. \A kind \in CorruptionKinds : ~Corrupt(kind)
        <4>1. history.corruptions \in Nat /\ "corruptions" \in DOMAIN history
          BY DEF HealthInv, CountInv
        <4>2. ASSUME NEW kind \in CorruptionKinds, Corrupt(kind) PROVE FALSE
          BY <2>2, <4>1, <4>2 DEF Corrupt
        <4>3. QED
          BY <4>2
      <3>2. Health
        BY <2>1, <2>2 DEF HealthInv
      <3>3. QED
        BY <1>1, <3>1, <3>2, StepHealth
    <2>3. QED
      BY <2>1, <2>2 DEF HealthInv
  <1>2. CASE UNCHANGED vars
    <2>1. history' = history
      BY <1>2 DEF vars
    <2>2. QED
      BY <1>2, <2>1, StutterHealth DEF HealthInv, CountInv
  <1>3. QED
    BY <1>1, <1>2

\* While nothing was tampered with, verifications report no tampering, for any number of
\* transactions, audits, lost backups, verifications, repairs, retries and failing calls.
THEOREM AlarmsReal == Spec => []AlarmsAreReal
  <1>1. HealthInv => AlarmsAreReal
    BY DEF HealthInv, Health, IncidentsHealthy, AlarmsAreReal
  <1>2. QED
    BY <1>1, InitHealth, NextHealth, Invariance, PTL DEF Spec
=============================================================================
