--------------------------- MODULE LedgerControl ---------------------------
(***************************************************************************)
(* Who may touch a user's ledger, and when: the transaction requests and   *)
(* the audit worker that extend it, verification jobs that lock it and     *)
(* open incidents, the managers that approve incidents, repair jobs that   *)
(* restore it from S3 and the SUPERADMIN who unlocks it.                   *)
(*                                                                         *)
(* One user: every query of this code names the user, and users share      *)
(* nothing but the queues.  A step is the code between two awaits that     *)
(* reach the database or S3.  The audit pipeline, AuditPipeline's subject,  *)
(* appears as what verification and repair can see of it: one transaction  *)
(* at a time, its read of the chain head, its commit and its S3 put.       *)
(*                                                                         *)
(* Left out: VerificationRun rows and events, which no other step reads,   *)
(* and the fields of an incident that no guard reads.                      *)
(***************************************************************************)
EXTENDS HashChain, Integers

CONSTANTS Verifiers,       \* verifications that may run at the same time
          RepairWorkers,   \* server processes, each with one repair worker
          Admins,          \* unlock requests that may run at the same time
          RepairAttempts,  \* attempts of a repair job, 3 in the code
          ManagerMoves,    \* <<from, to>>: the status changes managers request
          CorruptionKinds, \* how stored data may get corrupted
          MaxTxns,         \* bound: transactions created
          MaxIncidents,    \* bound: incidents opened
          MaxJobs,         \* bound: repair jobs added
          MaxCorruptions,  \* bound: corruptions
          MaxFaults        \* bound: calls that fail

IncidentStatus == {"OPEN", "UNDER_REVIEW", "APPROVED", "REJECTED", "REPAIRING", "RESOLVED"}

LedgerStatus == {"ACTIVE", "LOCKED", "UNDER_REPAIR"}

\* The fields of a SecurityLog row that are stored, each by a name of its own.
RowFields == {"seq", "txn", "data", "prev", "hash", "time"}

AllCorruptionKinds == RowFields \cup {"row", "live"}

ASSUME LedgerAssumption ==
    /\ {RepairAttempts, ListingBudget} \subseteq Nat \ {0}
    /\ ManagerMoves \subseteq IncidentStatus \X IncidentStatus
    /\ CorruptionKinds \subseteq AllCorruptionKinds
    /\ {MaxTxns, MaxIncidents, MaxJobs, MaxCorruptions, MaxFaults} \subseteq Nat

VARIABLES
    live,      \* Transaction rows: live[t] are the contents of row t, t when untouched
    log,       \* SecurityLog rows
    head,      \* SecurityChainState
    backups,   \* S3 objects
    admitted,  \* a transaction request has passed ledgerMiddleware
    auditor,   \* the audit pipeline: its step, the row it writes, the next transaction
    ledger,    \* LedgerState: status and incident.  An absent row counts as ACTIVE
    incidents, \* Incident rows; credit counts approvals less restores (history)
    verifier,  \* per verification: what it has read and still has to report
    jobs,      \* every job ever added to repair-queue
    repairer,  \* per repair worker: its job and the records it restores
    admin,     \* per unlock request: the incident it read
    history    \* what happened: rows committed, corruptions, faults, disturbed repairs

vars == <<live, log, head, backups, admitted, auditor, ledger, incidents,
          verifier, jobs, repairer, admin, history>>

data  == <<live, log, head, backups, auditor>>
procs == <<verifier, jobs, repairer, admin>>

-----------------------------------------------------------------------------
(* Data *)

Stamp == 1    \* the createdAt of a row; a corrupted one is 0
Garbled == << <<0, 2>> >>    \* a corrupted hash: no row hashes to it

NoRow == [seq |-> 0, txn |-> 0, data |-> 0, prev |-> Genesis, hash |-> Genesis, at |-> 0]

IdleVerifier == [pc |-> "idle", rows |-> {}, live |-> <<>>, todo |-> {}, incident |-> 0]
IdleRepairer == [pc |-> "idle", job |-> 0, records |-> {}]
IdleAdmin    == [pc |-> "idle", incident |-> 0]

Incidents == 1 .. Len(incidents)

\* Mutant: a status is misspelt.
WithStatusMisspelt(incident, status) ==
    [incident EXCEPT !.status = IF status = "REPAIRING" THEN "IN_REPAIR" ELSE status]

\* updateIncidentStatus of the repository.
WithStatus(incident, status) ==
    [incident EXCEPT !.status = status, !.credit = IF status = "APPROVED" THEN @ + 1 ELSE @]

\* The steps of a repair that has taken the lock, and of one that has found its incident
\* APPROVED.
Locked == {"mark", "restore"}
Checked == {"fetch", "boundary", "lock"} \cup Locked

\* The ledger's status is written by another actor: which of these steps repairs are in.
Disturb ==
    history' = [history EXCEPT !.disturbed = @ \cup ({repairer[w].pc : w \in RepairWorkers} \cap Checked)]

\* A call fails in this step.
Fault == /\ history.faults < MaxFaults
         /\ history' = [history EXCEPT !.faults = @ + 1]

Init ==
    /\ live = <<>>
    /\ log = {}
    /\ head = [seq |-> 0, hash |-> Genesis]
    /\ backups = {}
    /\ admitted = FALSE
    /\ auditor = [pc |-> "idle", row |-> NoRow, next |-> 1]
    /\ ledger = [status |-> "ACTIVE", incident |-> 0]
    /\ incidents = <<>>
    /\ verifier = [v \in Verifiers |-> IdleVerifier]
    /\ jobs = <<>>
    /\ repairer = [w \in RepairWorkers |-> IdleRepairer]
    /\ admin = [a \in Admins |-> IdleAdmin]
    /\ history = [committed |-> {}, corruptions |-> 0, kinds |-> {}, faults |-> 0, lost |-> FALSE, disturbed |-> {}]

-----------------------------------------------------------------------------
(* Transactions and their audit *)

ledgerMiddleware ==
    /\ ~admitted
    /\ Len(live) < MaxTxns
    /\ ledger.status = "ACTIVE"
    /\ admitted' = TRUE
    /\ UNCHANGED <<data, ledger, incidents, procs, history>>

createTransaction ==
    /\ admitted
    /\ admitted' = FALSE
    /\ live' = Append(live, Len(live) + 1)
    /\ UNCHANGED <<log, head, backups, auditor, ledger, incidents, procs, history>>

\* The row that the audit worker appends for its next transaction.
NewRow ==
    LET prev == IF head.seq = 0 THEN Genesis ELSE head.hash
    IN [seq |-> head.seq + 1, txn |-> auditor.next, data |-> auditor.next, prev |-> prev,
        hash |-> generateHash(auditor.next, prev, Stamp), at |-> Stamp]

\* The worker does not look at the ledger's status.
readChainState ==
    /\ auditor.pc = "idle"
    /\ auditor.next <= Len(live)
    /\ auditor' = [auditor EXCEPT !.pc = "commit", !.row = NewRow]
    /\ UNCHANGED <<live, log, head, backups, admitted, ledger, incidents, procs, history>>

commitRow ==
    /\ auditor.pc = "commit"
    /\ RowsAt(log, auditor.row.seq) = {}
    /\ log' = log \cup {auditor.row}
    /\ head' = [seq |-> auditor.row.seq, hash |-> auditor.row.hash]
    /\ auditor' = [auditor EXCEPT !.pc = "backup"]
    /\ history' = [history EXCEPT !.committed = @ \cup {auditor.row}]
    /\ UNCHANGED <<live, backups, admitted, ledger, incidents, procs>>

Audited == [pc |-> "idle", row |-> NoRow, next |-> auditor.next + 1]

\* A sequence number that is taken violates the unique constraint: nothing is
\* written, and the job starts again or has used up its attempts.
commitConflicts ==
    /\ auditor.pc = "commit"
    /\ RowsAt(log, auditor.row.seq) # {}
    /\ auditor' \in {Audited, [Audited EXCEPT !.next = auditor.next]}
    /\ UNCHANGED <<live, log, head, backups, admitted, ledger, incidents, procs, history>>

writeTransactionBackup ==
    /\ auditor.pc = "backup"
    /\ backups' = {b \in backups : b.seq # auditor.row.seq \/ b.txn # auditor.row.txn} \cup {auditor.row}
    /\ auditor' = Audited
    /\ UNCHANGED <<live, log, head, admitted, ledger, incidents, procs, history>>

\* S3 fails on every attempt of the job: the row never gets a backup.
backupGivenUp ==
    /\ auditor.pc = "backup"
    /\ history.faults < MaxFaults
    /\ history' = [history EXCEPT !.faults = @ + 1, !.lost = TRUE]
    /\ auditor' = Audited
    /\ UNCHANGED <<live, log, head, backups, admitted, ledger, incidents, procs>>

\* What a row may have become when one of its columns was written by someone else: a value
\* that nothing hashes to, a number that is free (they are unique) or another transaction
\* (a foreign key).  hmacSignature is never read.
Altered(r, field) ==
    CASE field = "data" -> {[r EXCEPT !.data = 0]}
      [] field = "hash" -> {[r EXCEPT !.hash = Garbled]}
      [] field = "prev" -> {[r EXCEPT !.prev = Garbled]}
      [] field = "time" -> {[r EXCEPT !.at = 0]}
      [] field = "seq"  -> {[r EXCEPT !.seq = n] : n \in {m \in 0 .. MaxTxns + 1 : RowsAt(log, m) = {}}}
      [] field = "txn"  -> {[r EXCEPT !.txn = t] : t \in DOMAIN live \ {r.txn}}

\* Stored data changes behind the program's back, as in testing.txt, step 9 B: a column of
\* a row, a row that is deleted, a transaction.  Not covered: rows that are added, columns
\* forged to fit each other, SecurityChainState and the objects in S3.
Corrupt(kind) ==
    /\ kind \in CorruptionKinds
    /\ history.corruptions < MaxCorruptions
    /\ \E r \in log :
         \/ /\ kind \in RowFields
            /\ \E q \in Altered(r, kind) : log' = (log \ {r}) \cup {q}
            /\ UNCHANGED live
         \/ /\ kind = "row"
            /\ log' = log \ {r}
            /\ UNCHANGED live
         \/ /\ kind = "live"
            /\ live' = [live EXCEPT ![r.txn] = 0]
            /\ UNCHANGED log
    /\ history' = [history EXCEPT !.corruptions = @ + 1, !.kinds = @ \cup {kind}]
    /\ UNCHANGED <<head, backups, admitted, auditor, ledger, incidents, procs>>

-----------------------------------------------------------------------------
(* verifyUserHashChain *)

readLogs(v) ==
    /\ verifier[v].pc = "idle"
    /\ verifier' = [verifier EXCEPT ![v] = [@ EXCEPT !.pc = "anchor", !.rows = log, !.live = live]]
    /\ UNCHANGED <<data, admitted, ledger, incidents, jobs, repairer, admin, history>>

Report(todo) == IF todo = {} THEN IdleVerifier ELSE [IdleVerifier EXCEPT !.pc = "open", !.todo = todo]

\* getLatestUserBackup, then the loop's checks, which reach no other store.
readLatestBackup(v) ==
    /\ verifier[v].pc = "anchor"
    /\ verifier' = [verifier EXCEPT ![v] = Report(Compromised(@.rows, LatestBackup(backups), @.live))]
    /\ UNCHANGED <<data, admitted, ledger, incidents, jobs, repairer, admin, history>>

\* The compromised row the loop has reached.
Current(v) == CHOOSE c \in verifier[v].todo : \A d \in verifier[v].todo : c.seq <= d.seq

createIncident(v) ==
    /\ verifier[v].pc = "open"
    /\ Len(incidents) < MaxIncidents
    /\ incidents' = Append(incidents, [start |-> Current(v).seq, reason |-> Current(v).reason,
                                       status |-> "OPEN", credit |-> 0])
    /\ verifier' = [verifier EXCEPT ![v].pc = "lock", ![v].incident = Len(incidents) + 1]
    /\ UNCHANGED <<data, admitted, ledger, jobs, repairer, admin, history>>

\* ledgerState.upsert: LOCKED, whatever the status was.
lockLedger(v) ==
    /\ verifier[v].pc = "lock"
    /\ ledger' = [status |-> "LOCKED", incident |-> verifier[v].incident]
    /\ Disturb
    /\ verifier' = [verifier EXCEPT ![v] = Report(@.todo \ {Current(v)})]
    /\ UNCHANGED <<data, admitted, incidents, jobs, repairer, admin>>

\* A call throws: the request fails, or the job is retried from the start.
verificationFails(v) ==
    /\ verifier[v].pc # "idle"
    /\ Fault
    /\ verifier' = [verifier EXCEPT ![v] = IdleVerifier]
    /\ UNCHANGED <<data, admitted, ledger, incidents, jobs, repairer, admin>>

-----------------------------------------------------------------------------
(* Incidents and repair requests *)

\* A manager may write any status over any other; ManagerMoves says which ones do.
updateIncidentStatus(i, status) ==
    /\ <<incidents[i].status, status>> \in ManagerMoves
    /\ incidents' = [incidents EXCEPT ![i] = WithStatus(@, status)]
    /\ UNCHANGED <<data, admitted, ledger, procs, history>>

\* findFirst by status, newest first.
IsLatest(i, statuses) ==
    /\ incidents[i].status \in statuses
    /\ \A j \in Incidents : incidents[j].status \in statuses => j <= i

AddJob(i, keyed) ==
    /\ Len(jobs) < MaxJobs
    /\ ledger.status # "UNDER_REPAIR"
    /\ jobs' = Append(jobs, [incident |-> i, keyed |-> keyed, status |-> "waiting", attempts |-> 0])
    /\ UNCHANGED <<data, admitted, ledger, incidents, verifier, repairer, admin, history>>

\* repairController.  Finished jobs are kept and keep their jobId: a second request
\* for the user adds nothing.
triggerRepair(i) ==
    /\ IsLatest(i, {"APPROVED"})
    /\ \A j \in DOMAIN jobs : ~jobs[j].keyed
    /\ AddJob(i, TRUE)

\* adminController.  No jobId.
repairUserChain(i) ==
    /\ IsLatest(i, {"OPEN", "UNDER_REVIEW", "APPROVED"})
    /\ AddJob(i, FALSE)

-----------------------------------------------------------------------------
(* repairUserLedgerFromS3 *)

IncidentOf(w) == jobs[repairer[w].job].incident

\* Mutant: the status of the incident is not checked.
MayRepairAny(incident) == TRUE

MayRepair(incident) == incident.status = "APPROVED"

\* Mutant: the lock overwrites a lock.
MayLockAny(status) == TRUE

\* updateMany where status is not UNDER_REPAIR, or create.
MayLock(status) == status # "UNDER_REPAIR"

\* The handler throws: the queue runs the job again while it has attempts left.
Throw(w) ==
    LET attempts == jobs[repairer[w].job].attempts + 1
    IN /\ repairer' = [repairer EXCEPT ![w] = IdleRepairer]
       /\ jobs' = [jobs EXCEPT ![repairer[w].job] =
                     [@ EXCEPT !.attempts = attempts,
                               !.status = IF attempts < RepairAttempts THEN "waiting" ELSE "failed"]]

Goto(w, pc) == repairer' = [repairer EXCEPT ![w].pc = pc] /\ UNCHANGED jobs

takeJob(w, j) ==
    /\ repairer[w].pc = "idle"
    /\ jobs[j].status = "waiting"
    /\ jobs' = [jobs EXCEPT ![j].status = "active"]
    /\ repairer' = [repairer EXCEPT ![w] = [IdleRepairer EXCEPT !.pc = "find", !.job = j]]
    /\ UNCHANGED <<data, admitted, ledger, incidents, verifier, admin, history>>

\* findIncidentById and the APPROVED check.
findIncident(w) ==
    /\ repairer[w].pc = "find"
    /\ IF MayRepair(incidents[IncidentOf(w)]) THEN Goto(w, "fetch") ELSE Throw(w)
    /\ UNCHANGED <<data, admitted, ledger, incidents, verifier, admin, history>>

\* fetchTransactionHistoryFromS3 up to assertContiguousHistory.
fetchHistory(w) ==
    /\ repairer[w].pc = "fetch"
    /\ LET records == FromStart(Listed(backups), incidents[IncidentOf(w)].start)
       IN IF records # {} /\ Contiguous(records)
          THEN /\ repairer' = [repairer EXCEPT ![w].pc = "boundary", ![w].records = records]
               /\ UNCHANGED jobs
          ELSE Throw(w)
    /\ UNCHANGED <<data, admitted, ledger, incidents, verifier, admin, history>>

assertBoundaryLinksToTrustedChain(w) ==
    /\ repairer[w].pc = "boundary"
    /\ IF LinksToTrustedChain(log, FirstRecord(repairer[w].records)) THEN Goto(w, "lock") ELSE Throw(w)
    /\ UNCHANGED <<data, admitted, ledger, incidents, verifier, admin, history>>

\* The transaction of lockLedgerForRepair.
WriteLock(w) == ledger' = [status |-> "UNDER_REPAIR", incident |-> IncidentOf(w)]

lockLedgerForRepair(w) ==
    /\ repairer[w].pc = "lock"
    /\ IF MayLock(ledger.status)
       THEN Goto(w, "mark") /\ WriteLock(w)
       ELSE Throw(w) /\ UNCHANGED ledger
    /\ UNCHANGED <<data, admitted, incidents, verifier, admin, history>>

\* Its last call, updateIncidentStatus(incidentId, "REPAIRING").
WriteRepairing(w) == incidents' = [incidents EXCEPT ![IncidentOf(w)] = WithStatus(@, "REPAIRING")]

markRepairing(w) ==
    /\ repairer[w].pc = "mark"
    /\ WriteRepairing(w)
    /\ Goto(w, "restore")
    /\ UNCHANGED <<data, admitted, ledger, verifier, admin, history>>

\* The restoring transaction.
WriteRestored(w) ==
    LET records == repairer[w].records
    IN /\ log' = RestoredLog(log, records)
       /\ head' = RestoredHead(log, records)
       /\ live' = RestoredLive(live, records)
       /\ incidents' = [incidents EXCEPT ![IncidentOf(w)].credit = @ - 1]

\* The job completes.  The ledger stays UNDER_REPAIR.
restore(w) ==
    /\ repairer[w].pc = "restore"
    /\ WriteRestored(w)
    /\ jobs' = [jobs EXCEPT ![repairer[w].job].status = "completed"]
    /\ repairer' = [repairer EXCEPT ![w] = IdleRepairer]
    /\ UNCHANGED <<backups, admitted, auditor, ledger, verifier, admin, history>>

\* What a step may have written before its call failed or the server died.
MayBeWritten(w) ==
    \/ UNCHANGED <<live, log, head, ledger, incidents>>
    \/ repairer[w].pc = "lock" /\ MayLock(ledger.status) /\ WriteLock(w)
       /\ UNCHANGED <<live, log, head, incidents>>
    \/ repairer[w].pc = "mark" /\ WriteRepairing(w) /\ UNCHANGED <<live, log, head, ledger>>
    \/ repairer[w].pc = "restore" /\ WriteRestored(w) /\ UNCHANGED ledger

\* The queue hands the job of a dead server out again, its attempts not counted.
Stall(w) ==
    /\ repairer' = [repairer EXCEPT ![w] = IdleRepairer]
    /\ jobs' = [jobs EXCEPT ![repairer[w].job].status = "waiting"]

repairFails(w) ==
    /\ repairer[w].pc # "idle"
    /\ Fault
    /\ MayBeWritten(w)
    /\ Throw(w) \/ Stall(w)
    /\ UNCHANGED <<backups, admitted, auditor, verifier, admin>>

-----------------------------------------------------------------------------
(* unlockRepairedLedger *)

\* Mutant: a ledger in any status is unlocked.
MayUnlockAny(status) == TRUE

MayUnlock(status) == status = "UNDER_REPAIR"

readLedger(a) ==
    /\ admin[a].pc = "idle"
    /\ MayUnlock(ledger.status)
    /\ admin' = [admin EXCEPT ![a] = [pc |-> "activate", incident |-> ledger.incident]]
    /\ UNCHANGED <<data, admitted, ledger, incidents, verifier, jobs, repairer, history>>

\* ledgerState.update: ACTIVE, whatever the status is by now.
activateLedger(a) ==
    /\ admin[a].pc = "activate"
    /\ ledger' = [status |-> "ACTIVE", incident |-> 0]
    /\ Disturb
    /\ admin' = [admin EXCEPT ![a].pc = "check"]
    /\ UNCHANGED <<data, admitted, incidents, verifier, jobs, repairer>>

checkRepairing(a) ==
    /\ admin[a].pc = "check"
    /\ admin' = IF incidents[admin[a].incident].status = "REPAIRING"
                THEN [admin EXCEPT ![a].pc = "resolve"]
                ELSE [admin EXCEPT ![a] = IdleAdmin]
    /\ UNCHANGED <<data, admitted, ledger, incidents, verifier, jobs, repairer, history>>

resolveIncident(a) ==
    /\ admin[a].pc = "resolve"
    /\ incidents' = [incidents EXCEPT ![admin[a].incident] = WithStatus(@, "RESOLVED")]
    /\ admin' = [admin EXCEPT ![a] = IdleAdmin]
    /\ UNCHANGED <<data, admitted, ledger, verifier, jobs, repairer, history>>

\* A call throws, and with it the request.
unlockFails(a) ==
    /\ admin[a].pc # "idle"
    /\ Fault
    /\ admin' = [admin EXCEPT ![a] = IdleAdmin]
    /\ UNCHANGED <<data, admitted, ledger, incidents, verifier, jobs, repairer>>

-----------------------------------------------------------------------------
AuditStep ==
    \/ ledgerMiddleware
    \/ createTransaction
    \/ readChainState
    \/ commitRow
    \/ commitConflicts
    \/ writeTransactionBackup
    \/ backupGivenUp
    \/ \E kind \in CorruptionKinds : Corrupt(kind)

VerifyStep(v) ==
    \/ readLogs(v)
    \/ readLatestBackup(v)
    \/ createIncident(v)
    \/ lockLedger(v)
    \/ verificationFails(v)

ManagerStep(i) ==
    \/ \E status \in IncidentStatus : updateIncidentStatus(i, status)
    \/ triggerRepair(i)
    \/ repairUserChain(i)

RepairStep(w) ==
    \/ \E j \in DOMAIN jobs : takeJob(w, j)
    \/ findIncident(w)
    \/ fetchHistory(w)
    \/ assertBoundaryLinksToTrustedChain(w)
    \/ lockLedgerForRepair(w)
    \/ markRepairing(w)
    \/ restore(w)
    \/ repairFails(w)

UnlockStep(a) ==
    \/ readLedger(a)
    \/ activateLedger(a)
    \/ checkRepairing(a)
    \/ resolveIncident(a)
    \/ unlockFails(a)

Next ==
    \/ AuditStep
    \/ \E v \in Verifiers : VerifyStep(v)
    \/ \E i \in Incidents : ManagerStep(i)
    \/ \E w \in RepairWorkers : RepairStep(w)
    \/ \E a \in Admins : UnlockStep(a)

Spec == Init /\ [][Next]_vars

-----------------------------------------------------------------------------
(* Properties *)

Hashes == Seq(Nat \X Nat)

Rows == [seq : Nat, txn : Nat, data : Nat, prev : Hashes, hash : Hashes, at : Nat]

\* The stores hold what the schema declares, the actors are in a known step.
TypeOK ==
    /\ live \in Seq(Nat)
    /\ log \subseteq Rows
    /\ head \in [seq : Nat, hash : Hashes]
    /\ backups \subseteq Rows
    /\ admitted \in BOOLEAN
    /\ auditor \in [pc : {"idle", "commit", "backup"}, row : Rows, next : Nat]
    /\ ledger \in [status : LedgerStatus, incident : Nat]
    /\ incidents \in Seq([start : Nat, reason : Reasons, status : IncidentStatus, credit : Int])
    /\ \A v \in Verifiers :
         /\ verifier[v].pc \in {"idle", "anchor", "open", "lock"}
         /\ verifier[v].rows \subseteq Rows
         /\ verifier[v].pc \in {"open", "lock"} => verifier[v].todo # {}
    /\ jobs \in Seq([incident : Incidents, keyed : BOOLEAN, attempts : 0 .. RepairAttempts,
                     status : {"waiting", "active", "completed", "failed"}])
    /\ repairer \in [RepairWorkers -> [pc : {"idle", "find", "fetch", "boundary", "lock", "mark", "restore"},
                                       job : 0 .. Len(jobs), records : SUBSET Rows]]
    /\ admin \in [Admins -> [pc : {"idle", "activate", "check", "resolve"}, incident : 0 .. Len(incidents)]]

\* While stored data is not tampered with, no verification reports tampering: the only
\* alarm a healthy ledger can raise is a backup that is not there (yet).
AlarmsAreReal ==
    history.corruptions = 0 => \A i \in Incidents : incidents[i].reason = "missing_s3_backup"

\* Which of the rows r is, in the order of their numbers.
Position(rows, r) == Cardinality({q \in rows : q.seq <= r.seq})

\* Taken in the order of their numbers, the rows carry the contents, the times and the hashes
\* of the first rows of a chain that the audit pipeline wrote, none left out, and their
\* transactions are as created.  Nothing is said of the numbers themselves and of
\* previousHash: verification recomputes a hash from the row before and does not hash the
\* number; it looks at previousHash only in the row of the latest backup.
Intact(rows, contents) ==
    \A r \in rows :
       /\ contents[r.txn] = r.txn
       /\ \E c \in history.committed :
            /\ c.txn = r.txn /\ c.data = r.data /\ c.hash = r.hash /\ c.at = r.at
            /\ c.seq = Position(rows, r)
            /\ \A q \in rows : Position(rows, q) = c.seq - 1 => c.prev = q.hash

\* A verification that opens no incident has read an intact ledger, whichever rows were
\* changed, deleted (but the last ones), repaired or appended before.  A changed createdAt is
\* excluded, from which a repair rebuilds hashes; what Corrupt does not cover is not claimed.
PassMeansIntact ==
    [][\A v \in Verifiers :
         /\ verifier[v].pc = "anchor"
         /\ verifier'[v].pc = "idle"
         /\ history' = history
         /\ "time" \notin history.kinds
         => Intact(verifier[v].rows, verifier[v].live)]_vars

RestoredBy(i) == i \in Incidents /\ incidents'[i].credit < incidents[i].credit

\* No sequence number was given to a second row, by a change of its column or after a row
\* was deleted and a repair has set the head behind it.
NumberedOnce ==
    /\ "seq" \notin history.kinds
    /\ \A c, d \in history.committed : c.seq = d.seq => c = d

\* A repair restores every row from the corruption start to the new chain head as the
\* pipeline wrote it, and the contents of its transaction, if no backup of a row was lost
\* and no createdAt was changed.  The row's transactionId is restored only as far as nobody
\* else wrote it and no number was given twice: the update of a row leaves it alone.
RestoredIsGenuine ==
    [][\A i \in Incidents :
         RestoredBy(i) /\ "time" \notin history.kinds /\ ~history.lost
         => \A n \in 1 .. head'.seq : n >= incidents[i].start =>
              \E r \in log', c \in history.committed :
                 /\ r.seq = n /\ r = [c EXCEPT !.txn = r.txn]
                 /\ live'[c.txn] = c.txn
                 /\ NumberedOnce /\ "txn" \notin history.kinds => r.txn = c.txn]_vars

\* A manager's approval is used up by the repair it allows: no incident is repaired without
\* approval, nor twice on one approval, through retries and duplicate jobs, unless the
\* ledger's status is written by others after a job's check for approval.
OneRepairPerApproval ==
    history.disturbed \cap Checked = {} => \A i \in Incidents : incidents[i].credit >= 0

\* Once an incident is RESOLVED no late job or unlock request reopens it, on the same
\* condition and given managers who leave RESOLVED alone.
ResolvedIsFinal ==
    [][history.disturbed \cap Checked = {}
         => \A i \in Incidents : incidents[i].status = "RESOLVED" => incidents'[i].status = "RESOLVED"]_vars

OneRepairPerUser == Cardinality({w \in RepairWorkers : repairer[w].pc \in Locked}) <= 1

\* At most one repair is past its lock, whatever jobs were queued, while no verification
\* and no unlock request writes over the lock of a running repair.
OneRepairUndisturbed == history.disturbed \cap Locked = {} => OneRepairPerUser

\* SecurityChainState is the head of the chain: no row lies beyond it.
HeadIsLast == \A r \in log : r.seq <= head.seq

Lifecycle == INSTANCE LedgerLifecycle
             WITH Requests <- Admins,
                  status   <- ledger.status,
                  granted  <- {a \in Admins : admin[a].pc = "activate"}

\* To those who look at the status, repairs, retries, duplicate jobs and failed calls follow
\* the lifecycle: one repair at a time takes the ledger, and only an unlock request that
\* found it UNDER_REPAIR makes it ACTIVE.  So the code has it (repairService.js:408-411),
\* and not its documents: by END_TO_END_STUDY_GUIDE.md:458-459, testing.txt:87-92 and
\* backend/README.md:64 the repair itself makes the ledger ACTIVE and unlocks it.
FollowsLifecycle == Lifecycle!Spec

\* An unlock request never unlocks a ledger that verification has locked.
OnlyRepairedIsUnlocked ==
    [][ledger'.status = "ACTIVE" => ledger.status # "LOCKED"]_vars

\* A restored row belongs to the transaction whose record it was restored from.
RestoresItsTransaction ==
    [][\A i \in Incidents : RestoredBy(i)
         => \A r \in log' : incidents[i].start <= r.seq /\ r.seq <= head'.seq
              => \E b \in backups : b.seq = r.seq /\ b.txn = r.txn]_vars
=============================================================================
