----------------------------- MODULE HashChain -----------------------------
(***************************************************************************)
(* What verification and repair compute from one user's hash chain.        *)
(*                                                                         *)
(* A row is a SecurityLog row: its sequence number, its transactionId, its *)
(* auditData, previousHash, currentHash and createdAt.  A backup is the S3 *)
(* object of a row and has the same fields (AuditPipeline!BackupRepeatsLog *)
(* shows that it repeats them).  "live" maps a transactionId to the        *)
(* contents of its Transaction row.  The contents of a transaction are an  *)
(* abstract value: id, user, amount and description together.              *)
(*                                                                         *)
(* Every query names the user, so that users do not meet here.             *)
(***************************************************************************)
EXTENDS Naturals, Sequences, FiniteSets

CONSTANT ListingBudget    \* objects that a listing returns at most, 1000 in the code

Genesis == <<>>

\* generateHash(transactionData, previousHash, timestamp): SHA-256 is modelled by
\* what was hashed, see AuditPipeline.
generateHash(data, prev, at) == Append(prev, <<data, at>>)

-----------------------------------------------------------------------------
(* verifyUserHashChain *)

\* Mutant: the hash is recomputed from the row's own previousHash.
PrecedingHashOwn(rows, r) == r.prev

\* currentHash of the row before r in ascending order, whatever its number is.
PrecedingHash(rows, r) ==
    LET below == {q \in rows : q.seq < r.seq}
    IN IF below = {} THEN Genesis
       ELSE (CHOOSE q \in below : \A p \in below : p.seq <= q.seq).hash

HashMatches(rows, r) == generateHash(r.data, PrecedingHash(rows, r), r.at) = r.hash

snapshotsMatch(r, live) == r.data = live[r.txn]

\* The order of the keys: S3 lists by name, and a name starts with the padded number
\* and goes on with the transaction's (not padded: numbers of one length).
Before(a, b) == a.seq < b.seq \/ (a.seq = b.seq /\ a.txn < b.txn)

\* listUserBackups: the first objects by key, as many as the budget allows.  A page holds
\* 1000 keys and so does the budget of both callers: there is no second page.
Listed(objects) == {b \in objects : Cardinality({o \in objects : Before(o, b)}) < ListingBudget}

\* getLatestUserBackup: the last of the listed objects, if there is one.
LatestBackup(objects) ==
    {b \in Listed(objects) : \A o \in Listed(objects) : o = b \/ Before(o, b)}

\* Mutant: the latest backup is held against every row.
AnchorOfAny(latest, r) == latest

\* The backup that r is compared with.
AnchorOf(latest, r) == {b \in latest : b.seq = r.seq}

Contradicts(b, r) == b.hash # r.hash \/ b.prev # r.prev \/ b.txn # r.txn

IsLast(rows, r) == \A q \in rows : q.seq <= r.seq

Reasons == {"hash_mismatch", "s3_backup_mismatch", "transaction_tampered", "missing_s3_backup"}

\* Why r is compromised, "none" if it is not.  A later check overrides the reason of
\* an earlier one, except that a row whose hash does not match is not checked further.
Reason(rows, r, latest, live) ==
    IF ~HashMatches(rows, r) THEN "hash_mismatch"
    ELSE IF \E b \in AnchorOf(latest, r) : Contradicts(b, r) THEN "s3_backup_mismatch"
    ELSE IF ~snapshotsMatch(r, live) THEN "transaction_tampered"
    ELSE IF latest = {} /\ IsLast(rows, r) THEN "missing_s3_backup"
    ELSE "none"

\* The rows an incident is opened for.
Compromised(rows, latest, live) ==
    {c \in {[seq |-> r.seq, reason |-> Reason(rows, r, latest, live)] : r \in rows} : c.reason # "none"}

-----------------------------------------------------------------------------
(* repairUserLedgerFromS3 *)

\* Mutant: the record of the corruption start itself is left out.
FromStartExclusive(history, start) == {b \in history : b.seq > start}

\* The records from findIndex(record.seq >= corruptionStartSeq) on.
FromStart(history, start) == {b \in history : b.seq >= start}

FirstRecord(records) == CHOOSE b \in records : \A o \in records : b.seq <= o.seq

LastRecord(records) == CHOOSE b \in records : \A o \in records : o.seq <= b.seq

\* assertContiguousHistory
Contiguous(records) ==
    /\ \A a, b \in records : a.seq = b.seq => a = b
    /\ \A b \in records : b = FirstRecord(records) \/ \E a \in records : b.seq = a.seq + 1

\* assertBoundaryLinksToTrustedChain
LinksToTrustedChain(log, first) ==
    \/ first.prev = Genesis
    \/ \E r \in log : r.seq = first.seq - 1 /\ r.hash = first.prev

RowsAt(log, n) == {r \in log : r.seq = n}

\* existingLog?.createdAt ?? record.createdAt
HashTime(log, b) == IF RowsAt(log, b.seq) = {} THEN b.at ELSE (CHOOSE r \in RowsAt(log, b.seq) : TRUE).at

\* The update of an existing row leaves its transactionId alone.
RestoredTxn(log, b) == IF RowsAt(log, b.seq) = {} THEN b.txn ELSE (CHOOSE r \in RowsAt(log, b.seq) : TRUE).txn

\* The upsert of b's row, its hash rebuilt.
RestoredRow(log, b) ==
    LET at == HashTime(log, b)
    IN [seq |-> b.seq, txn |-> RestoredTxn(log, b), data |-> b.data, prev |-> b.prev,
        hash |-> generateHash(b.data, b.prev, at), at |-> at]

RestoredLog(log, records) ==
    {r \in log : \A b \in records : b.seq # r.seq} \cup {RestoredRow(log, b) : b \in records}

\* The chain head of the last record.
RestoredHead(log, records) ==
    LET last == LastRecord(records)
    IN [seq |-> last.seq, hash |-> RestoredRow(log, last).hash]

\* The upserts of the Transaction rows.  They overwrite createdAt too, with S3's: nothing
\* modelled reads it, snapshotsMatch compares id, user, amount and description only.
RestoredLive(live, records) ==
    [t \in DOMAIN live |-> IF \E b \in records : b.txn = t
                           THEN (CHOOSE b \in records : b.txn = t).data ELSE live[t]]
=============================================================================
