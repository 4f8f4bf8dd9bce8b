--------------------------- MODULE AuditPipeline ---------------------------
(***************************************************************************)
(* The audit pipeline of GuardianShield.                                   *)
(*                                                                         *)
(* POST /api/transaction/create writes a Transaction row and an            *)
(* AuditOutbox row in one database transaction.  The outbox scheduler of   *)
(* every server process polls the PENDING rows, claims them (PROCESSING)   *)
(* and adds a job to the BullMQ queue "audit-queue".  The audit worker of  *)
(* every server process takes jobs, appends a row to the hash chain of the *)
(* user (SecurityLog, SecurityChainState), writes the row's backup to S3   *)
(* and marks the outbox row PROCESSED.                                     *)
(*                                                                         *)
(* A step of this module is the code between two awaits that reach the     *)
(* database, Redis or S3.  A server runs one publisher and one worker      *)
(* (concurrency: 1); they interleave freely, and so do the servers.        *)
(* Redis, S3 and the database survive a crash of a server.                 *)
(*                                                                         *)
(* A SHA-256 hash is modelled by what was hashed: the sequence of the      *)
(* <<transaction, timestamp>> pairs of the chain up to that row.  It is    *)
(* therefore free of collisions.  The HMAC of a row is a function of the   *)
(* fields kept here and is never read back: it is left out.                *)
(***************************************************************************)
EXTENDS Naturals, Sequences, FiniteSets

CONSTANTS Users,       \* the users that create transactions
          Servers,     \* the server processes (server.js)
          PollLimit,   \* POLL_LIMIT of the scheduler, 20 in the code
          Attempts,    \* attempts of an audit job, 3 in the code
          MaxTxns,     \* bound: transactions created
          MaxFaults,   \* bound: faults injected
          FaultKinds   \* the kinds of fault a run injects

AllFaultKinds == {"claim", "enqueue", "worker", "crash", "lock", "slow"}

ASSUME PipelineAssumption ==
    /\ PollLimit \in Nat \ {0}
    /\ Attempts \in Nat \ {0}
    /\ MaxTxns \in Nat
    /\ MaxFaults \in Nat
    /\ FaultKinds \subseteq AllFaultKinds
    /\ "none" \notin Servers

VARIABLES
    transactions, \* Transaction rows: transactions[t] is the userId of row t
    outbox,       \* outbox[t]: status of t's AuditOutbox row, and whether its
                  \* updatedAt is older than STUCK_PROCESSING_MS
    jobs,         \* every job ever added to audit-queue
    logs,         \* SecurityLog rows
    chain,        \* SecurityChainState: head of each user's chain
    backups,      \* S3 objects, one per <<user, seq, transaction>> key
    publisher,    \* per server: the outbox scheduler
    worker,       \* per server: the audit worker
    failing,      \* per server: "failed" handlers whose update is not done
    faults        \* the faults injected: how many (n), of which kinds

vars == <<transactions, outbox, jobs, logs, chain, backups,
          publisher, worker, failing, faults>>

-----------------------------------------------------------------------------
(* Data *)

Txns == 1 .. Len(transactions)

OutboxStatus == {"PENDING", "PROCESSING", "PROCESSED", "FAILED"}

\* Mutant: the status column is a plain string, and a write misspells it.
WrittenMisspelled(status) ==
    [status |-> IF status = "PROCESSED" THEN "COMPLETED" ELSE status, stale |-> FALSE]

\* A write to an outbox row: @updatedAt makes it fresh.
Written(status) == [status |-> status, stale |-> FALSE]

Genesis == <<>>

\* generateHash(auditData, previousHash, timestamp)
generateHash(t, prev, at) == Append(prev, <<t, at>>)

NoHead == [seq |-> 0, hash |-> Genesis]

NoRow == [user |-> "none", seq |-> 0, txn |-> 0,
          prev |-> Genesis, hash |-> Genesis, at |-> 0]

Worker(pc, k) == [pc |-> pc, job |-> k, head |-> NoHead, row |-> NoRow]

IdleWorker == Worker("idle", 0)

Publisher(pc) == [pc |-> pc, batch |-> {}, claimed |-> {}]

Unfinished == {"wait", "delayed", "active"}

Pending == {t \in Txns : outbox[t].status = "PENDING"}

\* findMany({orderBy: createdAt asc, take: POLL_LIMIT}): the oldest rows of S.
OldestFew(S) == {t \in S : Cardinality({u \in S : u < t}) < PollLimit}

\* Loops visit their rows in ascending order.
IsOldest(t, S) == t \in S /\ \A u \in S : t <= u

Alive(s) == publisher[s].pc # "down"

\* A fault of the given kind happens in this step.
Fault(kind) == /\ kind \in FaultKinds
               /\ faults.n < MaxFaults
               /\ faults' = [n |-> faults.n + 1, kinds |-> faults.kinds \cup {kind}]

-----------------------------------------------------------------------------
(* Who is still going to deal with the claimed row t *)

HasUnfinishedJob(t) == \E k \in DOMAIN jobs : jobs[k].txn = t /\ jobs[k].state \in Unfinished

IsHeld(t) == \E s \in Servers : t \in publisher[s].claimed \cup failing[s]

HasCarrier(t) == HasUnfinishedJob(t) \/ IsHeld(t)

-----------------------------------------------------------------------------
Init ==
    /\ transactions = <<>>
    /\ outbox = <<>>
    /\ jobs = <<>>
    /\ logs = {}
    /\ chain = [u \in Users |-> NoHead]
    /\ backups = {}
    /\ publisher = [s \in Servers |-> Publisher("down")]
    /\ worker = [s \in Servers |-> IdleWorker]
    /\ failing = [s \in Servers |-> {}]
    /\ faults = [n |-> 0, kinds |-> {}]

\* createTransaction: both rows in one database transaction.
createTransaction(u) ==
    /\ Len(transactions) < MaxTxns
    /\ transactions' = Append(transactions, u)
    /\ outbox' = Append(outbox, Written("PENDING"))
    /\ UNCHANGED <<jobs, logs, chain, backups, publisher, worker, failing, faults>>

-----------------------------------------------------------------------------
(* The outbox scheduler *)

\* startServer: the workers run from here on, the scheduler is being started.
Boot(s) ==
    /\ publisher[s].pc = "down"
    /\ publisher' = [publisher EXCEPT ![s] = Publisher("starting")]
    /\ UNCHANGED <<transactions, outbox, jobs, logs, chain, backups, worker, failing, faults>>

\* start -> resetStuckProcessingEvents, the only place it is called from.
resetStuckProcessingEvents(s) ==
    /\ publisher[s].pc = "starting"
    /\ outbox' = [t \in Txns |-> IF outbox[t] = [status |-> "PROCESSING", stale |-> TRUE]
                                 THEN Written("PENDING") ELSE outbox[t]]
    /\ publisher' = [publisher EXCEPT ![s] = Publisher("idle")]
    /\ UNCHANGED <<transactions, jobs, logs, chain, backups, worker, failing, faults>>

\* STUCK_PROCESSING_MS go by.  It is a fault when somebody still works on the row.
BecomeStale(t) ==
    /\ outbox[t] = Written("PROCESSING")
    /\ \/ ~HasCarrier(t) /\ UNCHANGED faults
       \/ HasCarrier(t) /\ Fault("slow")
    /\ outbox' = [outbox EXCEPT ![t] = [@ EXCEPT !.stale = TRUE]]
    /\ UNCHANGED <<transactions, jobs, logs, chain, backups, publisher, worker, failing>>

\* tick -> claimNextBatch: findMany.  isRunning is pc # "idle".
findCandidates(s) ==
    /\ publisher[s].pc = "idle"
    /\ Pending # {}
    /\ publisher' = [publisher EXCEPT ![s] = [Publisher("claim") EXCEPT !.batch = OldestFew(Pending)]]
    /\ UNCHANGED <<transactions, outbox, jobs, logs, chain, backups, worker, failing, faults>>

\* The scheduler goes on with its batch, then with what it claimed.
Continue(batch, claimed) ==
    [pc      |-> IF batch # {} THEN "claim" ELSE IF claimed # {} THEN "publish" ELSE "idle",
     batch   |-> batch,
     claimed |-> claimed]

\* Mutant: the update's where clause names the id alone.
MayClaimAny(t) == TRUE

\* updateMany({where: {id, status: "PENDING"}, data: {status: "PROCESSING"}})
MayClaim(t) == outbox[t].status = "PENDING"

claimEvent(s) ==
    /\ publisher[s].pc = "claim"
    /\ \E t \in publisher[s].batch :
         /\ IsOldest(t, publisher[s].batch)
         /\ LET rest == publisher[s].batch \ {t}
                mine == publisher[s].claimed
            IN \/ /\ MayClaim(t)
                  /\ outbox' = [outbox EXCEPT ![t] = Written("PROCESSING")]
                  /\ publisher' = [publisher EXCEPT ![s] = Continue(rest, mine \cup {t})]
               \/ /\ ~MayClaim(t)
                  /\ publisher' = [publisher EXCEPT ![s] = Continue(rest, mine)]
                  /\ UNCHANGED outbox
    /\ UNCHANGED <<transactions, jobs, logs, chain, backups, worker, failing, faults>>

\* The update throws: tick's catch ends the cycle and drops the claimed rows.
\* Whether the update was applied is unknown.
claimFails(s) ==
    /\ publisher[s].pc = "claim"
    /\ Fault("claim")
    /\ \E t \in publisher[s].batch :
         /\ IsOldest(t, publisher[s].batch)
         /\ \/ UNCHANGED outbox
            \/ /\ MayClaim(t)
               /\ outbox' = [outbox EXCEPT ![t] = Written("PROCESSING")]
    /\ publisher' = [publisher EXCEPT ![s] = Publisher("idle")]
    /\ UNCHANGED <<transactions, jobs, logs, chain, backups, worker, failing>>

NewJob(t) == [txn |-> t, state |-> "wait", made |-> 0, stalls |-> 0, by |-> "none"]

\* publishPendingEvents: auditQueue.add.
enqueueEvent(s) ==
    /\ publisher[s].pc = "publish"
    /\ \E t \in publisher[s].claimed :
         /\ IsOldest(t, publisher[s].claimed)
         /\ jobs' = Append(jobs, NewJob(t))
         /\ publisher' = [publisher EXCEPT ![s] = Continue({}, @.claimed \ {t})]
    /\ UNCHANGED <<transactions, outbox, logs, chain, backups, worker, failing, faults>>

\* auditQueue.add throws; the job may nevertheless be in the queue.
enqueueFails(s) ==
    /\ publisher[s].pc = "publish"
    /\ Fault("enqueue")
    /\ \E t \in publisher[s].claimed :
         /\ IsOldest(t, publisher[s].claimed)
         /\ \/ UNCHANGED jobs
            \/ jobs' = Append(jobs, NewJob(t))
    /\ publisher' = [publisher EXCEPT ![s].pc = "rollback"]
    /\ UNCHANGED <<transactions, outbox, logs, chain, backups, worker, failing>>

\* catch: the row goes back to PENDING, whatever its status is by now.
rollbackClaim(s) ==
    /\ publisher[s].pc = "rollback"
    /\ \E t \in publisher[s].claimed :
         /\ IsOldest(t, publisher[s].claimed)
         /\ outbox' = [outbox EXCEPT ![t] = Written("PENDING")]
         /\ publisher' = [publisher EXCEPT ![s] = Continue({}, @.claimed \ {t})]
    /\ UNCHANGED <<transactions, jobs, logs, chain, backups, worker, failing, faults>>

\* The rollback throws as well: tick's catch drops the remaining claimed rows.
rollbackFails(s) ==
    /\ publisher[s].pc = "rollback"
    /\ Fault("claim")
    /\ publisher' = [publisher EXCEPT ![s] = Publisher("idle")]
    /\ UNCHANGED <<transactions, outbox, jobs, logs, chain, backups, worker, failing>>

-----------------------------------------------------------------------------
(* The audit worker *)

JobTxn(s) == jobs[worker[s].job].txn

JobUser(s) == transactions[JobTxn(s)]

\* BullMQ hands a waiting job to an idle worker.  Delayed retries return to the
\* queue at any time, so no order among the waiting jobs is assumed.
takeJob(s) ==
    /\ Alive(s)
    /\ worker[s].pc = "idle"
    /\ \E k \in DOMAIN jobs :
         /\ jobs[k].state = "wait"
         /\ jobs' = [jobs EXCEPT ![k] = [@ EXCEPT !.state = "active", !.by = s]]
         /\ worker' = [worker EXCEPT ![s] = Worker("check", k)]
    /\ UNCHANGED <<transactions, outbox, logs, chain, backups, publisher, failing, faults>>

\* Mutant: no idempotency check.
LogsOfIgnored(t) == {}

\* processEvent: securityLog.findFirst({where: {transactionId}}).
LogsOf(t) == {r \in logs : r.txn = t}

\* Mutant: an already logged transaction goes straight to the outbox update.
AfterExistingLogSkip == "mark"

\* The backup is written again when the database write is skipped.
AfterExistingLog == "backup"

checkExistingLog(s) ==
    /\ worker[s].pc = "check"
    /\ \/ /\ LogsOf(JobTxn(s)) = {}
          /\ worker' = [worker EXCEPT ![s].pc = "begin"]
       \/ \E r \in LogsOf(JobTxn(s)) :
            worker' = [worker EXCEPT ![s].pc = AfterExistingLog, ![s].row = r]
    /\ UNCHANGED <<transactions, outbox, jobs, logs, chain, backups, publisher, failing, faults>>

\* $transaction: read the head of the chain.  A head that does not exist yet is
\* created here with sequence 0; the creation commits with the rest.
readChainState(s) ==
    /\ worker[s].pc = "begin"
    /\ worker' = [worker EXCEPT ![s].pc = "commit", ![s].head = chain[JobUser(s)]]
    /\ UNCHANGED <<transactions, outbox, jobs, logs, chain, backups, publisher, failing, faults>>

\* previousHash of the row to be appended after head.
PreviousHash(head) == IF head.seq = 0 THEN Genesis ELSE head.hash

\* now: the time of this attempt, never that of the transaction (0).
Now(s) == jobs[worker[s].job].made + 1

NewRow(s) ==
    LET head == worker[s].head
        prev == PreviousHash(head)
    IN [user |-> JobUser(s), seq |-> head.seq + 1, txn |-> JobTxn(s), prev |-> prev,
        hash |-> generateHash(JobTxn(s), prev, Now(s)), at |-> Now(s)]

\* Mutant: the unique constraint is missing.
SeqTakenUnchecked(u, n) == FALSE

\* @@unique([userId, sequenceNumber])
SeqTaken(u, n) == \E r \in logs : r.user = u /\ r.seq = n

\* The inserts and updates of the database transaction, at its commit.
AppendRow(s) ==
    LET r == NewRow(s)
    IN /\ ~SeqTaken(r.user, r.seq)
       /\ logs' = logs \cup {r}
       /\ chain' = [chain EXCEPT ![r.user] = [seq |-> r.seq, hash |-> r.hash]]

commitRow(s) ==
    /\ worker[s].pc = "commit"
    /\ AppendRow(s)
    /\ worker' = [worker EXCEPT ![s].pc = "backup", ![s].row = NewRow(s)]
    /\ UNCHANGED <<transactions, outbox, jobs, backups, publisher, failing, faults>>

\* writeTransactionBackup: the object of a key is overwritten.
SameKey(a, b) == a.user = b.user /\ a.seq = b.seq /\ a.txn = b.txn

\* Mutant: the backup carries the transaction's own createdAt (0).
buildBackupPayloadOfPayload(row) == [row EXCEPT !.at = 0]

buildBackupPayload(row) == row

PutBackup(s) ==
    LET b == buildBackupPayload(worker[s].row)
    IN backups' = {o \in backups : ~SameKey(o, b)} \cup {b}

writeTransactionBackup(s) ==
    /\ worker[s].pc = "backup"
    /\ PutBackup(s)
    /\ worker' = [worker EXCEPT ![s].pc = "mark"]
    /\ UNCHANGED <<transactions, outbox, jobs, logs, chain, publisher, failing, faults>>

MarkProcessed(s) == outbox' = [outbox EXCEPT ![JobTxn(s)] = Written("PROCESSED")]

markProcessed(s) ==
    /\ worker[s].pc = "mark"
    /\ MarkProcessed(s)
    /\ worker' = [worker EXCEPT ![s].pc = "finish"]
    /\ UNCHANGED <<transactions, jobs, logs, chain, backups, publisher, failing, faults>>

HoldsLock(s) == LET j == jobs[worker[s].job] IN j.state = "active" /\ j.by = s

\* The handler returns.  BullMQ ignores the result of a worker that lost the job.
finishJob(s) ==
    /\ worker[s].pc = "finish"
    /\ worker' = [worker EXCEPT ![s] = IdleWorker]
    /\ IF HoldsLock(s)
       THEN jobs' = [jobs EXCEPT ![worker[s].job] = [@ EXCEPT !.state = "completed", !.by = "none"]]
       ELSE UNCHANGED jobs
    /\ UNCHANGED <<transactions, outbox, logs, chain, backups, publisher, failing, faults>>

-----------------------------------------------------------------------------
(* Failure of a job *)

\* attemptsLeft of the "failed" handler.  BullMQ has already counted the failed
\* attempt in attemptsMade when it emits the event.
NoAttemptsLeft(made) == made + 1 >= Attempts

\* Mutant: the queue has no default attempts.
RetriesNever(made) == FALSE

\* defaultJobOptions.attempts: a job that has failed "made" times is tried again.
Retries(made) == made < Attempts

\* Job k fails for good or is retried after its backoff; the "failed" event is
\* handled on server s.
FailJob(k, s, retry) ==
    LET made == jobs[k].made + 1
    IN /\ jobs' = [jobs EXCEPT ![k] =
              [@ EXCEPT !.state = IF retry /\ Retries(made) THEN "delayed" ELSE "failed",
                        !.made = made, !.by = "none"]]
       /\ failing' = [failing EXCEPT ![s] = IF NoAttemptsLeft(made) THEN @ \cup {jobs[k].txn} ELSE @]

HandlerThrows(s) ==
    /\ worker' = [worker EXCEPT ![s] = IdleWorker]
    /\ IF HoldsLock(s) THEN FailJob(worker[s].job, s, TRUE) ELSE UNCHANGED <<jobs, failing>>
    /\ UNCHANGED <<transactions, publisher>>

\* Another worker has taken the sequence number: the insert violates the unique
\* constraint and the database transaction is rolled back.
commitConflicts(s) ==
    /\ worker[s].pc = "commit"
    /\ SeqTaken(JobUser(s), worker[s].head.seq + 1)
    /\ HandlerThrows(s)
    /\ UNCHANGED <<outbox, logs, chain, backups, faults>>

\* A call to the database or S3 throws.  It may have been applied.
workerCallFails(s) ==
    /\ worker[s].pc \in {"check", "begin", "commit", "backup", "mark"}
    /\ Fault("worker")
    /\ HandlerThrows(s)
    /\ \/ UNCHANGED <<outbox, logs, chain, backups>>
       \/ worker[s].pc = "commit" /\ AppendRow(s) /\ UNCHANGED <<outbox, backups>>
       \/ worker[s].pc = "backup" /\ PutBackup(s) /\ UNCHANGED <<outbox, logs, chain>>
       \/ worker[s].pc = "mark" /\ MarkProcessed(s) /\ UNCHANGED <<logs, chain, backups>>

\* The update of the "failed" handler.
markFailed(s) ==
    /\ \E t \in failing[s] :
         /\ failing' = [failing EXCEPT ![s] = @ \ {t}]
         /\ outbox' = [outbox EXCEPT ![t] = Written("FAILED")]
    /\ UNCHANGED <<transactions, jobs, logs, chain, backups, publisher, worker, faults>>

\* BullMQ: the backoff of a retried job is over.
promoteDelayed(k) ==
    /\ jobs[k].state = "delayed"
    /\ jobs' = [jobs EXCEPT ![k] = [@ EXCEPT !.state = "wait"]]
    /\ UNCHANGED <<transactions, outbox, logs, chain, backups, publisher, worker, failing, faults>>

\* The worker that took the active job k is still at it.
IsWorkedOn(k) == jobs[k].state = "active" /\ worker[jobs[k].by].job = k

\* BullMQ: the lock of an active job expired, because its server crashed or (a
\* fault) while its worker is still at it.  A live server s returns the job to
\* the queue once; the second time the job fails without a retry.
stalledJob(k, s) ==
    /\ jobs[k].state = "active"
    /\ Alive(s)
    /\ IF IsWorkedOn(k) THEN Fault("lock") ELSE UNCHANGED faults
    /\ IF jobs[k].stalls = 0
       THEN /\ jobs' = [jobs EXCEPT ![k] = [@ EXCEPT !.state = "wait", !.stalls = 1, !.by = "none"]]
            /\ UNCHANGED failing
       ELSE FailJob(k, s, FALSE)
    /\ UNCHANGED <<transactions, outbox, logs, chain, backups, publisher, worker>>

\* A server process dies, or is shut down, between any two steps.
crash(s) ==
    /\ Alive(s)
    /\ Fault("crash")
    /\ publisher' = [publisher EXCEPT ![s] = Publisher("down")]
    /\ worker' = [worker EXCEPT ![s] = IdleWorker]
    /\ failing' = [failing EXCEPT ![s] = {}]
    /\ UNCHANGED <<transactions, outbox, jobs, logs, chain, backups>>

-----------------------------------------------------------------------------
\* What a running server does by itself.
PublisherStep(s) ==
    \/ resetStuckProcessingEvents(s) \/ findCandidates(s) \/ claimEvent(s)
    \/ enqueueEvent(s) \/ rollbackClaim(s)

WorkerStep(s) ==
    \/ takeJob(s) \/ checkExistingLog(s) \/ readChainState(s) \/ commitRow(s)
    \/ commitConflicts(s) \/ writeTransactionBackup(s) \/ markProcessed(s) \/ finishJob(s)

QueueStep(k) == promoteDelayed(k) \/ \E s \in Servers : stalledJob(k, s)

FaultStep(s) ==
    claimFails(s) \/ enqueueFails(s) \/ rollbackFails(s) \/ workerCallFails(s) \/ crash(s)

Next ==
    \/ \E u \in Users : createTransaction(u)
    \/ \E s \in Servers : Boot(s) \/ PublisherStep(s) \/ WorkerStep(s) \/ markFailed(s) \/ FaultStep(s)
    \/ \E k \in DOMAIN jobs : QueueStep(k)
    \/ \E t \in Txns : BecomeStale(t)

Spec == Init /\ [][Next]_vars

\* The event loop of a live server, the clock and Redis make progress; a server
\* that is down is started again.  Requests and faults are never forced.
Fairness ==
    /\ \A s \in Servers : /\ WF_vars(Boot(s))
                          /\ WF_vars(PublisherStep(s))
                          /\ WF_vars(WorkerStep(s))
                          /\ WF_vars(markFailed(s))
    /\ WF_vars(\E k \in DOMAIN jobs : promoteDelayed(k))
    /\ WF_vars(\E k \in DOMAIN jobs, s \in Servers : ~IsWorkedOn(k) /\ stalledJob(k, s))
    /\ WF_vars(\E t \in Txns : ~HasCarrier(t) /\ BecomeStale(t))

FairSpec == Spec /\ Fairness

-----------------------------------------------------------------------------
(* Types *)

Hash == Seq(Nat \X Nat)
Row  == [user : Users, seq : Nat, txn : Txns, prev : Hash, hash : Hash, at : Nat]
ChainHead == [seq : Nat, hash : Hash]
Job  == [txn : Txns, state : Unfinished \cup {"completed", "failed"},
         made : Nat, stalls : Nat, by : Servers \cup {"none"}]

OutboxRow == [status : OutboxStatus, stale : BOOLEAN]

PublisherPcs == {"down", "starting", "idle", "claim", "publish", "rollback"}
WorkerPcs    == {"idle", "check", "begin", "commit", "backup", "mark", "finish"}

PublisherState == [pc : PublisherPcs, batch : SUBSET Txns, claimed : SUBSET Txns]
WorkerState    == [pc : WorkerPcs, job : 0 .. Len(jobs), head : ChainHead, row : Row \cup {NoRow}]

\* The variables hold what their declarations say.
TypeOK ==
    /\ transactions \in Seq(Users)
    /\ outbox \in Seq(OutboxRow)
    /\ Len(outbox) = Len(transactions)
    /\ jobs \in Seq(Job)
    /\ logs \subseteq Row
    /\ chain \in [Users -> ChainHead]
    /\ backups \subseteq Row
    /\ publisher \in [Servers -> PublisherState]
    /\ worker \in [Servers -> WorkerState]
    /\ \A s \in Servers : worker[s].pc # "idle" => worker[s].job # 0
    /\ failing \in [Servers -> SUBSET Txns]
    /\ faults \in [n : 0 .. MaxFaults, kinds : SUBSET FaultKinds]

-----------------------------------------------------------------------------
(* The hash chain: what verifyHashchain.js and repairService.js rely on *)

\* A sequence number lies between 1 and that of the user's chain head, and its
\* row belongs to a transaction of that user.
SeqWithinHead ==
    \A r \in logs : /\ r.seq \in 1 .. chain[r.user].seq
                    /\ transactions[r.txn] = r.user

\* No two rows of a user share a sequence number.
OneRowPerSeq == \A r, q \in logs : r.user = q.user /\ r.seq = q.seq => r = q

\* Every number up to the head's has a row.
NoSeqGap == \A u \in Users : \A n \in 1 .. chain[u].seq : \E r \in logs : r.user = u /\ r.seq = n

\* Each row reproduces its hash from its own fields, as the verifier recomputes it.
Replays(r) == r.hash = generateHash(r.txn, r.prev, r.at)

\* Each row's previous hash is the hash of the row before it.
LinksPrevious ==
    /\ \A r \in logs : r.seq = 1 => r.prev = Genesis
    /\ \A r, q \in logs : q.user = r.user /\ q.seq = r.seq + 1 => q.prev = r.hash

\* The head carries the hash of the last row.
HeadIsLastRow == \A r \in logs : r.seq = chain[r.user].seq => r.hash = chain[r.user].hash

\* The SecurityLog rows of every user form one unbroken, replayable chain ending
\* in SecurityChainState, whatever servers, workers and retries interleave.
ChainLinked ==
    /\ SeqWithinHead
    /\ OneRowPerSeq
    /\ NoSeqGap
    /\ \A r \in logs : Replays(r)
    /\ LinksPrevious
    /\ HeadIsLastRow

\* What the auditWorker.js comments at 59-64 and 195-203 promise of the S3 objects:
\* each one repeats the SecurityLog row of its sequence number, hash time included,
\* so that its hash can be recomputed from it, on the retry paths too.  repairService.js
\* says the opposite at 336-341: S3's createdAt "is NOT the same timestamp that was
\* actually hashed" and "can never reproduce a matching hash".  That comment is out of
\* date: auditWorker.js:204-219 writes the time that was hashed.
BackupRepeatsLog == \A b \in backups : Replays(b) /\ \E r \in logs : r = b

\* An outbox row reads PROCESSED only when its transaction has a SecurityLog row
\* and that row's backup is in S3: a row whose step failed half-way is not lost.
ProcessedIsDurable ==
    \A t \in Txns : outbox[t].status = "PROCESSED" => \E b \in backups \cap logs : b.txn = t

\* No transaction has two SecurityLog rows.  One worker guarantees it through
\* crashes, stalls and duplicate jobs (idempotency check of processEvent).
AuditedOnce == \A r, q \in logs : r.txn = q.txn => r = q

-----------------------------------------------------------------------------
(* Claims *)

\* No kind of fault but these has happened.
Only(kinds) == faults.kinds \subseteq kinds

\* A claimed row is always in somebody's hands: a publisher that will enqueue it or
\* put it back, a job, or a "failed" handler.  A crash, a failed claim and a stalled
\* job break it, and only resetStuckProcessingEvents repairs it.
ClaimHasCarrier ==
    Only({"enqueue", "worker", "slow"}) =>
        \A t \in Txns : outbox[t].status = "PROCESSING" => HasCarrier(t)

Owners(t) == Cardinality({s \in Servers : t \in publisher[s].claimed})
             + Cardinality({k \in DOMAIN jobs : jobs[k].txn = t /\ jobs[k].state \in Unfinished})

\* "ATOMIC CLAIM (Prevents race conditions)": a row is owned by at most one publisher
\* or unfinished job, and by none while it is PENDING.  Only an add whose answer is
\* lost and a reset of a row that is still worked on break it.
ClaimExclusive ==
    Only({"claim", "worker", "crash", "lock"}) =>
        \A t \in Txns : /\ Owners(t) <= 1
                        /\ outbox[t].status = "PENDING" => Owners(t) = 0

\* With one server a row that is PROCESSED is never picked up again, whatever crashes,
\* expired locks and resets happen between the poll of a row and its claim.  The rollback
\* of a failed add and the late update of the "failed" handler break it, and that handler
\* runs without any fault once two servers race for sequence numbers.
ProcessedIsFinal ==
    [][Only({"claim", "crash", "lock", "slow"})' =>
        \A t \in Txns : outbox[t].status = "PROCESSED" => outbox'[t].status = "PROCESSED"]_vars

-----------------------------------------------------------------------------
(* Liveness *)

StatusIs(t, status) == t \in Txns /\ outbox[t].status = status

\* A committed transaction reaches the hash chain and S3.
EventuallyAudited ==
    \A t \in 1 .. MaxTxns : t \in Txns ~> \E b \in backups \cap logs : b.txn = t

\* "RECOVERY MECHANISM (Self-healing system)" (outboxSchedule.js:82): a row does not
\* stay PROCESSING forever.
ClaimsHeal == \A t \in 1 .. MaxTxns : StatusIs(t, "PROCESSING") ~> ~StatusIs(t, "PROCESSING")

\* "Permanently failed" (auditWorker.js:272): no attempt is left for a FAILED row.
FailedIsPermanent == \A t \in Txns : outbox[t].status = "FAILED" => ~HasUnfinishedJob(t)

-----------------------------------------------------------------------------
(* What the pipeline implements *)

TxnAt(u, n) == (CHOOSE r \in logs : r.user = u /\ r.seq = n).txn

Trail == INSTANCE AuditTrail WITH
    submitted <- transactions,
    trail     <- [u \in Users |-> [n \in 1 .. chain[u].seq |-> TxnAt(u, n)]],
    archived  <- {b.txn : b \in backups}

\* With one server the pipeline is an append-only audit trail, see AuditTrail.
ImplementsTrail == Trail!Spec
=============================================================================
