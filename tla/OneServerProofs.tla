-------------------------- MODULE OneServerProofs --------------------------
(***************************************************************************)
(* What one server process guarantees and several do not.  It audits every *)
(* transaction at most once, what it does is an append-only trail, and a   *)
(* row that it has marked PROCESSED keeps that status.  With two servers   *)
(* two workers may hold jobs of one transaction, both find no row, and     *)
(* append one each; and a job that loses a sequence number twice leaves a  *)
(* "failed" handler behind, whose update may follow the third attempt.     *)
(***************************************************************************)
EXTENDS ClaimProofs

OneServer == \A a, b \in Servers : a = b

\* Between the idempotency check and the commit no row of the transaction appears.
ChecksHold ==
  \A s \in Servers : worker[s].pc \in {"begin", "commit"} => LogsOf(JobTxn(s)) = {}

OnceInv == OneServer /\ AuditedOnce /\ ChecksHold

-----------------------------------------------------------------------------
(* The steps, by what they do to the trail *)

\* Worker s is as it was, or neither about to read the chain nor to append to it.
Settled(s) == worker'[s] = worker[s] \/ worker'[s].pc \notin {"begin", "commit"}

\* Server s appends a row, whatever becomes of its job.
Adds(s) ==
  /\ worker[s].pc = "commit" /\ AppendRow(s)
  /\ UNCHANGED <<transactions, backups>>
  /\ JobsKept
  /\ worker'[s].pc \notin {"begin", "commit"}

\* Server s writes a backup, whatever becomes of its job.
Puts(s) ==
  /\ worker[s].pc = "backup" /\ PutBackup(s)
  /\ UNCHANGED <<transactions, logs, chain>>
  /\ JobsKept
  /\ \A q \in Servers : Settled(q)

Rests ==
  /\ UNCHANGED <<transactions, logs, chain, backups>>
  /\ JobsKept
  /\ \A q \in Servers : Settled(q)

\* A worker that is kept, or dropped, is settled.
LEMMA KeptSettled == \A s \in Servers : WorkerKept(s) => Settled(s)
  BY DEF WorkerKept, Settled

\* The steps of the outbox scheduler do not touch the trail.
LEMMA PublisherRests == ASSUME IInv, NEW s \in Servers, PublisherStep(s) PROVE Rests
  <1>1. UNCHANGED <<transactions, logs, chain, backups, worker>>
    BY DEF PublisherStep, resetStuckProcessingEvents, findCandidates, claimEvent, enqueueEvent, rollbackClaim
  <1>2. JobsKept
    <2>1. CASE enqueueEvent(s)
      <3>1. PICK t \in publisher[s].claimed : jobs' = Append(jobs, NewJob(t))
        BY <2>1 DEF enqueueEvent
      <3>2. t \in Txns
        BY DEF IInv, TypeOK, PublisherState
      <3>3. QED
        BY <3>1, <3>2, AddedJob DEF IInv
    <2>2. CASE UNCHANGED jobs
      BY <2>2, SameJobs
    <2>3. QED
      BY <2>1, <2>2 DEF PublisherStep, resetStuckProcessingEvents, findCandidates, claimEvent, rollbackClaim
  <1>3. QED
    BY <1>1, <1>2 DEF Rests, Settled

\* Neither does the queue.
LEMMA QueueRests == ASSUME IInv, NEW k \in DOMAIN jobs, QueueStep(k) PROVE Rests
  <1>1. UNCHANGED <<transactions, logs, chain, backups, worker>>
    BY DEF QueueStep, promoteDelayed, stalledJob
  <1>2. jobs[k] \in Job
    BY LenProperties, ElementOfSeq DEF IInv, TypeOK
  <1>3. JobsKept
    <2>1. CASE promoteDelayed(k)
      <3>1. /\ [jobs[k] EXCEPT !.state = "wait"] \in Job
            /\ [jobs[k] EXCEPT !.state = "wait"].txn = jobs[k].txn
        BY <1>2 DEF Job, Unfinished
      <3>2. QED
        BY <2>1, <3>1, UpdatedJob DEF promoteDelayed, IInv
    <2>2. ASSUME NEW s \in Servers, stalledJob(k, s) PROVE JobsKept
      <3>1. /\ [jobs[k] EXCEPT !.state = "wait", !.stalls = 1, !.by = "none"] \in Job
            /\ [jobs[k] EXCEPT !.state = "wait", !.stalls = 1, !.by = "none"].txn = jobs[k].txn
        BY <1>2 DEF Job, Unfinished
      <3>2. CASE jobs[k].stalls = 0
        BY <2>2, <3>1, <3>2, UpdatedJob DEF stalledJob, IInv
      <3>3. CASE jobs[k].stalls # 0
        BY <2>2, <3>3, FailedJob DEF stalledJob, IInv
      <3>4. QED
        BY <3>2, <3>3
    <2>3. QED
      BY <2>1, <2>2 DEF QueueStep
  <1>4. QED
    BY <1>1, <1>3 DEF Rests, Settled

\* What a worker does, apart from its check and its read of the chain head.
LEMMA WorkerKinds ==
  ASSUME IInv, NEW s \in Servers, WorkerStep(s)
  PROVE  checkExistingLog(s) \/ readChainState(s) \/ Adds(s) \/ Puts(s) \/ Rests
  <1>1. ASSUME takeJob(s) PROVE Rests
    <2>1. PICK k \in DOMAIN jobs :
            /\ jobs' = [jobs EXCEPT ![k] = [jobs[k] EXCEPT !.state = "active", !.by = s]]
            /\ worker' = [worker EXCEPT ![s] = Worker("check", k)]
      BY <1>1 DEF takeJob
    <2>2. jobs[k] \in Job
      BY LenProperties, ElementOfSeq DEF IInv, TypeOK
    <2>3. /\ [jobs[k] EXCEPT !.state = "active", !.by = s] \in Job
          /\ [jobs[k] EXCEPT !.state = "active", !.by = s].txn = jobs[k].txn
      BY <2>2 DEF Job, Unfinished
    <2>4. JobsKept
      BY <2>1, <2>3, UpdatedJob DEF IInv
    <2>5. \A q \in Servers : Settled(q)
      BY <2>1 DEF Settled, Worker, IInv, TypeOK
    <2>6. QED
      BY <1>1, <2>4, <2>5 DEF Rests, takeJob
  <1>2. ASSUME commitRow(s) PROVE Adds(s)
    <2>1. worker'[s].pc = "backup"
      BY <1>2 DEF commitRow, IInv, TypeOK, WorkerState
    <2>2. QED
      BY <1>2, <2>1, SameJobs DEF Adds, commitRow
  <1>3. ASSUME commitConflicts(s) PROVE Rests
    <2>1. worker[s].pc # "idle" /\ HandlerThrows(s) /\ UNCHANGED <<transactions, logs, chain, backups>>
      BY <1>3 DEF commitConflicts, HandlerThrows
    <2>2. QED
      BY <2>1, ThrowKeeps, KeptSettled DEF Rests
  <1>4. ASSUME writeTransactionBackup(s) PROVE Puts(s)
    <2>1. \A q \in Servers : Settled(q)
      BY <1>4 DEF writeTransactionBackup, Settled, IInv, TypeOK, WorkerState
    <2>2. QED
      BY <1>4, <2>1, SameJobs DEF Puts, writeTransactionBackup
  <1>5. ASSUME markProcessed(s) PROVE Rests
    <2>1. \A q \in Servers : Settled(q)
      BY <1>5 DEF markProcessed, Settled, IInv, TypeOK, WorkerState
    <2>2. QED
      BY <1>5, <2>1, SameJobs DEF Rests, markProcessed
  <1>6. ASSUME finishJob(s) PROVE Rests
    <2>1. worker[s].job \in DOMAIN jobs /\ jobs[worker[s].job] \in Job
      BY <1>6, BusyWorker DEF finishJob, IInv
    <2>2. /\ [jobs[worker[s].job] EXCEPT !.state = "completed", !.by = "none"] \in Job
          /\ [jobs[worker[s].job] EXCEPT !.state = "completed", !.by = "none"].txn
                = jobs[worker[s].job].txn
      BY <2>1 DEF Job
    <2>3. JobsKept
      BY <1>6, <2>1, <2>2, UpdatedJob, SameJobs DEF finishJob, IInv
    <2>4. \A q \in Servers : Settled(q)
      BY <1>6 DEF Settled, finishJob, IInv, TypeOK, IdleWorker, Worker
    <2>5. QED
      BY <1>6, <2>3, <2>4 DEF Rests, finishJob
  <1>7. QED
    BY <1>1, <1>2, <1>3, <1>4, <1>5, <1>6 DEF WorkerStep

\* Faults lose no row and no backup; a call that throws may have written one.
LEMMA FaultStepKinds ==
  ASSUME IInv, NEW s \in Servers, FaultStep(s) PROVE Adds(s) \/ Puts(s) \/ Rests
  <1>1. ASSUME claimFails(s) \/ rollbackFails(s) PROVE Rests
    BY <1>1, SameJobs DEF claimFails, rollbackFails, Rests, Settled
  <1>2. ASSUME enqueueFails(s) PROVE Rests
    <2>1. PICK t \in publisher[s].claimed : UNCHANGED jobs \/ jobs' = Append(jobs, NewJob(t))
      BY <1>2 DEF enqueueFails
    <2>2. t \in Txns
      BY DEF IInv, TypeOK, PublisherState
    <2>3. JobsKept
      BY <2>1, <2>2, AddedJob, SameJobs DEF IInv
    <2>4. QED
      BY <1>2, <2>3 DEF Rests, Settled, enqueueFails
  <1>3. ASSUME crash(s) PROVE Rests
    <2>1. \A q \in Servers : Settled(q)
      BY <1>3 DEF Settled, crash, IInv, TypeOK, IdleWorker, Worker
    <2>2. QED
      BY <1>3, <2>1, SameJobs DEF Rests, crash
  <1>4. ASSUME workerCallFails(s) PROVE Adds(s) \/ Puts(s) \/ Rests
    <2>1. worker[s].pc # "idle" /\ HandlerThrows(s) /\ UNCHANGED transactions
      BY <1>4 DEF workerCallFails, HandlerThrows
    <2>2. JobsKept /\ \A q \in Servers : Settled(q)
      BY <2>1, ThrowKeeps, KeptSettled
    <2>3. worker'[s].pc = "idle"
      BY <2>1 DEF HandlerThrows, IInv, TypeOK, IdleWorker, Worker
    <2>4. QED
      BY <1>4, <2>1, <2>2, <2>3 DEF workerCallFails, Adds, Puts, Rests
  <1>5. QED
    BY <1>1, <1>2, <1>3, <1>4 DEF FaultStep

\* Every step is one of six kinds.
LEMMA StepKinds ==
  ASSUME IInv, [Next]_vars
  PROVE  \/ \E u \in Users : createTransaction(u)
         \/ \E s \in Servers : checkExistingLog(s) \/ readChainState(s) \/ Adds(s) \/ Puts(s)
         \/ Rests
  <1>1. ASSUME NEW s \in Servers, Boot(s) \/ markFailed(s) PROVE Rests
    BY <1>1, SameJobs DEF Boot, markFailed, Rests, Settled
  <1>2. ASSUME NEW t \in Txns, BecomeStale(t) PROVE Rests
    BY <1>2, SameJobs DEF BecomeStale, Rests, Settled
  <1>3. ASSUME UNCHANGED vars PROVE Rests
    BY <1>3, SameJobs DEF vars, Rests, Settled
  <1>4. QED
    BY <1>1, <1>2, <1>3, PublisherRests, QueueRests, WorkerKinds, FaultStepKinds DEF Next

-----------------------------------------------------------------------------
(* One row per transaction *)

\* No step takes two different workers between check and commit: there is one.
LEMMA OnceInit == OneServer /\ Init => OnceInv
  BY DEF Init, OnceInv, AuditedOnce, ChecksHold, IdleWorker, Worker

\* A worker between check and commit that is kept works on the same transaction.
LEMMA SameTxn ==
  ASSUME TypeOK, JobsKept, NEW s \in Servers, worker'[s] = worker[s],
         worker'[s].pc \in {"begin", "commit"}
  PROVE  JobTxn(s)' = JobTxn(s)
  <1>1. worker[s].pc # "idle"
    OBVIOUS
  <1>2. worker[s].job \in 1 .. Len(jobs)
    BY <1>1, BusyWorker
  <1>3. QED
    BY <1>2 DEF JobTxn, JobsKept

\* Settled workers keep their check while no row is added.
LEMMA SettledOnce ==
  ASSUME IInv, OnceInv, UNCHANGED logs, JobsKept, \A q \in Servers : Settled(q)
  PROVE  OnceInv'
  <1>1. AuditedOnce'
    BY DEF OnceInv, AuditedOnce
  <1>2. ASSUME NEW s \in Servers, worker'[s].pc \in {"begin", "commit"}
        PROVE  LogsOf(JobTxn(s))' = {}
    <2>1. worker'[s] = worker[s]
      BY <1>2 DEF Settled
    <2>2. JobTxn(s)' = JobTxn(s)
      BY <1>2, <2>1, SameTxn DEF IInv
    <2>3. LogsOf(JobTxn(s)) = {}
      BY <1>2, <2>1 DEF OnceInv, ChecksHold
    <2>4. QED
      BY <2>2, <2>3 DEF LogsOf
  <1>3. QED
    BY <1>1, <1>2 DEF OnceInv, ChecksHold, OneServer

\* The idempotency check finds no row, or the worker goes on to the backup.
LEMMA OnceCheck ==
  ASSUME IInv, OnceInv, NEW s \in Servers, checkExistingLog(s) PROVE OnceInv'
  <1>1. worker[s] \in WorkerState /\ UNCHANGED <<jobs, logs>>
    BY DEF IInv, TypeOK, checkExistingLog
  <1>2. \A q \in Servers : q = s
    BY DEF OnceInv, OneServer
  <1>3. ASSUME worker'[s].pc \in {"begin", "commit"} PROVE LogsOf(JobTxn(s))' = {}
    <2>1. LogsOf(JobTxn(s)) = {} /\ worker' = [worker EXCEPT ![s].pc = "begin"]
      BY <1>1, <1>3 DEF checkExistingLog, AfterExistingLog, IInv, TypeOK, WorkerState
    <2>2. worker'[s].job = worker[s].job
      BY <1>1, <2>1 DEF IInv, TypeOK, WorkerState
    <2>3. QED
      BY <1>1, <2>1, <2>2 DEF LogsOf, JobTxn
  <1>4. QED
    BY <1>1, <1>2, <1>3 DEF OnceInv, ChecksHold, OneServer, AuditedOnce

\* Reading the chain head keeps the check.
LEMMA OnceRead ==
  ASSUME IInv, OnceInv, NEW s \in Servers, readChainState(s) PROVE OnceInv'
  <1>1. worker[s] \in WorkerState /\ UNCHANGED <<jobs, logs>> /\ worker[s].pc = "begin"
    BY DEF IInv, TypeOK, readChainState
  <1>2. \A q \in Servers : q = s
    BY DEF OnceInv, OneServer
  <1>3. worker'[s].job = worker[s].job
    BY <1>1 DEF readChainState, IInv, TypeOK, WorkerState
  <1>4. LogsOf(JobTxn(s)) = {}
    BY <1>1 DEF OnceInv, ChecksHold
  <1>5. LogsOf(JobTxn(s))' = {}
    BY <1>1, <1>3, <1>4 DEF LogsOf, JobTxn
  <1>6. QED
    BY <1>1, <1>2, <1>5 DEF OnceInv, ChecksHold, OneServer, AuditedOnce

\* The row that is added is the first of its transaction.
LEMMA OnceAdd ==
  ASSUME IInv, OnceInv, NEW s \in Servers, Adds(s) PROVE OnceInv'
  <1>1. logs' = logs \cup {NewRow(s)} /\ NewRow(s).txn = JobTxn(s)
    BY AppendKeepsChain DEF Adds
  <1>2. LogsOf(JobTxn(s)) = {}
    BY DEF OnceInv, ChecksHold, Adds
  <1>3. AuditedOnce'
    BY <1>1, <1>2 DEF OnceInv, AuditedOnce, LogsOf
  <1>4. \A q \in Servers : q = s
    BY DEF OnceInv, OneServer
  <1>5. QED
    BY <1>3, <1>4 DEF OnceInv, ChecksHold, OneServer, Adds

\* Every step of a single server keeps the invariant.
LEMMA OnceStep == IInv /\ OnceInv /\ [Next]_vars => OnceInv'
  <1> SUFFICES ASSUME IInv, OnceInv, [Next]_vars PROVE OnceInv'
    OBVIOUS
  <1>1. ASSUME NEW u \in Users, createTransaction(u) PROVE OnceInv'
    <2>1. UNCHANGED logs /\ UNCHANGED jobs /\ UNCHANGED worker
      BY <1>1 DEF createTransaction
    <2>2. \A q \in Servers : Settled(q)
      BY <2>1 DEF Settled
    <2>3. QED
      BY <2>1, <2>2, SameJobs, SettledOnce
  <1>2. ASSUME NEW s \in Servers, Puts(s) PROVE OnceInv'
    BY <1>2, SettledOnce DEF Puts
  <1>3. ASSUME Rests PROVE OnceInv'
    BY <1>3, SettledOnce DEF Rests
  <1>4. QED
    BY <1>1, <1>2, <1>3, StepKinds, OnceCheck, OnceRead, OnceAdd

\* The invariant of a single server holds in every execution.
LEMMA OnceInvariance == OneServer /\ Spec => [](IInv /\ OnceInv)
  BY OnceInit, OnceStep, InvInit, InvStep, PTL DEF Spec

\* With one server process no transaction ever has two SecurityLog rows, whatever
\* crashes, stalls, retries and duplicate jobs there are.
THEOREM OneServerAuditsOnce == OneServer /\ Spec => []AuditedOnce
  <1>1. OnceInv => AuditedOnce
    BY DEF OnceInv
  <1>2. QED
    BY <1>1, OnceInvariance, PTL

-----------------------------------------------------------------------------
(* The pipeline implements the trail *)

TrailOf(u) == [n \in 1 .. chain[u].seq |-> TxnAt(u, n)]

\* The number of a row leads to its transaction.
LEMMA TxnOfRow ==
  ASSUME OneRowPerSeq, NEW r \in logs PROVE TxnAt(r.user, r.seq) = r.txn
  <1> DEFINE P(q) == q \in logs /\ q.user = r.user /\ q.seq = r.seq
             c == CHOOSE q \in logs : q.user = r.user /\ q.seq = r.seq
  <1>1. \E q \in logs : q.user = r.user /\ q.seq = r.seq
    OBVIOUS
  <1>2. c \in logs /\ c.user = r.user /\ c.seq = r.seq
    BY <1>1
  <1>3. c = r
    BY <1>2 DEF OneRowPerSeq
  <1>4. QED
    BY <1>3 DEF TxnAt

\* A trail names the transactions that have a row, and no others.
LEMMA AuditedHasRow ==
  ASSUME IInv, NEW t \in Txns, NEW n \in 1 .. chain[transactions[t]].seq,
         TxnAt(transactions[t], n) = t
  PROVE  LogsOf(t) # {}
  <1>1. transactions[t] \in Users
    BY ElementOfSeq DEF IInv, TypeOK, Txns
  <1>2. PICK r \in logs : r.user = transactions[t] /\ r.seq = n
    BY <1>1 DEF IInv, ChainLinked, NoSeqGap
  <1>3. r.txn = t
    BY <1>2, TxnOfRow DEF IInv, ChainLinked
  <1>4. QED
    BY <1>3 DEF LogsOf

\* The initial state is an empty trail.
LEMMA TrailInit == Init => Trail!Init
  <1> SUFFICES ASSUME Init PROVE Trail!Init
    OBVIOUS
  <1>1. \A u \in Users : [n \in 1 .. chain[u].seq |-> TxnAt(u, n)] = <<>>
    BY DEF Init, NoHead
  <1>2. transactions = <<>> /\ {b.txn : b \in backups} = {}
    BY DEF Init
  <1>3. [u \in Users |-> [n \in 1 .. chain[u].seq |-> TxnAt(u, n)]] = [u \in Users |-> <<>>]
    BY <1>1
  <1>4. QED
    BY <1>2, <1>3 DEF Trail!Init

\* The trail depends on rows and heads alone.
LEMMA SameTrail ==
  ASSUME UNCHANGED <<logs, chain>>
  PROVE  UNCHANGED [u \in Users |-> [n \in 1 .. chain[u].seq |-> TxnAt(u, n)]]
  BY DEF TxnAt

\* createTransaction submits.
LEMMA CreateSubmits ==
  ASSUME NEW u \in Users, createTransaction(u) PROVE Trail!Submit(u)
  <1>1. UNCHANGED [v \in Users |-> [n \in 1 .. chain[v].seq |-> TxnAt(v, n)]]
    BY SameTrail DEF createTransaction
  <1>2. UNCHANGED {b.txn : b \in backups}
    BY DEF createTransaction
  <1>3. QED
    BY <1>1, <1>2 DEF createTransaction, Trail!Submit

\* A backup archives a transaction that is in the trail.
LEMMA PutArchives ==
  ASSUME IInv, NEW s \in Servers, Puts(s)
  PROVE  \E t \in DOMAIN transactions : Trail!Archive(t)
  <1> DEFINE r == worker[s].row
  <1>1. r \in logs /\ r \in Row
    BY DEF IInv, RowsLogged, TypeOK, Puts
  <1>2. r.txn \in Txns /\ r.user \in Users
    BY <1>1 DEF Row
  <1>3. r.seq \in 1 .. chain[r.user].seq /\ transactions[r.txn] = r.user
    BY <1>1 DEF IInv, ChainLinked, SeqWithinHead
  <1>4. TxnAt(r.user, r.seq) = r.txn
    BY <1>1, TxnOfRow DEF IInv, ChainLinked
  <1>5. Trail!Audited(r.txn)
    BY <1>2, <1>3, <1>4 DEF Trail!Audited
  <1>6. backups' = backups \cup {r}
    BY <1>1, BackupsGrow DEF Puts
  <1>7. {b.txn : b \in backups}' = {b.txn : b \in backups} \cup {r.txn}
    BY <1>6
  <1>8. UNCHANGED [v \in Users |-> [n \in 1 .. chain[v].seq |-> TxnAt(v, n)]]
    BY SameTrail DEF Puts
  <1>9. UNCHANGED transactions
    BY DEF Puts
  <1>10. r.txn \in DOMAIN transactions
    BY <1>2, LenProperties DEF IInv, TypeOK, Txns
  <1>11. QED
    BY <1>5, <1>7, <1>8, <1>9, <1>10 DEF Trail!Archive

\* An added row appends its transaction to the trail of its user.
LEMMA AddExtends ==
  ASSUME IInv, IInv', NEW s \in Servers, Adds(s)
  PROVE  /\ JobTxn(s) \in Txns /\ transactions[JobTxn(s)] = JobUser(s) /\ JobUser(s) \in Users
         /\ \A u \in Users \ {JobUser(s)} : TrailOf(u)' = TrailOf(u)
         /\ TrailOf(JobUser(s)) \in Seq(Txns)
         /\ \A u \in Users : u = JobUser(s) => TrailOf(u)' = Append(TrailOf(u), JobTxn(s))
  <1> DEFINE me == JobUser(s)
             R == NewRow(s)
  <1>1. me \in Users /\ JobTxn(s) \in Txns /\ transactions[JobTxn(s)] = me
    BY BusyWorker DEF Adds, IInv, JobUser
  <1>2. logs' = logs \cup {R} /\ R.txn = JobTxn(s)
    BY AppendKeepsChain DEF Adds
  <1>3. R.user = me /\ R.seq = worker[s].head.seq + 1 /\ ~SeqTaken(me, worker[s].head.seq + 1)
    BY DEF NewRow, Adds, AppendRow
  <1>4. worker[s].head = chain[me]
    BY <1>3, CommitOnHead DEF Adds
  <1>5. \A u \in Users : chain[u].seq \in Nat
    BY DEF IInv, TypeOK, ChainHead
  <1>6. chain' = [chain EXCEPT ![me] = [seq |-> R.seq, hash |-> R.hash]]
    BY <1>3 DEF Adds, AppendRow
  <1>7. chain'[me].seq = chain[me].seq + 1 /\ R.seq = chain[me].seq + 1
    BY <1>1, <1>3, <1>4, <1>6 DEF IInv, TypeOK
  <1>8. \A u \in Users \ {me} : chain'[u] = chain[u]
    BY <1>6 DEF IInv, TypeOK
  <1>9. ASSUME NEW u \in Users, NEW n \in 1 .. chain[u].seq
        PROVE  TxnAt(u, n)' = TxnAt(u, n) /\ TxnAt(u, n) \in Txns
    <2>1. PICK r \in logs : r.user = u /\ r.seq = n
      BY DEF IInv, ChainLinked, NoSeqGap
    <2>2. TxnAt(u, n) = r.txn
      BY <2>1, TxnOfRow DEF IInv, ChainLinked
    <2>3. r \in logs' /\ OneRowPerSeq'
      BY <1>2 DEF IInv, ChainLinked
    <2>4. \A q \in logs' : q.user = u /\ q.seq = n => q = r
      BY <2>1, <2>3 DEF OneRowPerSeq
    <2>5. (CHOOSE q \in logs' : q.user = u /\ q.seq = n) = r
      BY <2>1, <2>3, <2>4
    <2>6. TxnAt(u, n)' = r.txn
      BY <2>5 DEF TxnAt
    <2>7. r.txn \in Txns
      BY DEF IInv, TypeOK, Row
    <2>8. QED
      BY <2>2, <2>6, <2>7
  <1>10. ASSUME NEW u \in Users, u = me, NEW n \in Nat, n = chain[me].seq + 1
         PROVE  TxnAt(u, n)' = JobTxn(s)
    <2>1. R \in logs' /\ OneRowPerSeq' /\ R.user = u /\ R.seq = n
      BY <1>2, <1>3, <1>7, <1>10 DEF IInv, ChainLinked
    <2>2. \A q \in logs' : q.user = u /\ q.seq = n => q = R
      BY <2>1 DEF OneRowPerSeq
    <2>3. (CHOOSE q \in logs' : q.user = u /\ q.seq = n) = R
      BY <2>1, <2>2
    <2>4. QED
      BY <1>2, <2>3 DEF TxnAt
  <1>11. ASSUME NEW u \in Users \ {me} PROVE TrailOf(u)' = TrailOf(u)
    BY <1>8, <1>9, <1>11 DEF TrailOf
  <1>12. TrailOf(me) \in Seq(Txns) /\ Len(TrailOf(me)) = chain[me].seq
    BY <1>1, <1>5, <1>9 DEF TrailOf
  <1>13. ASSUME NEW u \in Users, u = me PROVE TrailOf(u)' = Append(TrailOf(u), JobTxn(s))
    <2> DEFINE A == Append(TrailOf(u), JobTxn(s))
               m == chain[u].seq
    <2>1. /\ A \in Seq(Txns) /\ Len(A) = m + 1 /\ A[m + 1] = JobTxn(s)
          /\ \A i \in 1 .. m : A[i] = TrailOf(u)[i]
      BY <1>1, <1>12, <1>13, AppendProperties
    <2>2. m \in Nat /\ chain'[u].seq = m + 1
      BY <1>5, <1>7, <1>13
    <2>3. TrailOf(u)' = [n \in 1 .. m + 1 |-> TxnAt(u, n)']
      BY <2>2 DEF TrailOf
    <2>4. A = [n \in 1 .. m + 1 |-> A[n]]
      BY <2>1, LenProperties
    <2>5. \A n \in 1 .. m : A[n] = TxnAt(u, n)'
      BY <1>9, <2>1 DEF TrailOf
    <2>6. \A n \in Nat : n = m + 1 => TxnAt(u, n)' = JobTxn(s)
      BY <1>10, <1>13
    <2>7. \A n \in 1 .. m + 1 : A[n] = TxnAt(u, n)'
      BY <2>1, <2>2, <2>5, <2>6
    <2>8. QED
      BY <2>3, <2>4, <2>7
  <1>14. QED
    BY <1>1, <1>11, <1>12, <1>13

\* Adding a row appends a transaction to the trail that is not in it.
LEMMA AddAppends ==
  ASSUME IInv, IInv', OnceInv, NEW s \in Servers, Adds(s)
  PROVE  \E t \in DOMAIN transactions : Trail!AppendToTrail(t)
  <1> DEFINE T == JobTxn(s)
             trail == [u \in Users |-> [n \in 1 .. chain[u].seq |-> TxnAt(u, n)]]
  <1>1. T \in Txns /\ transactions[T] \in Users /\ transactions[T] = JobUser(s)
    BY AddExtends
  <1>2. T \in DOMAIN transactions
    BY <1>1, LenProperties DEF IInv, TypeOK, Txns
  <1>3. LogsOf(T) = {}
    BY DEF OnceInv, ChecksHold, Adds
  <1>4. ~Trail!Audited(T)
    <2>1. \A n \in 1 .. chain[transactions[T]].seq : TxnAt(transactions[T], n) # T
      BY <1>1, <1>3, AuditedHasRow
    <2>2. QED
      BY <1>1, <2>1 DEF Trail!Audited
  <1>5. trail' = [trail EXCEPT ![transactions[T]] = Append(@, T)]
    <2>1. trail' = [u \in Users |-> TrailOf(u)']
      BY DEF TrailOf
    <2>2. trail = [u \in Users |-> TrailOf(u)]
      BY DEF TrailOf
    <2>3. \A u \in Users : u # JobUser(s) => TrailOf(u)' = TrailOf(u)
      BY AddExtends
    <2>4. \A u \in Users : u = JobUser(s) => TrailOf(u)' = Append(TrailOf(u), T)
      BY AddExtends
    <2> HIDE DEF trail, T
    <2>5. QED
      BY <1>1, <2>1, <2>2, <2>3, <2>4
  <1>6. UNCHANGED transactions /\ UNCHANGED {b.txn : b \in backups}
    BY DEF Adds
  <1>7. QED
    BY <1>2, <1>4, <1>5, <1>6 DEF Trail!AppendToTrail

\* A step that touches no row, head, backup or transaction stutters.
LEMMA RestStutters ==
  ASSUME UNCHANGED <<transactions, logs, chain, backups>> PROVE UNCHANGED Trail!vars
  <1>1. UNCHANGED [u \in Users |-> [n \in 1 .. chain[u].seq |-> TxnAt(u, n)]]
    BY SameTrail
  <1>2. UNCHANGED {b.txn : b \in backups}
    OBVIOUS
  <1>3. QED
    BY <1>1, <1>2 DEF Trail!vars

\* Every step of a single server is a step of the trail or a stutter.
LEMMA TrailStep ==
  IInv /\ IInv' /\ OnceInv /\ [Next]_vars => [Trail!Next]_(Trail!vars)
  <1> SUFFICES ASSUME IInv, IInv', OnceInv, [Next]_vars PROVE [Trail!Next]_(Trail!vars)
    OBVIOUS
  <1>1. ASSUME NEW u \in Users, createTransaction(u) PROVE Trail!Next
    BY <1>1, CreateSubmits DEF Trail!Next
  <1>2. ASSUME NEW s \in Servers, Adds(s) PROVE Trail!Next
    BY <1>2, AddAppends DEF Trail!Next
  <1>3. ASSUME NEW s \in Servers, Puts(s) PROVE Trail!Next
    BY <1>3, PutArchives DEF Trail!Next
  <1>4. ASSUME NEW s \in Servers, checkExistingLog(s) \/ readChainState(s)
        PROVE  UNCHANGED Trail!vars
    BY <1>4, RestStutters DEF checkExistingLog, readChainState
  <1>5. ASSUME Rests PROVE UNCHANGED Trail!vars
    BY <1>5, RestStutters DEF Rests
  <1>6. QED
    BY <1>1, <1>2, <1>3, <1>4, <1>5, StepKinds

\* With one server process the pipeline is an append-only trail in which every
\* transaction occurs at most once, and only what is in the trail is archived.
THEOREM OneServerKeepsTrail == OneServer /\ Spec => ImplementsTrail
  <1>1. OneServer /\ Spec => [](IInv /\ OnceInv)
    BY OnceInvariance
  <1>2. QED
    BY <1>1, TrailInit, TrailStep, PTL DEF Spec, ImplementsTrail, Trail!Spec

-----------------------------------------------------------------------------
(* PROCESSED is final *)

FinalKinds == {"claim", "crash", "lock", "slow"}

\* The chain head that the worker read is still the head.
HeadCurrent == \A s \in Servers : worker[s].pc = "commit" => worker[s].head = chain[JobUser(s)]

\* Nobody is about to overwrite a status: no rollback, no "failed" handler, and no job
\* that has failed before and may fail again.
NoLateWrite ==
  /\ \A s \in Servers : publisher[s].pc # "rollback" /\ failing[s] = {}
  /\ \A k \in 1 .. Len(jobs) : jobs[k].state # "failed" => jobs[k].made = 0

StaysProcessed ==
  \A t \in Txns : outbox[t].status = "PROCESSED" => outbox'[t].status = "PROCESSED"

\* The head of the chain moves by the commit of the one worker only.
LEMMA HeadStep == IInv /\ IInv' /\ OneServer /\ HeadCurrent /\ [Next]_vars => HeadCurrent'
  <1> SUFFICES ASSUME IInv, IInv', OneServer, HeadCurrent, [Next]_vars,
                      NEW q \in Servers, worker'[q].pc = "commit"
               PROVE  worker'[q].head = chain'[JobUser(q)']
    BY DEF HeadCurrent
  <1>1. ASSUME worker'[q] = worker[q], TxnsKept, JobsKept, UNCHANGED chain
        PROVE  worker'[q].head = chain'[JobUser(q)']
    <2>1. worker[q].pc # "idle" /\ worker[q].pc = "commit"
      BY <1>1
    <2>2. JobTxn(q)' = JobTxn(q)
      BY <1>1, <2>1, BusyWorker DEF JobTxn, JobsKept, IInv
    <2>3. JobUser(q)' = JobUser(q)
      BY <1>1, <2>1, <2>2, BusyWorker DEF JobUser, TxnsKept, IInv
    <2>4. QED
      BY <1>1, <2>1, <2>3 DEF HeadCurrent
  <1>2. ASSUME Settled(q), JobsKept, UNCHANGED <<transactions, chain>>
        PROVE  worker'[q].head = chain'[JobUser(q)']
    BY <1>1, <1>2 DEF Settled, TxnsKept, Txns
  <1>3. ASSUME NEW u \in Users, createTransaction(u) PROVE worker'[q].head = chain'[JobUser(q)']
    <2>1. TxnsKept
      <3>1. /\ Len(transactions) \in Nat /\ Len(transactions') = Len(transactions) + 1
            /\ \A t \in 1 .. Len(transactions) : transactions'[t] = transactions[t]
        BY <1>3, AppendProperties DEF createTransaction, IInv, TypeOK
      <3>2. QED
        BY <3>1 DEF TxnsKept, Txns
    <2>2. QED
      BY <1>1, <1>3, <2>1, SameJobs DEF createTransaction
  <1>4. ASSUME NEW s \in Servers, checkExistingLog(s) PROVE FALSE
    <2>1. q = s /\ worker[s] \in WorkerState
      BY DEF OneServer, IInv, TypeOK
    <2>2. QED
      BY <1>4, <2>1 DEF checkExistingLog, AfterExistingLog, IInv, TypeOK, WorkerState
  <1>5. ASSUME NEW s \in Servers, readChainState(s) PROVE worker'[q].head = chain'[JobUser(q)']
    <2>1. q = s /\ worker[s] \in WorkerState
      BY DEF OneServer, IInv, TypeOK
    <2>2. worker'[s].head = chain[JobUser(s)] /\ worker'[s].job = worker[s].job
      BY <1>5, <2>1 DEF readChainState, IInv, TypeOK, WorkerState
    <2>3. JobUser(s)' = JobUser(s) /\ UNCHANGED chain
      BY <1>5, <2>2 DEF JobUser, JobTxn, readChainState
    <2>4. QED
      BY <2>1, <2>2, <2>3
  <1>6. ASSUME NEW s \in Servers, Adds(s) PROVE FALSE
    BY <1>6 DEF Adds, OneServer
  <1>7. ASSUME NEW s \in Servers, Puts(s) PROVE worker'[q].head = chain'[JobUser(q)']
    BY <1>2, <1>7 DEF Puts
  <1>8. ASSUME Rests PROVE worker'[q].head = chain'[JobUser(q)']
    BY <1>2, <1>8 DEF Rests
  <1>9. QED
    BY <1>3, <1>4, <1>5, <1>6, <1>7, <1>8, StepKinds

\* The number after the head is free: one worker has no conflicts.
LEMMA NoConflict == ASSUME IInv, HeadCurrent, NEW s \in Servers PROVE ~commitConflicts(s)
  <1> SUFFICES ASSUME commitConflicts(s) PROVE FALSE
    OBVIOUS
  <1>1. JobUser(s) \in Users
    BY BusyWorker DEF commitConflicts, IInv
  <1>2. PICK r \in logs : r.user = JobUser(s) /\ r.seq = chain[JobUser(s)].seq + 1
    BY DEF commitConflicts, HeadCurrent, SeqTaken
  <1>3. r.seq \in 1 .. chain[JobUser(s)].seq /\ chain[JobUser(s)].seq \in Nat
    BY <1>1, <1>2 DEF IInv, ChainLinked, SeqWithinHead, TypeOK, ChainHead
  <1>4. QED
    BY <1>2, <1>3

\* A step that leaves the queue and the "failed" handlers alone.
LEMMA QuietFinal ==
  ASSUME NoLateWrite, UNCHANGED <<jobs, failing>>, \A s \in Servers : publisher'[s].pc # "rollback"
  PROVE  NoLateWrite'
  BY DEF NoLateWrite

\* A job that has not failed is updated, or added, and has not failed now.
LEMMA JobFinal ==
  ASSUME TypeOK, NoLateWrite, NEW k \in DOMAIN jobs, NEW j \in Job, j.made = 0 \/ j.state = "failed",
         jobs' = [jobs EXCEPT ![k] = j], UNCHANGED <<publisher, failing>>
  PROVE  NoLateWrite'
  <1>1. Len(jobs') = Len(jobs) /\ \A m \in 1 .. Len(jobs) : jobs'[m] = IF m = k THEN j ELSE jobs[m]
    BY JobWrite
  <1>2. QED
    BY <1>1 DEF NoLateWrite

\* The scheduler writes PENDING over PROCESSING, and PROCESSING over PENDING.
LEMMA FinalPublisher ==
  ASSUME TypeOK, NoLateWrite, NEW s \in Servers, PublisherStep(s)
  PROVE  NoLateWrite' /\ StaysProcessed
  <1>1. CASE resetStuckProcessingEvents(s)
    <2>1. \A q \in Servers : publisher'[q].pc # "rollback"
      BY <1>1 DEF resetStuckProcessingEvents, NoLateWrite, Publisher, TypeOK
    <2>2. StaysProcessed
      BY <1>1 DEF resetStuckProcessingEvents, StaysProcessed
    <2>3. QED
      BY <1>1, <2>1, <2>2, QuietFinal DEF resetStuckProcessingEvents
  <1>2. CASE findCandidates(s)
    <2>1. \A q \in Servers : publisher'[q].pc # "rollback"
      BY <1>2 DEF findCandidates, NoLateWrite, Publisher, TypeOK
    <2>2. QED
      BY <1>2, <2>1, QuietFinal DEF findCandidates, StaysProcessed
  <1>3. CASE claimEvent(s)
    <2>1. \E batch, claimed : publisher' = [publisher EXCEPT ![s] = Continue(batch, claimed)]
      BY <1>3 DEF claimEvent
    <2>2. \A q \in Servers : publisher'[q].pc # "rollback"
      BY <2>1 DEF Continue, NoLateWrite, TypeOK
    <2>3. \A t \in Txns : outbox'[t] = outbox[t] \/ outbox[t].status = "PENDING"
      BY <1>3 DEF claimEvent, MayClaim, TypeOK, Txns
    <2>4. QED
      BY <1>3, <2>2, <2>3, QuietFinal DEF claimEvent, StaysProcessed
  <1>4. CASE enqueueEvent(s)
    <2>1. PICK t \in publisher[s].claimed :
            /\ jobs' = Append(jobs, NewJob(t))
            /\ publisher' = [publisher EXCEPT ![s] = Continue({}, publisher[s].claimed \ {t})]
      BY <1>4 DEF enqueueEvent
    <2>2. \A q \in Servers : publisher'[q].pc # "rollback"
      BY <2>1 DEF Continue, NoLateWrite, TypeOK
    <2>3. t \in Txns /\ NewJob(t).made = 0
      BY DEF TypeOK, PublisherState, NewJob
    <2>4. NewJob(t) \in Job
      BY <2>3 DEF NewJob, Job, Unfinished
    <2>5. /\ Len(jobs) \in Nat /\ Len(jobs') = Len(jobs) + 1 /\ jobs'[Len(jobs) + 1] = NewJob(t)
          /\ \A m \in 1 .. Len(jobs) : jobs'[m] = jobs[m]
      BY <2>1, <2>4, AppendProperties DEF TypeOK
    <2>6. \A m \in 1 .. Len(jobs') : m \in 1 .. Len(jobs) \/ m = Len(jobs) + 1
      BY <2>5
    <2>7. \A m \in 1 .. Len(jobs') : jobs'[m].state # "failed" => jobs'[m].made = 0
      BY <2>3, <2>5, <2>6 DEF NoLateWrite
    <2>8. UNCHANGED <<outbox, failing>>
      BY <1>4 DEF enqueueEvent
    <2>9. QED
      BY <2>2, <2>7, <2>8 DEF NoLateWrite, StaysProcessed
  <1>5. ~rollbackClaim(s)
    BY DEF rollbackClaim, NoLateWrite
  <1>6. QED
    BY <1>1, <1>2, <1>3, <1>4, <1>5 DEF PublisherStep

\* The worker writes nothing but PROCESSED.
LEMMA FinalWorker ==
  ASSUME IInv, HeadCurrent, NoLateWrite, NEW s \in Servers, WorkerStep(s)
  PROVE  NoLateWrite' /\ StaysProcessed
  <1>1. TypeOK
    BY DEF IInv
  <1>2. CASE takeJob(s)
    <2>1. PICK k \in DOMAIN jobs :
            /\ jobs[k].state = "wait"
            /\ jobs' = [jobs EXCEPT ![k] = [jobs[k] EXCEPT !.state = "active", !.by = s]]
      BY <1>2 DEF takeJob
    <2>2. jobs[k] \in Job /\ k \in 1 .. Len(jobs)
      BY <1>1, LenProperties, ElementOfSeq DEF TypeOK
    <2>3. jobs[k].made = 0
      BY <2>1, <2>2 DEF NoLateWrite
    <2>4. /\ [jobs[k] EXCEPT !.state = "active", !.by = s] \in Job
          /\ [jobs[k] EXCEPT !.state = "active", !.by = s].made = 0
      BY <2>2, <2>3 DEF Job, Unfinished
    <2>5. QED
      BY <1>1, <1>2, <2>1, <2>4, JobFinal DEF takeJob, StaysProcessed
  <1>3. CASE finishJob(s)
    <2>1. worker[s].job \in DOMAIN jobs /\ worker[s].job \in 1 .. Len(jobs) /\ jobs[worker[s].job] \in Job
      BY <1>1, <1>3, BusyWorker DEF finishJob
    <2>2. CASE HoldsLock(s)
      <3>1. jobs[worker[s].job].made = 0
        BY <2>1, <2>2 DEF HoldsLock, NoLateWrite
      <3>2. /\ [jobs[worker[s].job] EXCEPT !.state = "completed", !.by = "none"] \in Job
            /\ [jobs[worker[s].job] EXCEPT !.state = "completed", !.by = "none"].made = 0
        BY <2>1, <3>1 DEF Job
      <3>3. QED
        BY <1>1, <1>3, <2>1, <2>2, <3>2, JobFinal DEF finishJob, StaysProcessed
    <2>3. CASE ~HoldsLock(s)
      BY <1>3, <2>3, QuietFinal DEF finishJob, StaysProcessed, NoLateWrite
    <2>4. QED
      BY <2>2, <2>3
  <1>4. CASE markProcessed(s)
    <2>1. JobTxn(s) \in Txns /\ Written("PROCESSED") \in OutboxRow
      BY <1>1, <1>4, BusyWorker, WrittenType DEF markProcessed, OutboxStatus
    <2>2. \A t \in Txns : outbox'[t] = IF t = JobTxn(s) THEN Written("PROCESSED") ELSE outbox[t]
      BY <1>1, <1>4, <2>1, OutboxWrite DEF markProcessed, MarkProcessed
    <2>3. StaysProcessed
      BY <2>2 DEF StaysProcessed, Written
    <2>4. QED
      BY <1>4, <2>3, QuietFinal DEF markProcessed, NoLateWrite
  <1>5. CASE UNCHANGED <<outbox, jobs, failing, publisher>>
    BY <1>5, QuietFinal DEF StaysProcessed, NoLateWrite
  <1>6. ~commitConflicts(s)
    BY NoConflict
  <1>7. QED
    BY <1>2, <1>3, <1>4, <1>5, <1>6
    DEF WorkerStep, checkExistingLog, readChainState, commitRow, writeTransactionBackup

\* A job fails at its second stall, with two attempts left: no handler takes notice.
LEMMA FinalQueue ==
  ASSUME TypeOK, Attempts > 2, NoLateWrite, NEW k \in DOMAIN jobs, QueueStep(k)
  PROVE  NoLateWrite' /\ StaysProcessed
  <1>1. jobs[k] \in Job /\ k \in 1 .. Len(jobs)
    BY LenProperties, ElementOfSeq DEF TypeOK
  <1>2. CASE promoteDelayed(k)
    <2>1. jobs[k].made = 0
      BY <1>1, <1>2 DEF promoteDelayed, NoLateWrite
    <2>2. [jobs[k] EXCEPT !.state = "wait"] \in Job /\ [jobs[k] EXCEPT !.state = "wait"].made = 0
      BY <1>1, <2>1 DEF Job, Unfinished
    <2>3. QED
      BY <1>2, <2>2, JobFinal DEF promoteDelayed, StaysProcessed
  <1>3. ASSUME NEW s \in Servers, stalledJob(k, s) PROVE NoLateWrite' /\ StaysProcessed
    <2>1. jobs[k].made = 0 /\ UNCHANGED <<outbox, publisher>>
      BY <1>1, <1>3 DEF stalledJob, NoLateWrite
    <2>2. CASE jobs[k].stalls = 0
      <3>1. /\ [jobs[k] EXCEPT !.state = "wait", !.stalls = 1, !.by = "none"] \in Job
            /\ [jobs[k] EXCEPT !.state = "wait", !.stalls = 1, !.by = "none"].made = 0
        BY <1>1, <2>1 DEF Job, Unfinished
      <3>2. QED
        BY <1>3, <2>1, <2>2, <3>1, JobFinal DEF stalledJob, StaysProcessed
    <2>3. CASE jobs[k].stalls # 0
      <3> DEFINE j == [jobs[k] EXCEPT !.state = "failed", !.made = 1, !.by = "none"]
      <3>1. FailJob(k, s, FALSE)
        BY <1>3, <2>3 DEF stalledJob
      <3>2. jobs' = [jobs EXCEPT ![k] = j]
        BY <2>1, <3>1 DEF FailJob
      <3>3. ~NoAttemptsLeft(1)
        BY PipelineAssumption DEF NoAttemptsLeft
      <3>4. UNCHANGED failing
        BY <2>1, <3>1, <3>3 DEF FailJob, TypeOK
      <3>5. j \in Job /\ j.state = "failed"
        BY <1>1 DEF Job
      <3> HIDE DEF j
      <3>6. QED
        BY <2>1, <3>2, <3>4, <3>5, JobFinal DEF StaysProcessed
    <2>4. QED
      BY <2>2, <2>3
  <1>4. QED
    BY <1>2, <1>3 DEF QueueStep

FinalInv ==
  /\ OneServer /\ Attempts > 2
  /\ HeadCurrent
  /\ Only(FinalKinds) => NoLateWrite

LEMMA FinalInit == OneServer /\ Attempts > 2 /\ Init => FinalInv
  BY DEF Init, FinalInv, HeadCurrent, NoLateWrite, IdleWorker, Worker, Publisher

\* Within the faults that the property allows, no step overwrites PROCESSED.
LEMMA FinalStep ==
  ASSUME IInv, FinalInv, [Next]_vars, Only(FinalKinds)'
  PROVE  NoLateWrite' /\ StaysProcessed
  <1>1. TypeOK /\ HeadCurrent /\ Attempts > 2 /\ NoLateWrite
    BY FaultsGrow DEF IInv, FinalInv, Only
  <1>2. ASSUME NEW u \in Users, createTransaction(u) PROVE NoLateWrite' /\ StaysProcessed
    <2>1. outbox' = Append(outbox, Written("PENDING")) /\ Written("PENDING") \in OutboxRow
      BY <1>2, WrittenType DEF createTransaction, OutboxStatus
    <2>2. \A t \in Txns : outbox'[t] = outbox[t]
      BY <1>1, <2>1, AppendProperties DEF TypeOK, Txns
    <2>3. QED
      BY <1>1, <1>2, <2>2, QuietFinal DEF createTransaction, StaysProcessed, NoLateWrite
  <1>3. ASSUME NEW s \in Servers, Boot(s) PROVE NoLateWrite' /\ StaysProcessed
    <2>1. \A q \in Servers : publisher'[q].pc # "rollback"
      BY <1>1, <1>3 DEF Boot, Publisher, NoLateWrite, TypeOK
    <2>2. QED
      BY <1>1, <1>3, <2>1, QuietFinal DEF Boot, StaysProcessed
  <1>4. ASSUME NEW s \in Servers PROVE ~markFailed(s)
    BY <1>1 DEF markFailed, NoLateWrite
  <1>5. ASSUME NEW s \in Servers, PublisherStep(s) PROVE NoLateWrite' /\ StaysProcessed
    BY <1>1, <1>5, FinalPublisher
  <1>6. ASSUME NEW s \in Servers, WorkerStep(s) PROVE NoLateWrite' /\ StaysProcessed
    BY <1>1, <1>6, FinalWorker
  <1>7. ASSUME NEW s \in Servers, FaultStep(s) PROVE NoLateWrite' /\ StaysProcessed
    <2>1. ~enqueueFails(s) /\ ~workerCallFails(s)
      BY FaultExcluded DEF enqueueFails, workerCallFails, FinalKinds
    <2>2. ~rollbackFails(s)
      BY <1>1 DEF rollbackFails, NoLateWrite
    <2>3. CASE claimFails(s)
      <3>1. \A q \in Servers : publisher'[q].pc # "rollback"
        BY <1>1, <2>3 DEF claimFails, Publisher, NoLateWrite, TypeOK
      <3>2. \A t \in Txns : outbox'[t] = outbox[t] \/ outbox[t].status = "PENDING"
        BY <1>1, <2>3 DEF claimFails, MayClaim, TypeOK, Txns
      <3>3. QED
        BY <1>1, <2>3, <3>1, <3>2, QuietFinal DEF claimFails, StaysProcessed
    <2>4. CASE crash(s)
      <3>1. \A q \in Servers : publisher'[q].pc # "rollback"
        BY <1>1, <2>4 DEF crash, Publisher, NoLateWrite, TypeOK
      <3>2. UNCHANGED <<jobs, failing, outbox>>
        BY <1>1, <2>4 DEF crash, NoLateWrite, TypeOK
      <3>3. QED
        BY <1>1, <3>1, <3>2, QuietFinal DEF StaysProcessed
    <2>5. QED
      BY <1>7, <2>1, <2>2, <2>3, <2>4 DEF FaultStep
  <1>8. ASSUME NEW k \in DOMAIN jobs, QueueStep(k) PROVE NoLateWrite' /\ StaysProcessed
    BY <1>1, <1>8, FinalQueue
  <1>9. ASSUME NEW t \in Txns, BecomeStale(t) PROVE NoLateWrite' /\ StaysProcessed
    <2>1. outbox[t].status # "PROCESSED"
      BY <1>9 DEF BecomeStale, Written
    <2>2. \A u \in Txns : u # t => outbox'[u] = outbox[u]
      BY <1>1, <1>9 DEF BecomeStale, TypeOK, Txns
    <2>3. QED
      BY <1>1, <1>9, <2>1, <2>2, QuietFinal DEF BecomeStale, StaysProcessed, NoLateWrite
  <1>10. CASE UNCHANGED vars
    BY <1>1, <1>10, QuietFinal DEF vars, StaysProcessed, NoLateWrite
  <1>11. QED
    BY <1>2, <1>3, <1>4, <1>5, <1>6, <1>7, <1>8, <1>9, <1>10 DEF Next

LEMMA FinalInvStep == IInv /\ IInv' /\ FinalInv /\ [Next]_vars => FinalInv'
  BY HeadStep, FinalStep DEF FinalInv, OneServer

\* With one server process and at least three attempts per job, a row that reads
\* PROCESSED keeps that status, whatever claims fail, locks expire, rows are reset and
\* crashes there are.
THEOREM OneServerFinal == OneServer /\ Attempts > 2 /\ Spec => ProcessedIsFinal
  <1>1. OneServer /\ Attempts > 2 /\ Spec => [](IInv /\ FinalInv)
    BY FinalInit, FinalInvStep, InvInit, InvStep, PTL DEF Spec
  <1>2. IInv /\ FinalInv /\ [Next]_vars =>
          [Only({"claim", "crash", "lock", "slow"})' =>
             \A t \in Txns : outbox[t].status = "PROCESSED" => outbox'[t].status = "PROCESSED"]_vars
    BY FinalStep DEF FinalKinds, StaysProcessed
  <1>3. QED
    BY <1>1, <1>2, PTL DEF Spec, ProcessedIsFinal
=============================================================================
