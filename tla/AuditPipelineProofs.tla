------------------------ MODULE AuditPipelineProofs ------------------------
(***************************************************************************)
(* Theorems about AuditPipeline, for every number of users, servers,       *)
(* transactions, attempts and faults.                                      *)
(***************************************************************************)
EXTENDS AuditPipeline, SequenceTheorems, TLAPS

USE PipelineAssumption

-----------------------------------------------------------------------------
(* Types *)

\* The initial state is well typed.
LEMMA TypeInit == Init => TypeOK
  BY DEF Init, TypeOK, NoHead, Genesis, Publisher, Worker, IdleWorker, NoRow, Txns, Row, ChainHead, Hash,
         PublisherPcs, WorkerPcs, OutboxRow, Job, PublisherState, WorkerState

\* The types of rows depend on the number of transactions alone.
LEMMA SameTypes ==
  ASSUME UNCHANGED transactions
  PROVE  /\ Txns' = Txns /\ Row' = Row /\ Job' = Job /\ PublisherState' = PublisherState
         /\ Len(jobs') = Len(jobs) => WorkerState' = WorkerState
  BY DEF Txns, Row, Job, PublisherState, WorkerState

\* Writing one outbox row.
LEMMA OutboxWrite ==
  ASSUME TypeOK, NEW t \in Txns, NEW r \in OutboxRow, outbox' = [outbox EXCEPT ![t] = r]
  PROVE  /\ outbox' \in Seq(OutboxRow) /\ Len(outbox') = Len(outbox)
         /\ \A u \in Txns : outbox'[u] = IF u = t THEN r ELSE outbox[u]
  <1>1. t \in 1 .. Len(outbox)
    BY DEF TypeOK, Txns
  <1>2. QED
    BY <1>1, ExceptSeq DEF TypeOK, Txns

\* Updating one job.
LEMMA JobWrite ==
  ASSUME TypeOK, NEW k \in DOMAIN jobs, NEW j \in Job, jobs' = [jobs EXCEPT ![k] = j]
  PROVE  /\ jobs' \in Seq(Job) /\ Len(jobs') = Len(jobs)
         /\ \A m \in 1 .. Len(jobs) : jobs'[m] = IF m = k THEN j ELSE jobs[m]
  <1>1. k \in 1 .. Len(jobs)
    BY LenProperties DEF TypeOK
  <1>2. QED
    BY <1>1, ExceptSeq DEF TypeOK

\* Adding one job.
LEMMA JobAdd ==
  ASSUME TypeOK, NEW t \in Txns, jobs' = Append(jobs, NewJob(t))
  PROVE  /\ jobs' \in Seq(Job) /\ Len(jobs') = Len(jobs) + 1
         /\ \A m \in 1 .. Len(jobs) : jobs'[m] = jobs[m]
  <1>1. NewJob(t) \in Job
    BY DEF NewJob, Job, Unfinished
  <1>2. QED
    BY <1>1, AppendProperties DEF TypeOK

\* The job and the transaction of a busy worker exist.
LEMMA BusyWorker ==
  ASSUME TypeOK, NEW s \in Servers, worker[s].pc # "idle"
  PROVE  /\ worker[s].job \in DOMAIN jobs /\ worker[s].job \in 1 .. Len(jobs)
         /\ jobs[worker[s].job] \in Job
         /\ JobTxn(s) \in Txns /\ JobUser(s) \in Users
  <1>1. worker[s].job \in 1 .. Len(jobs)
    BY DEF TypeOK, WorkerState
  <1>2. jobs[worker[s].job] \in Job
    BY <1>1, ElementOfSeq DEF TypeOK
  <1>3. JobTxn(s) \in Txns
    BY <1>2 DEF JobTxn, Job
  <1>4. JobUser(s) \in Users
    BY <1>3, ElementOfSeq DEF TypeOK, JobUser, Txns
  <1>5. DOMAIN jobs = 1 .. Len(jobs)
    BY LenProperties DEF TypeOK
  <1>6. QED
    BY <1>1, <1>2, <1>3, <1>4, <1>5

\* A written outbox row is well typed.
LEMMA WrittenType == \A status \in OutboxStatus : Written(status) \in OutboxRow
  BY DEF Written, OutboxRow

\* createTransaction keeps every variable well typed.
LEMMA TypeCreate == ASSUME TypeOK, NEW u \in Users, createTransaction(u) PROVE TypeOK'
  <1>1. transactions' \in Seq(Users) /\ Len(transactions') = Len(transactions) + 1
    BY AppendProperties DEF createTransaction, TypeOK
  <1>2. outbox' \in Seq(OutboxRow) /\ Len(outbox') = Len(outbox) + 1
    BY AppendProperties, WrittenType DEF createTransaction, TypeOK, OutboxStatus
  <1>3. Len(transactions) \in Nat
    BY DEF TypeOK
  <1>4. Txns \subseteq Txns'
    BY <1>1, <1>3 DEF Txns
  <1>5. Row \subseteq Row' /\ Job \subseteq Job' /\ PublisherState \subseteq PublisherState'
    BY <1>4 DEF Row, Job, PublisherState
  <1>6. WorkerState \subseteq WorkerState'
    BY <1>5 DEF WorkerState, createTransaction
  <1>7. jobs' \in Seq(Job')
    BY <1>5, SeqMonotonic DEF TypeOK, createTransaction
  <1>8. publisher' \in [Servers -> PublisherState'] /\ worker' \in [Servers -> WorkerState']
    BY <1>5, <1>6 DEF TypeOK, createTransaction
  <1>9. failing' \in [Servers -> SUBSET Txns']
    BY <1>4 DEF TypeOK, createTransaction
  <1>10. QED
    BY <1>1, <1>2, <1>5, <1>7, <1>8, <1>9 DEF TypeOK, createTransaction

FaultRecord == [n : 0 .. MaxFaults, kinds : SUBSET FaultKinds]

\* Counting a fault keeps the fault record well typed.
LEMMA FaultType == ASSUME TypeOK, NEW kind, Fault(kind) PROVE faults' \in FaultRecord
  BY DEF TypeOK, Fault, FaultRecord

\* Steps of the publisher.
LEMMA TypePublisher ==
  ASSUME TypeOK, NEW s \in Servers, NEW p \in PublisherState,
         publisher' = [publisher EXCEPT ![s] = p],
         UNCHANGED <<transactions, logs, chain, backups, worker, failing>>,
         faults' \in FaultRecord,
         outbox' \in Seq(OutboxRow), Len(outbox') = Len(outbox),
         jobs' \in Seq(Job), Len(jobs') \in {Len(jobs), Len(jobs) + 1}
  PROVE  TypeOK'
  <1>1. publisher' \in [Servers -> PublisherState']
    BY SameTypes DEF TypeOK
  <1>2. worker' \in [Servers -> WorkerState']
    BY SameTypes DEF TypeOK, WorkerState
  <1>3. QED
    BY <1>1, <1>2, SameTypes DEF TypeOK, FaultRecord

\* The publisher states the scheduler moves between are well typed.
LEMMA PublisherType ==
  /\ \A pc \in PublisherPcs : Publisher(pc) \in PublisherState
  /\ \A batch, claimed \in SUBSET Txns : Continue(batch, claimed) \in PublisherState
  BY DEF Publisher, Continue, PublisherState, PublisherPcs

\* Boot keeps every variable well typed.
LEMMA TypeBoot == ASSUME TypeOK, NEW s \in Servers, Boot(s) PROVE TypeOK'
  <1>1. Publisher("starting") \in PublisherState
    BY PublisherType DEF PublisherPcs
  <1>2. QED
    BY <1>1, TypePublisher DEF Boot, TypeOK, FaultRecord

\* resetStuckProcessingEvents keeps every variable well typed.
LEMMA TypeReset == ASSUME TypeOK, NEW s \in Servers, resetStuckProcessingEvents(s) PROVE TypeOK'
  <1>1. Publisher("idle") \in PublisherState
    BY PublisherType DEF PublisherPcs
  <1>2. \A t \in Txns : outbox[t] \in OutboxRow
    BY ElementOfSeq DEF TypeOK, Txns
  <1>3. outbox' \in [1 .. Len(outbox) -> OutboxRow]
    BY <1>2, WrittenType DEF resetStuckProcessingEvents, TypeOK, Txns, OutboxStatus
  <1>4. Len(outbox) \in Nat
    BY DEF TypeOK
  <1>5. outbox' \in Seq(OutboxRow)
    BY <1>3, <1>4, SeqDef
  <1>6. DOMAIN outbox' = 1 .. Len(outbox') /\ Len(outbox') \in Nat
    BY <1>5, LenProperties
  <1>7. Len(outbox') = Len(outbox)
    BY <1>3, <1>4, <1>6
  <1>8. QED
    BY <1>1, <1>5, <1>7, TypePublisher DEF resetStuckProcessingEvents, TypeOK, FaultRecord

\* findCandidates keeps every variable well typed.
LEMMA TypeFind == ASSUME TypeOK, NEW s \in Servers, findCandidates(s) PROVE TypeOK'
  <1>1. [Publisher("claim") EXCEPT !.batch = OldestFew(Pending)] \in PublisherState
    BY DEF Publisher, PublisherState, PublisherPcs, OldestFew, Pending
  <1>2. QED
    BY <1>1, TypePublisher DEF findCandidates, TypeOK, FaultRecord

\* claimEvent keeps every variable well typed.
LEMMA TypeClaim == ASSUME TypeOK, NEW s \in Servers, claimEvent(s) PROVE TypeOK'
  <1>1. publisher[s] \in PublisherState
    BY DEF TypeOK
  <1>2. PICK t \in publisher[s].batch :
          \/ /\ outbox' = [outbox EXCEPT ![t] = Written("PROCESSING")]
             /\ publisher' = [publisher EXCEPT
                    ![s] = Continue(publisher[s].batch \ {t}, publisher[s].claimed \cup {t})]
          \/ /\ publisher' = [publisher EXCEPT
                    ![s] = Continue(publisher[s].batch \ {t}, publisher[s].claimed)]
             /\ UNCHANGED outbox
    BY DEF claimEvent
  <1>3. t \in Txns
    BY <1>1 DEF PublisherState
  <1>4. /\ Continue(publisher[s].batch \ {t}, publisher[s].claimed \cup {t}) \in PublisherState
        /\ Continue(publisher[s].batch \ {t}, publisher[s].claimed) \in PublisherState
    BY <1>1, <1>3, PublisherType DEF PublisherState
  <1>5. outbox' \in Seq(OutboxRow) /\ Len(outbox') = Len(outbox)
    BY <1>2, <1>3, OutboxWrite, WrittenType DEF OutboxStatus, TypeOK
  <1>6. QED
    BY <1>2, <1>4, <1>5, TypePublisher DEF claimEvent, TypeOK, FaultRecord

\* claimFails keeps every variable well typed.
LEMMA TypeClaimFails == ASSUME TypeOK, NEW s \in Servers, claimFails(s) PROVE TypeOK'
  <1>1. publisher[s] \in PublisherState
    BY DEF TypeOK
  <1>2. PICK t \in publisher[s].batch :
          UNCHANGED outbox \/ outbox' = [outbox EXCEPT ![t] = Written("PROCESSING")]
    BY DEF claimFails
  <1>3. t \in Txns
    BY <1>1 DEF PublisherState
  <1>4. outbox' \in Seq(OutboxRow) /\ Len(outbox') = Len(outbox)
    BY <1>2, <1>3, OutboxWrite, WrittenType DEF OutboxStatus, TypeOK
  <1>5. Publisher("idle") \in PublisherState
    BY PublisherType DEF PublisherPcs
  <1>6. faults' \in FaultRecord
    BY FaultType DEF claimFails
  <1>7. QED
    BY <1>4, <1>5, <1>6, TypePublisher DEF claimFails, TypeOK

\* enqueueEvent keeps every variable well typed.
LEMMA TypeEnqueue == ASSUME TypeOK, NEW s \in Servers, enqueueEvent(s) PROVE TypeOK'
  <1>1. publisher[s] \in PublisherState
    BY DEF TypeOK
  <1>2. PICK t \in publisher[s].claimed :
          /\ jobs' = Append(jobs, NewJob(t))
          /\ publisher' = [publisher EXCEPT ![s] = Continue({}, publisher[s].claimed \ {t})]
    BY DEF enqueueEvent
  <1>3. t \in Txns
    BY <1>1 DEF PublisherState
  <1>4. Continue({}, publisher[s].claimed \ {t}) \in PublisherState
    BY <1>1, PublisherType DEF PublisherState
  <1>5. jobs' \in Seq(Job) /\ Len(jobs') = Len(jobs) + 1
    BY <1>2, <1>3, JobAdd
  <1>6. QED
    BY <1>2, <1>4, <1>5, TypePublisher DEF enqueueEvent, TypeOK, FaultRecord

\* enqueueFails keeps every variable well typed.
LEMMA TypeEnqueueFails == ASSUME TypeOK, NEW s \in Servers, enqueueFails(s) PROVE TypeOK'
  <1>1. publisher[s] \in PublisherState
    BY DEF TypeOK
  <1>2. PICK t \in publisher[s].claimed : UNCHANGED jobs \/ jobs' = Append(jobs, NewJob(t))
    BY DEF enqueueFails
  <1>3. t \in Txns
    BY <1>1 DEF PublisherState
  <1>4. [publisher[s] EXCEPT !.pc = "rollback"] \in PublisherState
    BY <1>1 DEF PublisherState, PublisherPcs
  <1>5. jobs' \in Seq(Job) /\ Len(jobs') \in {Len(jobs), Len(jobs) + 1}
    BY <1>2, <1>3, JobAdd DEF TypeOK
  <1>6. faults' \in FaultRecord
    BY FaultType DEF enqueueFails
  <1>7. publisher' = [publisher EXCEPT ![s] = [publisher[s] EXCEPT !.pc = "rollback"]]
    BY DEF enqueueFails
  <1>8. QED
    BY <1>4, <1>5, <1>6, <1>7, TypePublisher DEF enqueueFails, TypeOK

\* rollbackClaim keeps every variable well typed.
LEMMA TypeRollback == ASSUME TypeOK, NEW s \in Servers, rollbackClaim(s) PROVE TypeOK'
  <1>1. publisher[s] \in PublisherState
    BY DEF TypeOK
  <1>2. PICK t \in publisher[s].claimed :
          /\ outbox' = [outbox EXCEPT ![t] = Written("PENDING")]
          /\ publisher' = [publisher EXCEPT ![s] = Continue({}, publisher[s].claimed \ {t})]
    BY DEF rollbackClaim
  <1>3. t \in Txns
    BY <1>1 DEF PublisherState
  <1>4. Continue({}, publisher[s].claimed \ {t}) \in PublisherState
    BY <1>1, PublisherType DEF PublisherState
  <1>5. outbox' \in Seq(OutboxRow) /\ Len(outbox') = Len(outbox)
    BY <1>2, <1>3, OutboxWrite, WrittenType DEF OutboxStatus
  <1>6. QED
    BY <1>2, <1>4, <1>5, TypePublisher DEF rollbackClaim, TypeOK, FaultRecord

\* rollbackFails keeps every variable well typed.
LEMMA TypeRollbackFails == ASSUME TypeOK, NEW s \in Servers, rollbackFails(s) PROVE TypeOK'
  <1>1. Publisher("idle") \in PublisherState
    BY PublisherType DEF PublisherPcs
  <1>2. faults' \in FaultRecord
    BY FaultType DEF rollbackFails
  <1>3. QED
    BY <1>1, <1>2, TypePublisher DEF rollbackFails, TypeOK

\* Steps of the worker and the queue: one worker changes, one job may.
LEMMA TypeWorker ==
  ASSUME TypeOK, NEW s \in Servers, NEW w \in WorkerState, w.pc # "idle" => w.job # 0,
         worker' = [worker EXCEPT ![s] = w],
         UNCHANGED <<transactions, publisher>>,
         outbox' \in Seq(OutboxRow), Len(outbox') = Len(outbox),
         jobs' \in Seq(Job), Len(jobs') = Len(jobs),
         logs' \subseteq Row, chain' \in [Users -> ChainHead], backups' \subseteq Row,
         failing' \in [Servers -> SUBSET Txns], faults' \in FaultRecord
  PROVE  TypeOK'
  <1>1. worker' \in [Servers -> WorkerState']
    BY SameTypes DEF TypeOK
  <1>2. \A q \in Servers : worker'[q].pc # "idle" => worker'[q].job # 0
    BY DEF TypeOK
  <1>3. QED
    BY <1>1, <1>2, SameTypes DEF TypeOK, FaultRecord

\* The worker states the audit worker moves between are well typed.
LEMMA WorkerType ==
  ASSUME NEW pc \in WorkerPcs, NEW k \in 0 .. Len(jobs)
  PROVE  Worker(pc, k) \in WorkerState /\ Worker(pc, k).job = k /\ Worker(pc, k).pc = pc
  <1>1. NoHead \in ChainHead
    BY EmptySeq DEF NoHead, Genesis, ChainHead, Hash
  <1>2. QED
    BY <1>1 DEF Worker, WorkerState

\* takeJob keeps every variable well typed.
LEMMA TypeTake == ASSUME TypeOK, NEW s \in Servers, takeJob(s) PROVE TypeOK'
  <1>1. PICK k \in DOMAIN jobs :
          /\ jobs' = [jobs EXCEPT ![k] = [jobs[k] EXCEPT !.state = "active", !.by = s]]
          /\ worker' = [worker EXCEPT ![s] = Worker("check", k)]
    BY DEF takeJob
  <1>2. k \in 1 .. Len(jobs)
    BY LenProperties DEF TypeOK
  <1>3. jobs[k] \in Job
    BY <1>2, ElementOfSeq DEF TypeOK
  <1>4. [jobs[k] EXCEPT !.state = "active", !.by = s] \in Job
    BY <1>3 DEF Job, Unfinished
  <1>5. jobs' \in Seq(Job) /\ Len(jobs') = Len(jobs)
    BY <1>1, <1>4, JobWrite
  <1>6. Worker("check", k) \in WorkerState /\ Worker("check", k).job # 0
    BY <1>2, WorkerType DEF WorkerPcs
  <1>7. QED
    BY <1>1, <1>5, <1>6, TypeWorker DEF takeJob, TypeOK, FaultRecord

\* checkExistingLog keeps every variable well typed.
LEMMA TypeCheck == ASSUME TypeOK, NEW s \in Servers, checkExistingLog(s) PROVE TypeOK'
  <1>1. worker[s] \in WorkerState /\ worker[s].job # 0
    BY DEF TypeOK, checkExistingLog
  <1>2. PICK w \in WorkerState : w.job = worker[s].job /\ worker' = [worker EXCEPT ![s] = w]
    <2>1. CASE worker' = [worker EXCEPT ![s].pc = "begin"]
      <3>1. [worker[s] EXCEPT !.pc = "begin"] \in WorkerState
        BY <1>1 DEF WorkerState, WorkerPcs
      <3>2. QED
        BY <1>1, <2>1, <3>1 DEF WorkerState
    <2>2. ASSUME NEW r \in LogsOf(JobTxn(s)),
                 worker' = [worker EXCEPT ![s].pc = AfterExistingLog, ![s].row = r]
          PROVE  \E w \in WorkerState : w.job = worker[s].job /\ worker' = [worker EXCEPT ![s] = w]
      <3>1. r \in Row
        BY <2>2 DEF LogsOf, TypeOK
      <3>2. [worker[s] EXCEPT !.pc = AfterExistingLog, !.row = r] \in WorkerState
        BY <1>1, <3>1 DEF WorkerState, WorkerPcs, AfterExistingLog
      <3>3. QED
        BY <1>1, <2>2, <3>2 DEF WorkerState
    <2>3. QED
      BY <2>1, <2>2 DEF checkExistingLog
  <1>3. QED
    BY <1>1, <1>2, TypeWorker DEF checkExistingLog, TypeOK, FaultRecord

\* readChainState keeps every variable well typed.
LEMMA TypeRead == ASSUME TypeOK, NEW s \in Servers, readChainState(s) PROVE TypeOK'
  <1>1. worker[s] \in WorkerState /\ worker[s].job # 0
    BY DEF TypeOK, readChainState
  <1>2. chain[JobUser(s)] \in ChainHead
    BY BusyWorker DEF TypeOK, readChainState
  <1>3. [worker[s] EXCEPT !.pc = "commit", !.head = chain[JobUser(s)]] \in WorkerState
    BY <1>1, <1>2 DEF WorkerState, WorkerPcs
  <1>4. [worker[s] EXCEPT !.pc = "commit", !.head = chain[JobUser(s)]].job # 0
    BY <1>1 DEF WorkerState
  <1>5. worker' = [worker EXCEPT ![s] = [worker[s] EXCEPT !.pc = "commit", !.head = chain[JobUser(s)]]]
    BY DEF readChainState
  <1>6. QED
    BY <1>3, <1>4, <1>5, TypeWorker DEF readChainState, TypeOK, FaultRecord

\* What a commit appends is a row, and what it leaves is a head.
LEMMA NewRowType ==
  ASSUME TypeOK, NEW s \in Servers, worker[s].pc = "commit"
  PROVE  /\ NewRow(s) \in Row
         /\ [seq |-> NewRow(s).seq, hash |-> NewRow(s).hash] \in ChainHead
  <1>1. /\ JobTxn(s) \in Txns /\ JobUser(s) \in Users
        /\ jobs[worker[s].job] \in Job
    BY BusyWorker
  <1>2. worker[s].head \in ChainHead
    BY DEF TypeOK, WorkerState
  <1>3. Now(s) \in Nat
    BY <1>1 DEF Now, Job
  <1>4. PreviousHash(worker[s].head) \in Hash
    BY <1>2 DEF PreviousHash, ChainHead, Genesis, Hash
  <1>5. <<JobTxn(s), Now(s)>> \in Nat \X Nat
    BY <1>1, <1>3 DEF Txns
  <1>6. generateHash(JobTxn(s), PreviousHash(worker[s].head), Now(s)) \in Hash
    BY <1>4, <1>5, AppendProperties DEF generateHash, Hash
  <1>7. worker[s].head.seq + 1 \in Nat
    BY <1>2 DEF ChainHead
  <1>8. QED
    BY <1>1, <1>3, <1>4, <1>6, <1>7 DEF NewRow, Row, ChainHead

\* Appending the new row (the worker's database transaction) keeps rows and heads well typed.
LEMMA AppendRowType ==
  ASSUME TypeOK, NEW s \in Servers, worker[s].pc = "commit", AppendRow(s)
  PROVE  logs' \subseteq Row /\ chain' \in [Users -> ChainHead]
  BY NewRowType DEF AppendRow, TypeOK, Row

\* commitRow keeps every variable well typed.
LEMMA TypeCommit == ASSUME TypeOK, NEW s \in Servers, commitRow(s) PROVE TypeOK'
  <1>1. worker[s] \in WorkerState /\ worker[s].job # 0
    BY DEF TypeOK, commitRow
  <1>2. [worker[s] EXCEPT !.pc = "backup", !.row = NewRow(s)] \in WorkerState
    BY <1>1, NewRowType DEF WorkerState, WorkerPcs, commitRow
  <1>3. [worker[s] EXCEPT !.pc = "backup", !.row = NewRow(s)].job # 0
    BY <1>1 DEF WorkerState
  <1>4. worker' = [worker EXCEPT ![s] = [worker[s] EXCEPT !.pc = "backup", !.row = NewRow(s)]]
    BY DEF commitRow
  <1>5. QED
    BY <1>2, <1>3, <1>4, AppendRowType, TypeWorker DEF commitRow, TypeOK, FaultRecord

\* A worker in the middle of a job holds a typed record; after a commit or a found
\* row, its row is a SecurityLog row.
LEMMA PutBackupType ==
  ASSUME TypeOK, NEW s \in Servers, worker[s].row \in Row, PutBackup(s)
  PROVE  backups' \subseteq Row
  BY DEF PutBackup, buildBackupPayload, TypeOK

\* Marking an outbox row PROCESSED keeps the outbox well typed.
LEMMA MarkType ==
  ASSUME TypeOK, NEW s \in Servers, worker[s].pc # "idle", MarkProcessed(s)
  PROVE  outbox' \in Seq(OutboxRow) /\ Len(outbox') = Len(outbox)
  BY BusyWorker, OutboxWrite, WrittenType DEF MarkProcessed, OutboxStatus

\* writeTransactionBackup keeps every variable well typed.
LEMMA TypeBackup ==
  ASSUME TypeOK, NEW s \in Servers, worker[s].row \in Row, writeTransactionBackup(s)
  PROVE  TypeOK'
  <1>1. worker[s] \in WorkerState /\ worker[s].job # 0
    BY DEF TypeOK, writeTransactionBackup
  <1>2. [worker[s] EXCEPT !.pc = "mark"] \in WorkerState
    BY <1>1 DEF WorkerState, WorkerPcs
  <1>3. [worker[s] EXCEPT !.pc = "mark"].job # 0
    BY <1>1 DEF WorkerState
  <1>4. worker' = [worker EXCEPT ![s] = [worker[s] EXCEPT !.pc = "mark"]]
    BY DEF writeTransactionBackup
  <1>5. QED
    BY <1>2, <1>3, <1>4, PutBackupType, TypeWorker DEF writeTransactionBackup, TypeOK, FaultRecord

\* markProcessed keeps every variable well typed.
LEMMA TypeMark == ASSUME TypeOK, NEW s \in Servers, markProcessed(s) PROVE TypeOK'
  <1>1. worker[s] \in WorkerState /\ worker[s].job # 0
    BY DEF TypeOK, markProcessed
  <1>2. [worker[s] EXCEPT !.pc = "finish"] \in WorkerState
    BY <1>1 DEF WorkerState, WorkerPcs
  <1>3. [worker[s] EXCEPT !.pc = "finish"].job # 0
    BY <1>1 DEF WorkerState
  <1>4. worker' = [worker EXCEPT ![s] = [worker[s] EXCEPT !.pc = "finish"]]
    BY DEF markProcessed
  <1>5. QED
    BY <1>2, <1>3, <1>4, MarkType, TypeWorker DEF markProcessed, TypeOK, FaultRecord

\* finishJob keeps every variable well typed.
LEMMA TypeFinish == ASSUME TypeOK, NEW s \in Servers, finishJob(s) PROVE TypeOK'
  <1>1. /\ worker[s].job \in DOMAIN jobs
        /\ jobs[worker[s].job] \in Job
    BY BusyWorker DEF finishJob
  <1>2. [jobs[worker[s].job] EXCEPT !.state = "completed", !.by = "none"] \in Job
    BY <1>1 DEF Job
  <1>3. jobs' \in Seq(Job) /\ Len(jobs') = Len(jobs)
    BY <1>1, <1>2, JobWrite DEF finishJob, TypeOK
  <1>4. IdleWorker \in WorkerState /\ IdleWorker.pc = "idle"
    BY WorkerType DEF IdleWorker, WorkerPcs, TypeOK
  <1>5. QED
    BY <1>3, <1>4, TypeWorker DEF finishJob, TypeOK, FaultRecord

\* A failing job keeps the queue and the failed handlers well typed.
LEMMA FailJobType ==
  ASSUME TypeOK, NEW k \in DOMAIN jobs, NEW s \in Servers, NEW retry \in BOOLEAN, FailJob(k, s, retry)
  PROVE  jobs' \in Seq(Job) /\ Len(jobs') = Len(jobs) /\ failing' \in [Servers -> SUBSET Txns]
  <1>1. k \in 1 .. Len(jobs)
    BY LenProperties DEF TypeOK
  <1>2. jobs[k] \in Job
    BY <1>1, ElementOfSeq DEF TypeOK
  <1> DEFINE failed == [jobs[k] EXCEPT
                 !.state = IF retry /\ Retries(jobs[k].made + 1) THEN "delayed" ELSE "failed",
                 !.made = jobs[k].made + 1, !.by = "none"]
  <1>3. failed \in Job
    <2>1. \A st \in {"delayed", "failed"}, n \in Nat :
            [jobs[k] EXCEPT !.state = st, !.made = n, !.by = "none"] \in Job
      BY <1>2 DEF Job, Unfinished
    <2>2. (IF retry /\ Retries(jobs[k].made + 1) THEN "delayed" ELSE "failed") \in {"delayed", "failed"}
      OBVIOUS
    <2>3. jobs[k].made + 1 \in Nat
      BY <1>2 DEF Job
    <2>4. QED
      BY <2>1, <2>2, <2>3
  <1>4. jobs' = [jobs EXCEPT ![k] = failed]
    BY DEF FailJob
  <1>5. failing' \in [Servers -> SUBSET Txns]
    BY <1>2 DEF FailJob, TypeOK, Job
  <1>6. QED
    BY <1>3, <1>4, <1>5, JobWrite

\* A handler that throws keeps worker, queue and failed handlers well typed.
LEMMA ThrowType ==
  ASSUME TypeOK, NEW s \in Servers, worker[s].pc # "idle", HandlerThrows(s)
  PROVE  /\ jobs' \in Seq(Job) /\ Len(jobs') = Len(jobs)
         /\ failing' \in [Servers -> SUBSET Txns]
         /\ worker' = [worker EXCEPT ![s] = IdleWorker]
         /\ IdleWorker \in WorkerState /\ IdleWorker.pc = "idle"
  <1>1. worker[s].job \in DOMAIN jobs
    BY BusyWorker
  <1>2. IdleWorker \in WorkerState /\ IdleWorker.pc = "idle"
    BY WorkerType DEF IdleWorker, WorkerPcs, TypeOK
  <1>3. QED
    BY <1>1, <1>2, FailJobType DEF HandlerThrows, TypeOK

\* commitConflicts keeps every variable well typed.
LEMMA TypeConflict == ASSUME TypeOK, NEW s \in Servers, commitConflicts(s) PROVE TypeOK'
  <1>1. worker[s].pc # "idle"
    BY DEF commitConflicts
  <1>2. QED
    BY <1>1, ThrowType, TypeWorker DEF commitConflicts, HandlerThrows, TypeOK, FaultRecord

\* workerCallFails keeps every variable well typed.
LEMMA TypeCallFails ==
  ASSUME TypeOK, NEW s \in Servers, worker[s].pc = "backup" => worker[s].row \in Row, workerCallFails(s)
  PROVE  TypeOK'
  <1>1. worker[s].pc # "idle" /\ HandlerThrows(s)
    BY DEF workerCallFails
  <1>2. faults' \in FaultRecord
    BY FaultType DEF workerCallFails
  <1>3. /\ outbox' \in Seq(OutboxRow) /\ Len(outbox') = Len(outbox)
        /\ logs' \subseteq Row /\ chain' \in [Users -> ChainHead] /\ backups' \subseteq Row
    <2>1. CASE UNCHANGED <<outbox, logs, chain, backups>>
      BY <2>1 DEF TypeOK
    <2>2. CASE worker[s].pc = "commit" /\ AppendRow(s) /\ UNCHANGED <<outbox, backups>>
      BY <2>2, AppendRowType DEF TypeOK
    <2>3. CASE worker[s].pc = "backup" /\ PutBackup(s) /\ UNCHANGED <<outbox, logs, chain>>
      BY <2>3, PutBackupType DEF TypeOK
    <2>4. CASE worker[s].pc = "mark" /\ MarkProcessed(s) /\ UNCHANGED <<logs, chain, backups>>
      BY <2>4, MarkType DEF TypeOK
    <2>5. QED
      BY <2>1, <2>2, <2>3, <2>4 DEF workerCallFails
  <1>4. QED
    BY <1>1, <1>2, <1>3, ThrowType, TypeWorker DEF HandlerThrows

\* crash keeps every variable well typed.
LEMMA TypeCrash == ASSUME TypeOK, NEW s \in Servers, crash(s) PROVE TypeOK'
  <1>1. faults' \in FaultRecord
    BY FaultType DEF crash
  <1>2. IdleWorker \in WorkerState /\ IdleWorker.pc = "idle"
    BY WorkerType DEF IdleWorker, WorkerPcs, TypeOK
  <1>3. Publisher("down") \in PublisherState
    BY PublisherType DEF PublisherPcs
  <1>4. worker' \in [Servers -> WorkerState] /\ publisher' \in [Servers -> PublisherState]
        /\ failing' \in [Servers -> SUBSET Txns]
    BY <1>2, <1>3 DEF crash, TypeOK
  <1>5. \A q \in Servers : worker'[q].pc # "idle" => worker'[q].job # 0
    BY <1>2 DEF crash, TypeOK
  <1>6. QED
    BY <1>1, <1>4, <1>5, SameTypes DEF crash, TypeOK, FaultRecord

\* Steps that leave publishers and workers alone.
LEMMA TypeQueue ==
  ASSUME TypeOK, UNCHANGED <<transactions, publisher, worker, logs, chain, backups>>,
         outbox' \in Seq(OutboxRow), Len(outbox') = Len(outbox),
         jobs' \in Seq(Job), Len(jobs') = Len(jobs),
         failing' \in [Servers -> SUBSET Txns], faults' \in FaultRecord
  PROVE  TypeOK'
  BY SameTypes DEF TypeOK, FaultRecord

\* markFailed keeps every variable well typed.
LEMMA TypeMarkFailed == ASSUME TypeOK, NEW s \in Servers, markFailed(s) PROVE TypeOK'
  <1>1. PICK t \in failing[s] : /\ failing' = [failing EXCEPT ![s] = failing[s] \ {t}]
                                /\ outbox' = [outbox EXCEPT ![t] = Written("FAILED")]
    BY DEF markFailed
  <1>2. t \in Txns /\ failing' \in [Servers -> SUBSET Txns]
    BY <1>1 DEF TypeOK
  <1>3. outbox' \in Seq(OutboxRow) /\ Len(outbox') = Len(outbox)
    BY <1>1, <1>2, OutboxWrite, WrittenType DEF OutboxStatus
  <1>4. QED
    BY <1>2, <1>3, TypeQueue DEF markFailed, TypeOK, FaultRecord

\* BecomeStale keeps every variable well typed.
LEMMA TypeStale == ASSUME TypeOK, NEW t \in Txns, BecomeStale(t) PROVE TypeOK'
  <1>1. outbox[t] \in OutboxRow
    BY ElementOfSeq DEF TypeOK, Txns
  <1>2. [outbox[t] EXCEPT !.stale = TRUE] \in OutboxRow
    BY <1>1 DEF OutboxRow
  <1>3. outbox' \in Seq(OutboxRow) /\ Len(outbox') = Len(outbox)
    BY <1>2, OutboxWrite DEF BecomeStale
  <1>4. faults' \in FaultRecord
    BY FaultType DEF BecomeStale, TypeOK, FaultRecord
  <1>5. QED
    BY <1>3, <1>4, TypeQueue DEF BecomeStale, TypeOK

\* promoteDelayed keeps every variable well typed.
LEMMA TypePromote == ASSUME TypeOK, NEW k \in DOMAIN jobs, promoteDelayed(k) PROVE TypeOK'
  <1>1. k \in 1 .. Len(jobs)
    BY LenProperties DEF TypeOK
  <1>2. jobs[k] \in Job
    BY <1>1, ElementOfSeq DEF TypeOK
  <1>3. [jobs[k] EXCEPT !.state = "wait"] \in Job
    BY <1>2 DEF Job, Unfinished
  <1>4. jobs' \in Seq(Job) /\ Len(jobs') = Len(jobs)
    BY <1>3, JobWrite DEF promoteDelayed
  <1>5. QED
    BY <1>4, TypeQueue DEF promoteDelayed, TypeOK, FaultRecord

\* stalledJob keeps every variable well typed.
LEMMA TypeStalled ==
  ASSUME TypeOK, NEW k \in DOMAIN jobs, NEW s \in Servers, stalledJob(k, s) PROVE TypeOK'
  <1>1. k \in 1 .. Len(jobs)
    BY LenProperties DEF TypeOK
  <1>2. jobs[k] \in Job
    BY <1>1, ElementOfSeq DEF TypeOK
  <1>3. [jobs[k] EXCEPT !.state = "wait", !.stalls = 1, !.by = "none"] \in Job
    BY <1>2 DEF Job, Unfinished
  <1>4. /\ jobs' \in Seq(Job) /\ Len(jobs') = Len(jobs)
        /\ failing' \in [Servers -> SUBSET Txns]
    <2>1. CASE jobs[k].stalls = 0
      BY <1>3, <2>1, JobWrite DEF stalledJob, TypeOK
    <2>2. CASE jobs[k].stalls # 0
      BY <2>2, FailJobType DEF stalledJob
    <2>3. QED
      BY <2>1, <2>2
  <1>5. faults' \in FaultRecord
    BY FaultType DEF stalledJob, TypeOK, FaultRecord
  <1>6. QED
    BY <1>4, <1>5, TypeQueue DEF stalledJob, TypeOK

-----------------------------------------------------------------------------
(* The inductive invariant *)

\* A worker about to commit read its user's chain head, or an older one.
HeadsFresh ==
  \A s \in Servers : worker[s].pc = "commit" =>
    /\ worker[s].head.seq <= chain[JobUser(s)].seq
    /\ worker[s].head.seq = chain[JobUser(s)].seq => worker[s].head = chain[JobUser(s)]

\* From the commit on a worker carries a SecurityLog row of its job's transaction,
\* and from the S3 write on that row has its backup.
RowsLogged ==
  \A s \in Servers :
    /\ worker[s].pc \in {"backup", "mark", "finish"} =>
         worker[s].row \in logs /\ worker[s].row.txn = JobTxn(s)
    /\ worker[s].pc \in {"mark", "finish"} => worker[s].row \in backups

BackupsLogged == backups \subseteq logs

IInv == /\ TypeOK
        /\ ChainLinked
        /\ HeadsFresh
        /\ RowsLogged
        /\ BackupsLogged
        /\ ProcessedIsDurable

\* What the steps have in common: rows of Transaction and the transactions of jobs
\* are never changed, a worker stays as it is or drops its job, and an outbox row
\* becomes PROCESSED only when its transaction has a backup.
TxnsKept == \A t \in Txns : t \in Txns' /\ transactions'[t] = transactions[t]

JobsKept == \A k \in 1 .. Len(jobs) : jobs'[k].txn = jobs[k].txn

WorkerKept(s) == worker'[s] = worker[s] \/ worker'[s].pc = "idle"

NewlyDurable ==
  \A t \in Txns' : outbox'[t].status = "PROCESSED" =>
    t \in Txns /\ (outbox[t].status = "PROCESSED" \/ \E b \in backups \cap logs : b.txn = t)

\* The strengthened invariant holds initially.
LEMMA InvInit == Init => IInv
  <1>1. ASSUME Init PROVE ChainLinked /\ HeadsFresh /\ RowsLogged /\ BackupsLogged
    BY <1>1 DEF Init, ChainLinked, SeqWithinHead, OneRowPerSeq, NoSeqGap, LinksPrevious,
                HeadIsLastRow, HeadsFresh, RowsLogged, BackupsLogged, NoHead, IdleWorker, Worker
  <1>2. ASSUME Init PROVE ProcessedIsDurable
    BY <1>2 DEF Init, ProcessedIsDurable, Txns
  <1>3. QED
    BY <1>1, <1>2, TypeInit DEF IInv

\* The chain does not depend on outbox, queue and workers.
LEMMA ChainKept ==
  ASSUME TypeOK, ChainLinked, TxnsKept, UNCHANGED <<logs, chain>>
  PROVE  ChainLinked'
  <1>1. SeqWithinHead'
    BY DEF ChainLinked, SeqWithinHead, TxnsKept, TypeOK, Row
  <1>2. QED
    BY <1>1 DEF ChainLinked, OneRowPerSeq, NoSeqGap, LinksPrevious, HeadIsLastRow, Replays

\* A worker that is kept keeps its facts while logs and backups grow and the chains stay.
LEMMA HeadKept ==
  ASSUME TypeOK, HeadsFresh, TxnsKept, JobsKept, UNCHANGED chain, NEW s \in Servers, WorkerKept(s)
  PROVE  worker'[s].pc = "commit" =>
           /\ worker'[s].head.seq <= chain'[JobUser(s)'].seq
           /\ worker'[s].head.seq = chain'[JobUser(s)'].seq => worker'[s].head = chain'[JobUser(s)']
  <1>1. SUFFICES ASSUME worker'[s].pc = "commit"
                 PROVE  worker'[s] = worker[s] /\ JobUser(s)' = JobUser(s)
    BY DEF HeadsFresh, WorkerKept
  <1>2. worker'[s] = worker[s]
    BY <1>1 DEF WorkerKept
  <1>3. JobTxn(s)' = JobTxn(s)
    BY <1>1, <1>2, BusyWorker DEF JobTxn, JobsKept
  <1>4. JobUser(s)' = JobUser(s)
    BY <1>1, <1>2, <1>3, BusyWorker DEF JobUser, TxnsKept
  <1>5. QED
    BY <1>2, <1>4

\* A row stays a row of the chain while the log only grows and the heads are kept.
LEMMA RowKept ==
  ASSUME TypeOK, RowsLogged, JobsKept, logs \subseteq logs', backups \subseteq backups',
         NEW s \in Servers, WorkerKept(s)
  PROVE  /\ worker'[s].pc \in {"backup", "mark", "finish"} =>
              worker'[s].row \in logs' /\ worker'[s].row.txn = JobTxn(s)'
         /\ worker'[s].pc \in {"mark", "finish"} => worker'[s].row \in backups'
  <1>1. SUFFICES ASSUME worker'[s].pc \in {"backup", "mark", "finish"}
                 PROVE  worker'[s] = worker[s] /\ JobTxn(s)' = JobTxn(s)
    BY DEF RowsLogged
  <1>2. worker'[s] = worker[s]
    BY <1>1 DEF WorkerKept
  <1>3. JobTxn(s)' = JobTxn(s)
    BY <1>1, <1>2, BusyWorker DEF JobTxn, JobsKept
  <1>4. QED
    BY <1>2, <1>3

\* ProcessedIsDurable survives any step that only adds rows and backups and marks nothing.
LEMMA DurableKept ==
  ASSUME ProcessedIsDurable, NewlyDurable, logs \subseteq logs', backups \subseteq backups'
  PROVE  ProcessedIsDurable'
  BY DEF ProcessedIsDurable, NewlyDurable

\* A step that touches neither logs, chains nor backups.
LEMMA QuietStep ==
  ASSUME IInv, TypeOK', TxnsKept, JobsKept, NewlyDurable, UNCHANGED <<logs, chain, backups>>,
         \A s \in Servers : WorkerKept(s)
  PROVE  IInv'
  <1>1. HeadsFresh'
    BY HeadKept DEF IInv, HeadsFresh
  <1>2. RowsLogged'
    BY RowKept DEF IInv, RowsLogged
  <1>3. QED
    BY <1>1, <1>2, ChainKept, DurableKept DEF IInv, BackupsLogged

-----------------------------------------------------------------------------
(* Quiet steps, by what they write *)

\* Nothing but the queue, publishers, workers and "failed" handlers.
LEMMA QuietNoOutbox ==
  ASSUME IInv, TypeOK', UNCHANGED <<transactions, outbox, logs, chain, backups>>, JobsKept,
         \A s \in Servers : WorkerKept(s)
  PROVE  IInv'
  <1>1. TxnsKept /\ NewlyDurable
    BY DEF TxnsKept, NewlyDurable, Txns
  <1>2. QED
    BY <1>1, QuietStep

\* One outbox row as well, and not to PROCESSED.
LEMMA QuietOutbox ==
  ASSUME IInv, TypeOK', UNCHANGED <<transactions, logs, chain, backups>>, JobsKept,
         \A s \in Servers : WorkerKept(s),
         NEW t \in Txns, NEW r \in OutboxRow, outbox' = [outbox EXCEPT ![t] = r],
         r.status = "PROCESSED" =>
           outbox[t].status = "PROCESSED" \/ \E b \in backups \cap logs : b.txn = t
  PROVE  IInv'
  <1>1. TxnsKept
    BY DEF TxnsKept, Txns
  <1>2. \A u \in Txns : outbox'[u] = IF u = t THEN r ELSE outbox[u]
    BY OutboxWrite DEF IInv
  <1>3. NewlyDurable
    BY <1>2 DEF NewlyDurable, Txns
  <1>4. QED
    BY <1>1, <1>3, QuietStep

\* Jobs that do not change keep their transactions.
LEMMA SameJobs == ASSUME UNCHANGED jobs PROVE JobsKept
  BY DEF JobsKept

\* Workers that do not change keep what they hold.
LEMMA SameWorkers == ASSUME UNCHANGED worker PROVE \A s \in Servers : WorkerKept(s)
  BY DEF WorkerKept

\* Adding a job keeps the transactions of the others.
LEMMA AddedJob ==
  ASSUME TypeOK, NEW t \in Txns, jobs' = Append(jobs, NewJob(t)) PROVE JobsKept
  BY JobAdd DEF JobsKept

\* Updating a job keeps its transaction.
LEMMA UpdatedJob ==
  ASSUME TypeOK, NEW k \in DOMAIN jobs, NEW j \in Job, j.txn = jobs[k].txn,
         jobs' = [jobs EXCEPT ![k] = j]
  PROVE  JobsKept
  BY JobWrite DEF JobsKept

\* What a written outbox row reads.
LEMMA WrittenStatus ==
  \A status \in OutboxStatus : Written(status) \in OutboxRow /\ Written(status).status = status
  BY DEF Written, OutboxRow

\* createTransaction keeps the strengthened invariant.
LEMMA InvCreate == ASSUME IInv, NEW u \in Users, createTransaction(u) PROVE IInv'
  <1>1. /\ Len(transactions') = Len(transactions) + 1
        /\ \A t \in Txns : transactions'[t] = transactions[t]
    BY AppendProperties DEF createTransaction, IInv, TypeOK, Txns
  <1>2. Len(transactions) \in Nat /\ Len(outbox) = Len(transactions)
    BY DEF IInv, TypeOK
  <1>3. TxnsKept
    BY <1>1, <1>2 DEF TxnsKept, Txns
  <1>4. Written("PENDING") \in OutboxRow /\ Written("PENDING").status # "PROCESSED"
    BY WrittenStatus DEF OutboxStatus
  <1>5. /\ \A t \in Txns : outbox'[t] = outbox[t]
        /\ outbox'[Len(outbox) + 1].status # "PROCESSED"
    BY <1>2, <1>4, AppendProperties DEF createTransaction, IInv, TypeOK, Txns
  <1>6. NewlyDurable
    <2>1. \A t \in Txns' : t \in Txns \/ t = Len(outbox) + 1
      BY <1>1, <1>2 DEF Txns
    <2>2. QED
      BY <1>5, <2>1 DEF NewlyDurable
  <1>7. QED
    BY <1>3, <1>6, TypeCreate, SameJobs, SameWorkers, QuietStep DEF createTransaction, IInv

\* Boot keeps the strengthened invariant.
LEMMA InvBoot == ASSUME IInv, NEW s \in Servers, Boot(s) PROVE IInv'
  BY TypeBoot, SameJobs, SameWorkers, QuietNoOutbox DEF Boot, IInv

\* resetStuckProcessingEvents keeps the strengthened invariant.
LEMMA InvReset == ASSUME IInv, NEW s \in Servers, resetStuckProcessingEvents(s) PROVE IInv'
  <1>1. TxnsKept
    BY DEF TxnsKept, Txns, resetStuckProcessingEvents
  <1>2. Written("PENDING").status # "PROCESSED"
    BY WrittenStatus DEF OutboxStatus
  <1>3. NewlyDurable
    BY <1>2 DEF NewlyDurable, Txns, resetStuckProcessingEvents
  <1>4. QED
    BY <1>1, <1>3, TypeReset, SameJobs, SameWorkers, QuietStep DEF resetStuckProcessingEvents, IInv

\* BecomeStale keeps the strengthened invariant.
LEMMA InvStale == ASSUME IInv, NEW t \in Txns, BecomeStale(t) PROVE IInv'
  <1>1. outbox[t] \in OutboxRow
    BY ElementOfSeq DEF IInv, TypeOK, Txns
  <1>2. /\ [outbox[t] EXCEPT !.stale = TRUE] \in OutboxRow
        /\ [outbox[t] EXCEPT !.stale = TRUE].status = outbox[t].status
    BY <1>1 DEF OutboxRow
  <1>3. outbox' = [outbox EXCEPT ![t] = [outbox[t] EXCEPT !.stale = TRUE]]
    BY DEF BecomeStale
  <1>4. QED
    BY <1>2, <1>3, TypeStale, SameJobs, SameWorkers, QuietOutbox DEF BecomeStale, IInv

\* findCandidates keeps the strengthened invariant.
LEMMA InvFind == ASSUME IInv, NEW s \in Servers, findCandidates(s) PROVE IInv'
  BY TypeFind, SameJobs, SameWorkers, QuietNoOutbox DEF findCandidates, IInv

\* The publisher's writes to the outbox.
LEMMA QuietWrite ==
  ASSUME IInv, TypeOK', NEW t \in Txns, NEW status \in OutboxStatus \ {"PROCESSED"},
         UNCHANGED outbox \/ outbox' = [outbox EXCEPT ![t] = Written(status)],
         UNCHANGED <<transactions, jobs, logs, chain, backups, worker>>
  PROVE  IInv'
  <1>1. CASE UNCHANGED outbox
    BY <1>1, SameJobs, SameWorkers, QuietNoOutbox
  <1>2. CASE outbox' = [outbox EXCEPT ![t] = Written(status)]
    BY <1>2, SameJobs, SameWorkers, WrittenStatus, QuietOutbox
  <1>3. QED
    BY <1>1, <1>2

\* claimEvent keeps the strengthened invariant.
LEMMA InvClaim == ASSUME IInv, NEW s \in Servers, claimEvent(s) PROVE IInv'
  <1>1. PICK t \in publisher[s].batch :
          UNCHANGED outbox \/ outbox' = [outbox EXCEPT ![t] = Written("PROCESSING")]
    BY DEF claimEvent
  <1>2. t \in Txns
    BY DEF IInv, TypeOK, PublisherState
  <1>3. TypeOK' /\ UNCHANGED <<transactions, jobs, logs, chain, backups, worker>>
    BY TypeClaim DEF claimEvent, IInv
  <1>4. "PROCESSING" \in OutboxStatus \ {"PROCESSED"}
    BY DEF OutboxStatus
  <1>5. QED
    BY <1>1, <1>2, <1>3, <1>4, QuietWrite

\* claimFails keeps the strengthened invariant.
LEMMA InvClaimFails == ASSUME IInv, NEW s \in Servers, claimFails(s) PROVE IInv'
  <1>1. PICK t \in publisher[s].batch :
          UNCHANGED outbox \/ outbox' = [outbox EXCEPT ![t] = Written("PROCESSING")]
    BY DEF claimFails
  <1>2. t \in Txns
    BY DEF IInv, TypeOK, PublisherState
  <1>3. QED
    BY <1>1, <1>2, TypeClaimFails, QuietWrite DEF claimFails, IInv, OutboxStatus

\* rollbackClaim keeps the strengthened invariant.
LEMMA InvRollback == ASSUME IInv, NEW s \in Servers, rollbackClaim(s) PROVE IInv'
  <1>1. PICK t \in publisher[s].claimed : outbox' = [outbox EXCEPT ![t] = Written("PENDING")]
    BY DEF rollbackClaim
  <1>2. t \in Txns
    BY DEF IInv, TypeOK, PublisherState
  <1>3. QED
    BY <1>1, <1>2, TypeRollback, QuietWrite DEF rollbackClaim, IInv, OutboxStatus

\* rollbackFails keeps the strengthened invariant.
LEMMA InvRollbackFails == ASSUME IInv, NEW s \in Servers, rollbackFails(s) PROVE IInv'
  BY TypeRollbackFails, SameJobs, SameWorkers, QuietNoOutbox DEF rollbackFails, IInv

\* markFailed keeps the strengthened invariant.
LEMMA InvMarkFailed == ASSUME IInv, NEW s \in Servers, markFailed(s) PROVE IInv'
  <1>1. PICK t \in failing[s] : outbox' = [outbox EXCEPT ![t] = Written("FAILED")]
    BY DEF markFailed
  <1>2. t \in Txns
    BY DEF IInv, TypeOK
  <1>3. QED
    BY <1>1, <1>2, TypeMarkFailed, QuietWrite DEF markFailed, IInv, OutboxStatus

\* enqueueEvent keeps the strengthened invariant.
LEMMA InvEnqueue == ASSUME IInv, NEW s \in Servers, enqueueEvent(s) PROVE IInv'
  <1>1. PICK t \in publisher[s].claimed : jobs' = Append(jobs, NewJob(t))
    BY DEF enqueueEvent
  <1>2. t \in Txns
    BY DEF IInv, TypeOK, PublisherState
  <1>3. JobsKept
    BY <1>1, <1>2, AddedJob DEF IInv
  <1>4. QED
    BY <1>3, TypeEnqueue, SameWorkers, QuietNoOutbox DEF enqueueEvent, IInv

\* enqueueFails keeps the strengthened invariant.
LEMMA InvEnqueueFails == ASSUME IInv, NEW s \in Servers, enqueueFails(s) PROVE IInv'
  <1>1. PICK t \in publisher[s].claimed : UNCHANGED jobs \/ jobs' = Append(jobs, NewJob(t))
    BY DEF enqueueFails
  <1>2. t \in Txns
    BY DEF IInv, TypeOK, PublisherState
  <1>3. JobsKept
    BY <1>1, <1>2, AddedJob, SameJobs DEF IInv
  <1>4. QED
    BY <1>3, TypeEnqueueFails, SameWorkers, QuietNoOutbox DEF enqueueFails, IInv

-----------------------------------------------------------------------------
(* Steps of queue and worker *)

\* promoteDelayed keeps the strengthened invariant.
LEMMA InvPromote == ASSUME IInv, NEW k \in DOMAIN jobs, promoteDelayed(k) PROVE IInv'
  <1>1. jobs[k] \in Job
    BY LenProperties, ElementOfSeq DEF IInv, TypeOK
  <1>2. /\ [jobs[k] EXCEPT !.state = "wait"] \in Job
        /\ [jobs[k] EXCEPT !.state = "wait"].txn = jobs[k].txn
    BY <1>1 DEF Job, Unfinished
  <1>3. JobsKept
    BY <1>2, UpdatedJob DEF promoteDelayed, IInv
  <1>4. QED
    BY <1>3, TypePromote, SameWorkers, QuietNoOutbox DEF promoteDelayed, IInv

\* A failing job keeps its transaction.
LEMMA FailedJob ==
  ASSUME TypeOK, NEW k \in DOMAIN jobs, NEW s \in Servers, NEW retry \in BOOLEAN, FailJob(k, s, retry)
  PROVE  JobsKept
  <1>1. k \in 1 .. Len(jobs) /\ jobs[k] \in Job
    BY LenProperties, ElementOfSeq DEF TypeOK
  <1>2. jobs'[k].txn = jobs[k].txn
    BY <1>1 DEF FailJob, Job
  <1>3. \A m \in 1 .. Len(jobs) : m # k => jobs'[m] = jobs[m]
    BY <1>1, LenProperties DEF FailJob, TypeOK
  <1>4. QED
    BY <1>2, <1>3 DEF JobsKept

\* stalledJob keeps the strengthened invariant.
LEMMA InvStalled ==
  ASSUME IInv, NEW k \in DOMAIN jobs, NEW s \in Servers, stalledJob(k, s) PROVE IInv'
  <1>1. jobs[k] \in Job
    BY LenProperties, ElementOfSeq DEF IInv, TypeOK
  <1>2. /\ [jobs[k] EXCEPT !.state = "wait", !.stalls = 1, !.by = "none"] \in Job
        /\ [jobs[k] EXCEPT !.state = "wait", !.stalls = 1, !.by = "none"].txn = jobs[k].txn
    BY <1>1 DEF Job, Unfinished
  <1>3. JobsKept
    <2>1. CASE jobs[k].stalls = 0
      BY <1>2, <2>1, UpdatedJob DEF stalledJob, IInv
    <2>2. CASE jobs[k].stalls # 0
      BY <2>2, FailedJob DEF stalledJob, IInv
    <2>3. QED
      BY <2>1, <2>2
  <1>4. QED
    BY <1>3, TypeStalled, SameWorkers, QuietNoOutbox DEF stalledJob, IInv

\* crash keeps the strengthened invariant.
LEMMA InvCrash == ASSUME IInv, NEW s \in Servers, crash(s) PROVE IInv'
  <1>1. \A q \in Servers : WorkerKept(q)
    BY DEF WorkerKept, crash, IInv, TypeOK, IdleWorker, Worker
  <1>2. QED
    BY <1>1, TypeCrash, SameJobs, QuietNoOutbox DEF crash, IInv

\* takeJob keeps the strengthened invariant.
LEMMA InvTake == ASSUME IInv, NEW s \in Servers, takeJob(s) PROVE IInv'
  <1>1. PICK k \in DOMAIN jobs :
          /\ jobs' = [jobs EXCEPT ![k] = [jobs[k] EXCEPT !.state = "active", !.by = s]]
          /\ worker' = [worker EXCEPT ![s] = Worker("check", k)]
    BY DEF takeJob
  <1>2. jobs[k] \in Job
    BY LenProperties, ElementOfSeq DEF IInv, TypeOK
  <1>3. /\ [jobs[k] EXCEPT !.state = "active", !.by = s] \in Job
        /\ [jobs[k] EXCEPT !.state = "active", !.by = s].txn = jobs[k].txn
    BY <1>2 DEF Job, Unfinished
  <1>4. JobsKept
    BY <1>1, <1>3, UpdatedJob DEF IInv
  <1>5. TypeOK' /\ UNCHANGED <<transactions, outbox, logs, chain, backups>>
    BY TypeTake DEF takeJob, IInv
  <1>6. TxnsKept /\ NewlyDurable
    BY <1>5 DEF TxnsKept, NewlyDurable, Txns
  <1>7. worker'[s].pc = "check" /\ \A q \in Servers \ {s} : WorkerKept(q)
    BY <1>1 DEF WorkerKept, Worker, IInv, TypeOK
  <1>8. HeadsFresh'
    BY <1>4, <1>5, <1>6, <1>7, HeadKept DEF IInv, HeadsFresh
  <1>9. RowsLogged'
    BY <1>4, <1>5, <1>7, RowKept DEF IInv, RowsLogged
  <1>10. QED
    BY <1>5, <1>6, <1>8, <1>9, ChainKept, DurableKept DEF IInv, BackupsLogged

\* checkExistingLog keeps the strengthened invariant.
LEMMA InvCheck == ASSUME IInv, NEW s \in Servers, checkExistingLog(s) PROVE IInv'
  <1>1. TypeOK' /\ UNCHANGED <<transactions, outbox, jobs, logs, chain, backups>>
    BY TypeCheck DEF checkExistingLog, IInv
  <1>2. TxnsKept /\ NewlyDurable /\ JobsKept
    BY <1>1 DEF TxnsKept, NewlyDurable, Txns, JobsKept
  <1>3. worker[s] \in WorkerState
    BY DEF IInv, TypeOK
  <1>4. \A q \in Servers \ {s} : WorkerKept(q)
    BY DEF WorkerKept, IInv, TypeOK, checkExistingLog
  <1>5. worker'[s].job = worker[s].job
    <2>1. CASE worker' = [worker EXCEPT ![s].pc = "begin"]
      BY <1>3, <2>1 DEF IInv, TypeOK, WorkerState
    <2>2. CASE \E r \in LogsOf(JobTxn(s)) :
                 worker' = [worker EXCEPT ![s].pc = AfterExistingLog, ![s].row = r]
      BY <1>3, <2>2 DEF IInv, TypeOK, WorkerState
    <2>3. QED
      BY <2>1, <2>2 DEF checkExistingLog
  <1>6. JobTxn(s)' = JobTxn(s)
    BY <1>1, <1>5 DEF JobTxn
  <1>7. \/ worker'[s].pc = "begin"
        \/ worker'[s].pc = "backup" /\ worker'[s].row \in logs /\ worker'[s].row.txn = JobTxn(s)
    BY <1>3 DEF checkExistingLog, LogsOf, AfterExistingLog, IInv, TypeOK, WorkerState
  <1>8. HeadsFresh'
    BY <1>1, <1>2, <1>4, <1>7, HeadKept DEF IInv, HeadsFresh
  <1>9. RowsLogged'
    BY <1>1, <1>2, <1>4, <1>6, <1>7, RowKept DEF IInv, RowsLogged
  <1>10. QED
    BY <1>1, <1>2, <1>8, <1>9, ChainKept, DurableKept DEF IInv, BackupsLogged

\* readChainState keeps the strengthened invariant.
LEMMA InvRead == ASSUME IInv, NEW s \in Servers, readChainState(s) PROVE IInv'
  <1>1. TypeOK' /\ UNCHANGED <<transactions, outbox, jobs, logs, chain, backups>>
    BY TypeRead DEF readChainState, IInv
  <1>2. TxnsKept /\ NewlyDurable /\ JobsKept
    BY <1>1 DEF TxnsKept, NewlyDurable, Txns, JobsKept
  <1>3. worker[s] \in WorkerState /\ JobUser(s)' = JobUser(s)
        /\ \A q \in Servers \ {s} : WorkerKept(q)
    BY DEF WorkerKept, IInv, TypeOK, readChainState, JobTxn, JobUser, WorkerState
  <1>4. worker'[s].pc = "commit" /\ worker'[s].head = chain[JobUser(s)]
    BY <1>3 DEF readChainState, IInv, TypeOK, WorkerState
  <1>5. chain[JobUser(s)].seq \in Nat
    BY BusyWorker DEF IInv, TypeOK, readChainState, ChainHead
  <1>6. HeadsFresh'
    BY <1>1, <1>2, <1>3, <1>4, <1>5, HeadKept DEF IInv, HeadsFresh
  <1>7. RowsLogged'
    BY <1>1, <1>2, <1>4, <1>3, RowKept DEF IInv, RowsLogged
  <1>8. QED
    BY <1>1, <1>2, <1>6, <1>7, ChainKept, DurableKept DEF IInv, BackupsLogged

-----------------------------------------------------------------------------
(* The commit: the heart of the argument *)

\* A worker whose insert does not violate the unique constraint appends to the
\* current head: had the chain moved since it was read, the number would be taken.
LEMMA CommitOnHead ==
  ASSUME IInv, NEW s \in Servers, worker[s].pc = "commit",
         ~SeqTaken(JobUser(s), worker[s].head.seq + 1)
  PROVE  worker[s].head = chain[JobUser(s)]
  <1>1. JobUser(s) \in Users
    BY BusyWorker DEF IInv
  <1>2. chain[JobUser(s)].seq \in Nat /\ worker[s].head.seq \in Nat
    BY <1>1 DEF IInv, TypeOK, ChainHead, WorkerState
  <1>3. ~(worker[s].head.seq < chain[JobUser(s)].seq)
    BY <1>1, <1>2 DEF IInv, ChainLinked, NoSeqGap, SeqTaken
  <1>4. QED
    BY <1>2, <1>3 DEF IInv, HeadsFresh

\* The heart of ChainLinked: the unique constraint makes a stale head harmless, so that
\* an append that is accepted extends the chain at its very end.
LEMMA AppendKeepsChain ==
  ASSUME IInv, NEW s \in Servers, worker[s].pc = "commit", AppendRow(s), UNCHANGED transactions
  PROVE  /\ ChainLinked'
         /\ logs' = logs \cup {NewRow(s)}
         /\ NewRow(s).txn = JobTxn(s)
         /\ \A v \in Users : /\ chain[v].seq <= chain'[v].seq
                             /\ chain[v].seq = chain'[v].seq => chain'[v] = chain[v]
  <1> DEFINE u == JobUser(s)
             R == NewRow(s)
  <1>1. u \in Users /\ R \in Row /\ chain[u] \in ChainHead
    BY BusyWorker, NewRowType DEF IInv, TypeOK
  <1>2. /\ R.user = u /\ R.seq = worker[s].head.seq + 1 /\ R.txn = JobTxn(s)
        /\ R.prev = PreviousHash(worker[s].head)
        /\ Replays(R)
    BY DEF NewRow, Replays
  <1>3. worker[s].head = chain[u]
    BY <1>2, CommitOnHead DEF AppendRow
  <1>4. /\ logs' = logs \cup {R}
        /\ chain' = [chain EXCEPT ![u] = [seq |-> R.seq, hash |-> R.hash]]
    BY <1>2 DEF AppendRow
  <1>5. /\ chain'[u].seq = chain[u].seq + 1 /\ chain'[u].hash = R.hash
        /\ \A v \in Users \ {u} : chain'[v] = chain[v]
    BY <1>1, <1>2, <1>3, <1>4 DEF IInv, TypeOK
  <1>6. chain[u].seq \in Nat /\ R.seq = chain[u].seq + 1
    BY <1>1, <1>2, <1>3 DEF ChainHead
  <1>7. \A r \in logs : /\ r \in Row /\ r.user \in Users /\ r.seq \in Nat
                       /\ r.seq \in 1 .. chain[r.user].seq /\ transactions[r.txn] = r.user
    BY DEF IInv, TypeOK, Row, ChainLinked, SeqWithinHead
  <1>8. \A r \in logs : r.user = u => r.seq < R.seq
    BY <1>6, <1>7
  <1>9. SeqWithinHead'
    <2>1. transactions[R.txn] = R.user
      BY <1>2 DEF JobUser
    <2>2. \A r \in logs : r.seq \in 1 .. chain'[r.user].seq
      BY <1>5, <1>6, <1>7
    <2>3. R.seq \in 1 .. chain'[R.user].seq
      BY <1>2, <1>5, <1>6
    <2>4. QED
      BY <1>4, <1>7, <2>1, <2>2, <2>3 DEF SeqWithinHead
  <1>10. OneRowPerSeq'
    BY <1>2, <1>4, <1>7, <1>8 DEF IInv, ChainLinked, OneRowPerSeq
  <1>11. NoSeqGap'
    BY <1>2, <1>4, <1>5, <1>6 DEF IInv, ChainLinked, NoSeqGap
  <1>12. \A r \in logs' : Replays(r)
    BY <1>2, <1>4 DEF IInv, ChainLinked
  <1>13. LinksPrevious'
    <2>1. R.seq = 1 => R.prev = Genesis
      BY <1>2, <1>3, <1>6 DEF PreviousHash
    <2>2. \A r \in logs : R.user = r.user /\ R.seq = r.seq + 1 => R.prev = r.hash
      <3>1. SUFFICES ASSUME NEW r \in logs, R.user = r.user, R.seq = r.seq + 1
                     PROVE  R.prev = r.hash
        OBVIOUS
      <3>2. r.seq = chain[u].seq /\ chain[u].seq # 0
        BY <1>2, <1>6, <1>7, <3>1
      <3>3. r.hash = chain[u].hash
        BY <1>2, <3>1, <3>2 DEF IInv, ChainLinked, HeadIsLastRow
      <3>4. QED
        BY <1>2, <1>3, <3>2, <3>3 DEF PreviousHash
    <2>3. \A r \in logs : ~(r.user = R.user /\ r.seq = R.seq + 1)
      BY <1>2, <1>6, <1>7, <1>8
    <2>4. R.seq # R.seq + 1
      BY <1>6
    <2>5. QED
      BY <1>4, <2>1, <2>2, <2>3, <2>4 DEF IInv, ChainLinked, LinksPrevious
  <1>14. HeadIsLastRow'
    BY <1>2, <1>4, <1>5, <1>6, <1>7, <1>8 DEF IInv, ChainLinked, HeadIsLastRow
  <1>15. ChainLinked'
    BY <1>9, <1>10, <1>11, <1>12, <1>13, <1>14 DEF ChainLinked, Replays
  <1>16. \A v \in Users : /\ chain[v].seq <= chain'[v].seq
                          /\ chain[v].seq = chain'[v].seq => chain'[v] = chain[v]
    <2>1. \A v \in Users : chain[v].seq \in Nat
      BY DEF IInv, TypeOK, ChainHead
    <2>2. QED
      BY <1>5, <2>1
  <1>17. QED
    BY <1>2, <1>4, <1>15, <1>16

\* An append leaves the facts about the workers that are kept.
LEMMA HeadsAfterAppend ==
  ASSUME IInv, UNCHANGED transactions, JobsKept,
         \A v \in Users : /\ chain[v].seq <= chain'[v].seq
                          /\ chain[v].seq = chain'[v].seq => chain'[v] = chain[v],
         TypeOK',
         NEW q \in Servers, WorkerKept(q)
  PROVE  worker'[q].pc = "commit" =>
           /\ worker'[q].head.seq <= chain'[JobUser(q)'].seq
           /\ worker'[q].head.seq = chain'[JobUser(q)'].seq => worker'[q].head = chain'[JobUser(q)']
  <1>1. SUFFICES ASSUME worker'[q].pc = "commit"
                 PROVE  /\ worker'[q].head.seq <= chain'[JobUser(q)'].seq
                        /\ worker'[q].head.seq = chain'[JobUser(q)'].seq
                             => worker'[q].head = chain'[JobUser(q)']
    OBVIOUS
  <1>2. worker'[q] = worker[q]
    BY <1>1 DEF WorkerKept
  <1>3. JobUser(q)' = JobUser(q) /\ JobUser(q) \in Users
    BY <1>1, <1>2, BusyWorker DEF JobUser, JobTxn, JobsKept, IInv
  <1>4. /\ worker[q].head.seq <= chain[JobUser(q)].seq
        /\ worker[q].head.seq = chain[JobUser(q)].seq => worker[q].head = chain[JobUser(q)]
    BY <1>1, <1>2 DEF IInv, HeadsFresh
  <1>5. /\ worker[q].head.seq \in Nat /\ chain[JobUser(q)].seq \in Nat
        /\ chain'[JobUser(q)].seq \in Nat
    BY <1>3 DEF IInv, TypeOK, WorkerState, ChainHead
  <1>6. QED
    BY <1>2, <1>3, <1>4, <1>5

\* commitRow keeps the strengthened invariant.
LEMMA InvCommit == ASSUME IInv, NEW s \in Servers, commitRow(s) PROVE IInv'
  <1>1. /\ TypeOK' /\ UNCHANGED <<transactions, outbox, jobs, backups>>
        /\ worker[s].pc = "commit" /\ AppendRow(s)
    BY TypeCommit DEF commitRow, IInv
  <1>2. TxnsKept /\ NewlyDurable /\ JobsKept
    BY <1>1 DEF TxnsKept, NewlyDurable, Txns, JobsKept
  <1>3. /\ ChainLinked' /\ logs' = logs \cup {NewRow(s)} /\ NewRow(s).txn = JobTxn(s)
        /\ \A v \in Users : /\ chain[v].seq <= chain'[v].seq
                            /\ chain[v].seq = chain'[v].seq => chain'[v] = chain[v]
    BY <1>1, AppendKeepsChain
  <1>4. \A q \in Servers \ {s} : WorkerKept(q)
    BY DEF WorkerKept, commitRow, IInv, TypeOK
  <1>5. worker'[s].pc = "backup" /\ worker'[s].row = NewRow(s) /\ worker'[s].job = worker[s].job
    BY DEF commitRow, IInv, TypeOK, WorkerState
  <1>6. JobTxn(s)' = JobTxn(s)
    BY <1>1, <1>5 DEF JobTxn
  <1>7. HeadsFresh'
    BY <1>1, <1>2, <1>3, <1>4, <1>5, HeadsAfterAppend DEF HeadsFresh
  <1>8. RowsLogged'
    BY <1>1, <1>2, <1>3, <1>4, <1>5, <1>6, RowKept DEF IInv, RowsLogged
  <1>9. QED
    BY <1>1, <1>2, <1>3, <1>7, <1>8, DurableKept DEF IInv, BackupsLogged

\* Writing a backup only adds one: an object of the same key is the same object.
LEMMA BackupsGrow ==
  ASSUME IInv, NEW s \in Servers, worker[s].row \in logs, PutBackup(s)
  PROVE  backups' = backups \cup {worker[s].row}
  BY DEF IInv, BackupsLogged, ChainLinked, OneRowPerSeq, PutBackup, buildBackupPayload, SameKey

\* writeTransactionBackup keeps the strengthened invariant.
LEMMA InvBackup == ASSUME IInv, NEW s \in Servers, writeTransactionBackup(s) PROVE IInv'
  <1>1. worker[s].row \in logs /\ worker[s].row.txn = JobTxn(s) /\ worker[s].row \in Row
    BY DEF writeTransactionBackup, IInv, RowsLogged, TypeOK
  <1>2. TypeOK' /\ UNCHANGED <<transactions, outbox, jobs, logs, chain>> /\ PutBackup(s)
    BY <1>1, TypeBackup DEF writeTransactionBackup, IInv
  <1>3. backups' = backups \cup {worker[s].row}
    BY <1>1, <1>2, BackupsGrow
  <1>4. TxnsKept /\ NewlyDurable /\ JobsKept
    BY <1>2 DEF TxnsKept, NewlyDurable, Txns, JobsKept
  <1>5. \A q \in Servers \ {s} : WorkerKept(q)
    BY DEF WorkerKept, writeTransactionBackup, IInv, TypeOK
  <1>6. worker'[s].pc = "mark" /\ worker'[s].row = worker[s].row /\ worker'[s].job = worker[s].job
    BY DEF writeTransactionBackup, IInv, TypeOK, WorkerState
  <1>7. JobTxn(s)' = JobTxn(s)
    BY <1>2, <1>6 DEF JobTxn
  <1>8. HeadsFresh'
    BY <1>2, <1>4, <1>5, <1>6, HeadKept DEF IInv, HeadsFresh
  <1>9. RowsLogged'
    BY <1>1, <1>2, <1>3, <1>4, <1>5, <1>6, <1>7, RowKept DEF IInv, RowsLogged
  <1>10. QED
    BY <1>1, <1>2, <1>3, <1>4, <1>8, <1>9, ChainKept, DurableKept DEF IInv, BackupsLogged

\* markProcessed keeps the strengthened invariant.
LEMMA InvMark == ASSUME IInv, NEW s \in Servers, markProcessed(s) PROVE IInv'
  <1>1. TypeOK' /\ UNCHANGED <<transactions, jobs, logs, chain, backups>> /\ MarkProcessed(s)
    BY TypeMark DEF markProcessed, IInv
  <1>2. TxnsKept /\ JobsKept
    BY <1>1 DEF TxnsKept, Txns, JobsKept
  <1>3. worker[s].row \in backups \cap logs /\ worker[s].row.txn = JobTxn(s)
    BY DEF markProcessed, IInv, RowsLogged
  <1>4. JobTxn(s) \in Txns
    BY BusyWorker DEF markProcessed, IInv
  <1>5. \A t \in Txns : t # JobTxn(s) => outbox'[t] = outbox[t]
    BY <1>1, <1>4, OutboxWrite, WrittenType DEF MarkProcessed, OutboxStatus, IInv
  <1>6. NewlyDurable
    BY <1>1, <1>3, <1>5 DEF NewlyDurable, Txns
  <1>7. \A q \in Servers \ {s} : WorkerKept(q)
    BY DEF WorkerKept, markProcessed, IInv, TypeOK
  <1>8. worker'[s].pc = "finish" /\ worker'[s].row = worker[s].row /\ worker'[s].job = worker[s].job
    BY DEF markProcessed, IInv, TypeOK, WorkerState
  <1>9. JobTxn(s)' = JobTxn(s)
    BY <1>1, <1>8 DEF JobTxn
  <1>10. HeadsFresh'
    BY <1>1, <1>2, <1>7, <1>8, HeadKept DEF IInv, HeadsFresh
  <1>11. RowsLogged'
    BY <1>1, <1>2, <1>3, <1>7, <1>8, <1>9, RowKept DEF IInv, RowsLogged
  <1>12. QED
    BY <1>1, <1>2, <1>6, <1>10, <1>11, ChainKept, DurableKept DEF IInv, BackupsLogged

\* finishJob keeps the strengthened invariant.
LEMMA InvFinish == ASSUME IInv, NEW s \in Servers, finishJob(s) PROVE IInv'
  <1>1. worker[s].job \in DOMAIN jobs /\ jobs[worker[s].job] \in Job
    BY BusyWorker DEF finishJob, IInv
  <1>2. /\ [jobs[worker[s].job] EXCEPT !.state = "completed", !.by = "none"] \in Job
        /\ [jobs[worker[s].job] EXCEPT !.state = "completed", !.by = "none"].txn
              = jobs[worker[s].job].txn
    BY <1>1 DEF Job
  <1>3. JobsKept
    BY <1>1, <1>2, UpdatedJob, SameJobs DEF finishJob, IInv
  <1>4. \A q \in Servers : WorkerKept(q)
    BY DEF WorkerKept, finishJob, IInv, TypeOK, IdleWorker, Worker
  <1>5. QED
    BY <1>3, <1>4, TypeFinish, QuietNoOutbox DEF finishJob, IInv

\* A handler that throws loses nothing that was written.
LEMMA ThrowKeeps ==
  ASSUME IInv, NEW s \in Servers, worker[s].pc # "idle", HandlerThrows(s)
  PROVE  JobsKept /\ \A q \in Servers : WorkerKept(q)
  <1>1. worker[s].job \in DOMAIN jobs
    BY BusyWorker DEF IInv
  <1>2. JobsKept
    BY <1>1, FailedJob, SameJobs DEF HandlerThrows, IInv
  <1>3. \A q \in Servers : WorkerKept(q)
    BY DEF WorkerKept, HandlerThrows, IInv, TypeOK, IdleWorker, Worker
  <1>4. QED
    BY <1>2, <1>3

\* commitConflicts keeps the strengthened invariant.
LEMMA InvConflict == ASSUME IInv, NEW s \in Servers, commitConflicts(s) PROVE IInv'
  <1>1. worker[s].pc # "idle"
    BY DEF commitConflicts
  <1>2. QED
    BY <1>1, ThrowKeeps, TypeConflict, QuietNoOutbox DEF commitConflicts, HandlerThrows, IInv

\* workerCallFails keeps the strengthened invariant.
LEMMA InvCallFails == ASSUME IInv, NEW s \in Servers, workerCallFails(s) PROVE IInv'
  <1>1. worker[s].pc # "idle" /\ HandlerThrows(s) /\ UNCHANGED transactions
    BY DEF workerCallFails, HandlerThrows
  <1>2. JobsKept /\ \A q \in Servers : WorkerKept(q)
    BY <1>1, ThrowKeeps
  <1>3. TypeOK'
    <2>1. worker[s].pc = "backup" => worker[s].row \in Row
      BY DEF IInv, RowsLogged, TypeOK
    <2>2. QED
      BY <2>1, TypeCallFails DEF IInv
  <1>4. TxnsKept
    BY <1>1 DEF TxnsKept, Txns
  <1>5. CASE UNCHANGED <<outbox, logs, chain, backups>>
    BY <1>1, <1>2, <1>3, <1>5, QuietNoOutbox
  <1>6. CASE worker[s].pc = "commit" /\ AppendRow(s) /\ UNCHANGED <<outbox, backups>>
    <2>1. /\ ChainLinked' /\ logs' = logs \cup {NewRow(s)}
          /\ \A v \in Users : /\ chain[v].seq <= chain'[v].seq
                              /\ chain[v].seq = chain'[v].seq => chain'[v] = chain[v]
      BY <1>1, <1>6, AppendKeepsChain
    <2>2. HeadsFresh'
      BY <1>1, <1>2, <1>3, <2>1, HeadsAfterAppend DEF HeadsFresh
    <2>3. RowsLogged'
      BY <1>2, <1>6, <2>1, RowKept DEF IInv, RowsLogged
    <2>4. NewlyDurable
      BY <1>1, <1>6 DEF NewlyDurable, Txns
    <2>5. QED
      BY <1>3, <1>6, <2>1, <2>2, <2>3, <2>4, DurableKept DEF IInv, BackupsLogged
  <1>7. CASE worker[s].pc = "backup" /\ PutBackup(s) /\ UNCHANGED <<outbox, logs, chain>>
    <2>1. worker[s].row \in logs
      BY <1>7 DEF IInv, RowsLogged
    <2>2. backups' = backups \cup {worker[s].row}
      BY <1>7, <2>1, BackupsGrow
    <2>3. HeadsFresh'
      BY <1>2, <1>4, <1>7, HeadKept DEF IInv, HeadsFresh
    <2>4. RowsLogged'
      BY <1>2, <1>7, <2>2, RowKept DEF IInv, RowsLogged
    <2>5. NewlyDurable
      BY <1>1, <1>7 DEF NewlyDurable, Txns
    <2>6. QED
      BY <1>3, <1>4, <1>7, <2>1, <2>2, <2>3, <2>4, <2>5, ChainKept, DurableKept DEF IInv, BackupsLogged
  <1>8. CASE worker[s].pc = "mark" /\ MarkProcessed(s) /\ UNCHANGED <<logs, chain, backups>>
    <2>1. worker[s].row \in backups \cap logs /\ worker[s].row.txn = JobTxn(s)
      BY <1>8 DEF IInv, RowsLogged
    <2>2. JobTxn(s) \in Txns
      BY <1>1, BusyWorker DEF IInv
    <2>3. QED
      BY <1>1, <1>2, <1>3, <1>8, <2>1, <2>2, WrittenType, QuietOutbox DEF MarkProcessed, OutboxStatus
  <1>9. QED
    BY <1>5, <1>6, <1>7, <1>8 DEF workerCallFails

-----------------------------------------------------------------------------
(* The theorems *)

\* Every step of the system preserves the inductive invariant.
LEMMA InvStep == IInv /\ [Next]_vars => IInv'
  <1> SUFFICES ASSUME IInv, [Next]_vars PROVE IInv'
    OBVIOUS
  <1>1. ASSUME NEW u \in Users, createTransaction(u) PROVE IInv'
    BY <1>1, InvCreate
  <1>2. ASSUME NEW s \in Servers, Boot(s) PROVE IInv'
    BY <1>2, InvBoot
  <1>3. ASSUME NEW s \in Servers, PublisherStep(s) PROVE IInv'
    BY <1>3, InvReset, InvFind, InvClaim, InvEnqueue, InvRollback DEF PublisherStep
  <1>4. ASSUME NEW s \in Servers, WorkerStep(s) PROVE IInv'
    BY <1>4, InvTake, InvCheck, InvRead, InvCommit, InvConflict, InvBackup, InvMark, InvFinish
    DEF WorkerStep
  <1>5. ASSUME NEW s \in Servers, markFailed(s) PROVE IInv'
    BY <1>5, InvMarkFailed
  <1>6. ASSUME NEW s \in Servers, FaultStep(s) PROVE IInv'
    BY <1>6, InvClaimFails, InvEnqueueFails, InvRollbackFails, InvCallFails, InvCrash DEF FaultStep
  <1>7. ASSUME NEW k \in DOMAIN jobs, QueueStep(k) PROVE IInv'
    BY <1>7, InvPromote, InvStalled DEF QueueStep
  <1>8. ASSUME NEW t \in Txns, BecomeStale(t) PROVE IInv'
    BY <1>8, InvStale
  <1>9. ASSUME UNCHANGED vars PROVE IInv'
    <2>1. TypeOK'
      BY <1>9, SameTypes DEF vars, IInv, TypeOK
    <2>2. QED
      BY <1>9, <2>1, SameJobs, SameWorkers, QuietNoOutbox DEF vars
  <1>10. QED
    BY <1>1, <1>2, <1>3, <1>4, <1>5, <1>6, <1>7, <1>8, <1>9 DEF Next

\* The strengthened invariant is an invariant of every execution.
LEMMA Invariance == Spec => []IInv
  BY InvInit, InvStep, PTL DEF Spec

\* In every behaviour, with any number of servers and any faults, every variable
\* keeps its type.
THEOREM TypeCorrect == Spec => []TypeOK
  <1>1. IInv => TypeOK
    BY DEF IInv
  <1>2. QED
    BY <1>1, Invariance, PTL

\* The SecurityLog rows of every user always form one gapless chain of hashes that
\* ends in SecurityChainState, however many workers append to it.
THEOREM ChainCorrect == Spec => []ChainLinked
  <1>1. IInv => ChainLinked
    BY DEF IInv
  <1>2. QED
    BY <1>1, Invariance, PTL

\* Every S3 object always repeats a SecurityLog row and reproduces its hash.
THEOREM BackupsCorrect == Spec => []BackupRepeatsLog
  <1>1. IInv => BackupRepeatsLog
    BY DEF IInv, BackupsLogged, BackupRepeatsLog, ChainLinked
  <1>2. QED
    BY <1>1, Invariance, PTL

\* A row of the outbox reads PROCESSED only if its transaction has a SecurityLog row
\* and that row's backup.
THEOREM DurabilityCorrect == Spec => []ProcessedIsDurable
  <1>1. IInv => ProcessedIsDurable
    BY DEF IInv
  <1>2. QED
    BY <1>1, Invariance, PTL
=============================================================================
