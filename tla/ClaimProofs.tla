---------------------------- MODULE ClaimProofs ----------------------------
(***************************************************************************)
(* Who owns a row of the outbox, for every number of servers: the atomic   *)
(* claim keeps owners apart, and a claimed row is in somebody's hands,     *)
(* each under the faults that its property names.                          *)
(***************************************************************************)
EXTENDS AuditPipelineProofs, FiniteSetTheorems

\* Faults are only ever added.
LEMMA FaultsGrow == ASSUME [Next]_vars PROVE faults.kinds \subseteq faults'.kinds
  <1>1. ASSUME NEW kind, Fault(kind) PROVE faults.kinds \subseteq faults'.kinds
    BY <1>1 DEF Fault
  <1>2. CASE UNCHANGED faults
    BY <1>2
  <1>3. ASSUME NEW s \in Servers, Boot(s) \/ PublisherStep(s) \/ WorkerStep(s) \/ markFailed(s)
        PROVE  UNCHANGED faults
    BY <1>3 DEF Boot, PublisherStep, resetStuckProcessingEvents, findCandidates, claimEvent, enqueueEvent,
                rollbackClaim, WorkerStep, takeJob, checkExistingLog, readChainState, commitRow,
                commitConflicts, writeTransactionBackup, markProcessed, finishJob, markFailed
  <1>4. ASSUME NEW s \in Servers, FaultStep(s) PROVE \E kind : Fault(kind)
    BY <1>4 DEF FaultStep, claimFails, enqueueFails, rollbackFails, workerCallFails, crash
  <1>5. ASSUME NEW k \in DOMAIN jobs, QueueStep(k) PROVE UNCHANGED faults \/ \E kind : Fault(kind)
    BY <1>5 DEF QueueStep, promoteDelayed, stalledJob
  <1>6. ASSUME NEW t \in Txns, BecomeStale(t) PROVE UNCHANGED faults \/ \E kind : Fault(kind)
    BY <1>6 DEF BecomeStale
  <1>7. ASSUME NEW u \in Users, createTransaction(u) PROVE UNCHANGED faults
    BY <1>7 DEF createTransaction
  <1>8. CASE UNCHANGED vars
    BY <1>8 DEF vars
  <1>9. QED
    BY <1>1, <1>2, <1>3, <1>4, <1>5, <1>6, <1>7, <1>8 DEF Next

\* A fault of another kind ends the scope of a property.
LEMMA FaultExcluded ==
  ASSUME NEW kinds, NEW kind, kind \notin kinds, Fault(kind) PROVE ~Only(kinds)'
  BY DEF Fault, Only

-----------------------------------------------------------------------------
(* One owner *)

ExclusiveKinds == {"claim", "worker", "crash", "lock"}

OwnsRow(k, t) == jobs[k].txn = t /\ jobs[k].state \in Unfinished

Owned(t) ==
  \/ \E s \in Servers : t \in publisher[s].claimed
  \/ \E k \in 1 .. Len(jobs) : OwnsRow(k, t)

\* A row that is, or may soon be, up for a claim.
Free(t) == outbox[t].status = "PENDING" \/ outbox[t].stale

OneOwner(t) ==
  /\ \A a, b \in Servers : t \in publisher[a].claimed /\ t \in publisher[b].claimed => a = b
  /\ \A j, k \in 1 .. Len(jobs) : OwnsRow(j, t) /\ OwnsRow(k, t) => j = k
  /\ \A s \in Servers, k \in 1 .. Len(jobs) : ~(t \in publisher[s].claimed /\ OwnsRow(k, t))

OwnersInv ==
  /\ \A s \in Servers : publisher[s].pc # "rollback"
  /\ \A t \in Txns : OneOwner(t) /\ (Free(t) => ~Owned(t))

\* What most steps do to jobs, claims and rows.
JobsShrink ==
  /\ Len(jobs') = Len(jobs)
  /\ \A k \in 1 .. Len(jobs) : /\ jobs'[k].txn = jobs[k].txn
                               /\ jobs'[k].state \in Unfinished => jobs[k].state \in Unfinished

ClaimsShrink ==
  \A s \in Servers : /\ publisher'[s].pc # "rollback"
                     /\ publisher'[s].claimed \subseteq publisher[s].claimed

NoneFreed == \A t \in Txns : outbox'[t].status = "PENDING" \/ outbox'[t].stale => Free(t) \/ ~Owned(t)

\* No owner is added and no owned row is freed.
LEMMA OwnersShrink ==
  ASSUME OwnersInv, UNCHANGED transactions, JobsShrink, ClaimsShrink, NoneFreed
  PROVE  OwnersInv'
  <1>1. Txns' = Txns
    BY DEF Txns
  <1>2. ASSUME NEW t \in Txns PROVE OneOwner(t)' /\ (Free(t)' => ~Owned(t)')
    <2>1. \A k \in 1 .. Len(jobs)' : k \in 1 .. Len(jobs) /\ (OwnsRow(k, t)' => OwnsRow(k, t))
      BY DEF JobsShrink, OwnsRow
    <2>2. \A s \in Servers : t \in publisher'[s].claimed => t \in publisher[s].claimed
      BY DEF ClaimsShrink
    <2>3. OneOwner(t) /\ (Free(t) => ~Owned(t))
      BY DEF OwnersInv
    <2>4. OneOwner(t)'
      BY <2>1, <2>2, <2>3 DEF OneOwner
    <2>5. Owned(t)' => Owned(t)
      BY <2>1, <2>2 DEF Owned
    <2>6. Free(t)' => Free(t) \/ ~Owned(t)
      BY DEF Free, NoneFreed
    <2>7. QED
      BY <2>3, <2>4, <2>5, <2>6
  <1>3. QED
    BY <1>1, <1>2 DEF OwnersInv, ClaimsShrink

LEMMA SameJobsShrink == ASSUME UNCHANGED jobs PROVE JobsShrink
  BY DEF JobsShrink

LEMMA SameClaimsShrink == ASSUME OwnersInv, UNCHANGED publisher PROVE ClaimsShrink
  BY DEF ClaimsShrink, OwnersInv

LEMMA SameRowsFreed == ASSUME UNCHANGED outbox PROVE NoneFreed
  BY DEF NoneFreed, Free

\* Writing a status other than PENDING frees nothing.
LEMMA WriteFrees ==
  ASSUME TypeOK, NEW t \in Txns, NEW status \in OutboxStatus, status # "PENDING",
         outbox' = [outbox EXCEPT ![t] = Written(status)]
  PROVE  NoneFreed
  <1>1. Written(status) \in OutboxRow /\ Written(status).status = status /\ Written(status).stale = FALSE
    BY DEF Written, OutboxRow
  <1>2. \A u \in Txns : outbox'[u] = IF u = t THEN Written(status) ELSE outbox[u]
    BY <1>1, OutboxWrite
  <1>3. QED
    BY <1>1, <1>2 DEF NoneFreed, Free

\* Updating one job without reviving it.
LEMMA UpdatedShrinks ==
  ASSUME TypeOK, NEW k \in DOMAIN jobs, NEW j \in Job, j.txn = jobs[k].txn,
         j.state \in Unfinished => jobs[k].state \in Unfinished,
         jobs' = [jobs EXCEPT ![k] = j]
  PROVE  JobsShrink
  <1>1. Len(jobs') = Len(jobs) /\ \A m \in 1 .. Len(jobs) : jobs'[m] = IF m = k THEN j ELSE jobs[m]
    BY JobWrite
  <1>2. QED
    BY <1>1 DEF JobsShrink

\* A failing job is not revived.
LEMMA FailedShrinks ==
  ASSUME TypeOK, NEW k \in DOMAIN jobs, jobs[k].state = "active",
         NEW s \in Servers, NEW retry \in BOOLEAN, FailJob(k, s, retry)
  PROVE  JobsShrink
  <1>1. k \in 1 .. Len(jobs) /\ jobs[k] \in Job
    BY LenProperties, ElementOfSeq DEF TypeOK
  <1>2. Len(jobs') = Len(jobs)
    BY <1>1, LenProperties DEF FailJob, TypeOK
  <1>3. jobs'[k].txn = jobs[k].txn
    BY <1>1 DEF FailJob, Job
  <1>4. \A m \in 1 .. Len(jobs) : m # k => jobs'[m] = jobs[m]
    BY <1>1, LenProperties DEF FailJob, TypeOK
  <1>5. jobs[k].state \in Unfinished
    BY DEF Unfinished
  <1>6. QED
    BY <1>2, <1>3, <1>4, <1>5 DEF JobsShrink

\* A handler that throws revives no job.
LEMMA ThrowShrinks ==
  ASSUME TypeOK, NEW s \in Servers, worker[s].pc # "idle", HandlerThrows(s)
  PROVE  JobsShrink /\ UNCHANGED publisher /\ UNCHANGED transactions
  <1>1. worker[s].job \in DOMAIN jobs
    BY BusyWorker
  <1>2. CASE HoldsLock(s)
    BY <1>1, <1>2, FailedShrinks DEF HandlerThrows, HoldsLock
  <1>3. CASE ~HoldsLock(s)
    BY <1>3, SameJobsShrink DEF HandlerThrows
  <1>4. QED
    BY <1>2, <1>3 DEF HandlerThrows

\* createTransaction: nobody owns the new row.
LEMMA OwnersCreate == ASSUME TypeOK, OwnersInv, NEW u \in Users, createTransaction(u) PROVE OwnersInv'
  <1>1. UNCHANGED <<jobs, publisher>> /\ Len(transactions) \in Nat
    BY DEF createTransaction, TypeOK
  <1>2. \A t \in Txns : outbox'[t] = outbox[t]
    <2>1. outbox' = Append(outbox, Written("PENDING")) /\ Written("PENDING") \in OutboxRow
      BY WrittenType DEF createTransaction, OutboxStatus
    <2>2. QED
      BY <2>1, AppendProperties DEF TypeOK, Txns
  <1>3. \A s \in Servers : publisher[s].claimed \subseteq Txns
    BY DEF TypeOK, PublisherState
  <1>4. \A k \in 1 .. Len(jobs) : jobs[k].txn \in Txns
    <2>1. \A k \in 1 .. Len(jobs) : jobs[k] \in Job
      BY ElementOfSeq DEF TypeOK
    <2>2. QED
      BY <2>1 DEF Job
  <1>5. ASSUME NEW t \in Txns', t \notin Txns PROVE OneOwner(t)' /\ ~Owned(t)'
    BY <1>1, <1>3, <1>4, <1>5 DEF OneOwner, Owned, OwnsRow
  <1>6. ASSUME NEW t \in Txns PROVE OneOwner(t)' /\ (Free(t)' => ~Owned(t)')
    BY <1>1, <1>2 DEF OwnersInv, OneOwner, Owned, OwnsRow, Free
  <1>7. QED
    BY <1>1, <1>5, <1>6 DEF OwnersInv

\* Boot: the scheduler that starts has claimed nothing.
LEMMA OwnersBoot == ASSUME TypeOK, OwnersInv, NEW s \in Servers, Boot(s) PROVE OwnersInv'
  <1>1. ClaimsShrink
    BY DEF ClaimsShrink, OwnersInv, Boot, Publisher, TypeOK
  <1>2. QED
    BY <1>1, OwnersShrink, SameJobsShrink, SameRowsFreed DEF Boot

\* resetStuckProcessingEvents: a row is PROCESSING and stale when nobody works on it.
LEMMA OwnersReset ==
  ASSUME TypeOK, OwnersInv, NEW s \in Servers, resetStuckProcessingEvents(s) PROVE OwnersInv'
  <1>1. ClaimsShrink
    BY DEF ClaimsShrink, OwnersInv, resetStuckProcessingEvents, Publisher, TypeOK
  <1>2. \A t \in Txns : outbox[t].stale \/ outbox'[t] = outbox[t]
    BY DEF resetStuckProcessingEvents
  <1>3. NoneFreed
    BY <1>2 DEF NoneFreed, Free
  <1>4. QED
    BY <1>1, <1>3, OwnersShrink, SameJobsShrink DEF resetStuckProcessingEvents

\* findCandidates reads only.
LEMMA OwnersFind == ASSUME TypeOK, OwnersInv, NEW s \in Servers, findCandidates(s) PROVE OwnersInv'
  <1>1. ClaimsShrink
    BY DEF ClaimsShrink, OwnersInv, findCandidates, Publisher, TypeOK
  <1>2. QED
    BY <1>1, OwnersShrink, SameJobsShrink, SameRowsFreed DEF findCandidates

\* The atomic claim: a PENDING row has no owner, and its new one is the only one.
LEMMA OwnersClaim == ASSUME TypeOK, OwnersInv, NEW s \in Servers, claimEvent(s) PROVE OwnersInv'
  <1>1. UNCHANGED <<jobs, transactions>>
    BY DEF claimEvent
  <1>2. PICK t \in publisher[s].batch :
          LET rest == publisher[s].batch \ {t}
              mine == publisher[s].claimed
          IN \/ /\ MayClaim(t)
                /\ outbox' = [outbox EXCEPT ![t] = Written("PROCESSING")]
                /\ publisher' = [publisher EXCEPT ![s] = Continue(rest, mine \cup {t})]
             \/ /\ publisher' = [publisher EXCEPT ![s] = Continue(rest, mine)]
                /\ UNCHANGED outbox
    BY DEF claimEvent
  <1>3. t \in Txns
    BY DEF TypeOK, PublisherState
  <1>4. CASE /\ MayClaim(t)
             /\ outbox' = [outbox EXCEPT ![t] = Written("PROCESSING")]
             /\ publisher' = [publisher EXCEPT ![s] =
                                Continue(publisher[s].batch \ {t}, publisher[s].claimed \cup {t})]
    <2>1. ~Owned(t)
      BY <1>3, <1>4 DEF MayClaim, OwnersInv, Free
    <2>2. /\ publisher'[s].claimed = publisher[s].claimed \cup {t} /\ publisher'[s].pc # "rollback"
          /\ \A q \in Servers \ {s} : publisher'[q] = publisher[q]
      BY <1>4 DEF Continue, TypeOK
    <2>3. Written("PROCESSING") \in OutboxRow
      BY WrittenType DEF OutboxStatus
    <2>4. \A u \in Txns : outbox'[u] = IF u = t THEN Written("PROCESSING") ELSE outbox[u]
      BY <1>3, <1>4, <2>3, OutboxWrite
    <2>5. ~Free(t)'
      BY <1>3, <2>4 DEF Free, Written
    <2>6. OneOwner(t)'
      BY <1>1, <2>1, <2>2 DEF OneOwner, Owned, OwnsRow
    <2>7. ASSUME NEW u \in Txns, u # t PROVE OneOwner(u)' /\ (Free(u)' => ~Owned(u)')
      <3>1. OneOwner(u) /\ (Free(u) => ~Owned(u)) /\ Free(u)' = Free(u)
        BY <2>4, <2>7 DEF OwnersInv, Free
      <3>2. \A q \in Servers : u \in publisher'[q].claimed <=> u \in publisher[q].claimed
        BY <2>2, <2>7
      <3>3. QED
        BY <1>1, <3>1, <3>2 DEF OneOwner, Owned, OwnsRow
    <2>8. Txns' = Txns /\ \A q \in Servers : publisher'[q].pc # "rollback"
      BY <1>1, <2>2 DEF Txns, OwnersInv
    <2>9. QED
      BY <2>5, <2>6, <2>7, <2>8 DEF OwnersInv
  <1>5. CASE /\ publisher' = [publisher EXCEPT ![s] =
                                Continue(publisher[s].batch \ {t}, publisher[s].claimed)]
             /\ UNCHANGED outbox
    <2>1. ClaimsShrink
      BY <1>5 DEF ClaimsShrink, OwnersInv, Continue, TypeOK
    <2>2. QED
      BY <1>1, <1>5, <2>1, OwnersShrink, SameJobsShrink, SameRowsFreed
  <1>6. QED
    BY <1>2, <1>4, <1>5

\* claimFails drops what was claimed.
LEMMA OwnersClaimFails ==
  ASSUME TypeOK, OwnersInv, NEW s \in Servers, claimFails(s) PROVE OwnersInv'
  <1>1. ClaimsShrink
    BY DEF ClaimsShrink, OwnersInv, claimFails, Publisher, TypeOK
  <1>2. PICK t \in publisher[s].batch :
          UNCHANGED outbox \/ outbox' = [outbox EXCEPT ![t] = Written("PROCESSING")]
    BY DEF claimFails
  <1>3. t \in Txns /\ "PROCESSING" \in OutboxStatus
    BY DEF TypeOK, PublisherState, OutboxStatus
  <1>4. NoneFreed
    BY <1>2, <1>3, WriteFrees, SameRowsFreed
  <1>5. QED
    BY <1>1, <1>4, OwnersShrink, SameJobsShrink DEF claimFails

\* enqueueEvent: the job takes the row over from the publisher.
LEMMA OwnersEnqueue == ASSUME TypeOK, OwnersInv, NEW s \in Servers, enqueueEvent(s) PROVE OwnersInv'
  <1>1. UNCHANGED <<transactions, outbox>>
    BY DEF enqueueEvent
  <1>2. PICK t \in publisher[s].claimed :
          /\ jobs' = Append(jobs, NewJob(t))
          /\ publisher' = [publisher EXCEPT ![s] = Continue({}, publisher[s].claimed \ {t})]
    BY DEF enqueueEvent
  <1>3. t \in Txns
    BY DEF TypeOK, PublisherState
  <1>4. /\ publisher'[s].claimed = publisher[s].claimed \ {t} /\ publisher'[s].pc # "rollback"
        /\ \A q \in Servers \ {s} : publisher'[q] = publisher[q]
    BY <1>2 DEF Continue, TypeOK
  <1>5. NewJob(t) \in Job /\ NewJob(t).txn = t
    BY <1>3 DEF NewJob, Job, Unfinished
  <1>6. /\ Len(jobs) \in Nat /\ Len(jobs') = Len(jobs) + 1
        /\ jobs'[Len(jobs) + 1].txn = t
        /\ \A m \in 1 .. Len(jobs) : jobs'[m] = jobs[m]
    BY <1>2, <1>5, AppendProperties DEF TypeOK
  <1>7. \A u : \A m \in 1 .. Len(jobs) : OwnsRow(m, u)' <=> OwnsRow(m, u)
    BY <1>6 DEF OwnsRow
  <1>8. \A m \in 1 .. Len(jobs)' : m \in 1 .. Len(jobs) \/ m = Len(jobs) + 1
    BY <1>6
  <1>9. OneOwner(t) /\ Owned(t) /\ ~Free(t)
    BY <1>2, <1>3 DEF OwnersInv, Owned
  <1>10. OneOwner(t)'
    <2>1. \A q \in Servers : t \notin publisher'[q].claimed
      BY <1>2, <1>4, <1>9 DEF OneOwner
    <2>2. \A m \in 1 .. Len(jobs) : ~OwnsRow(m, t)'
      BY <1>2, <1>7, <1>9 DEF OneOwner
    <2>3. \A m \in 1 .. Len(jobs)' : OwnsRow(m, t)' => m = Len(jobs) + 1
      BY <1>8, <2>2
    <2>4. QED
      BY <2>1, <2>3 DEF OneOwner
  <1>11. ASSUME NEW u \in Txns, u # t PROVE OneOwner(u)' /\ (Free(u)' => ~Owned(u)')
    <2>1. OneOwner(u) /\ (Free(u) => ~Owned(u)) /\ Free(u)' = Free(u)
      BY <1>1 DEF OwnersInv, Free
    <2>2. \A q \in Servers : u \in publisher'[q].claimed => u \in publisher[q].claimed
      BY <1>4
    <2>3. \A m \in 1 .. Len(jobs)' : OwnsRow(m, u)' => m \in 1 .. Len(jobs) /\ OwnsRow(m, u)
      BY <1>6, <1>7, <1>8, <1>11 DEF OwnsRow
    <2>4. OneOwner(u)'
      BY <2>1, <2>2, <2>3 DEF OneOwner
    <2>5. Owned(u)' => Owned(u)
      BY <2>2, <2>3 DEF Owned
    <2>6. QED
      BY <2>1, <2>4, <2>5
  <1>12. Txns' = Txns /\ ~Free(t)' /\ \A q \in Servers : publisher'[q].pc # "rollback"
    BY <1>1, <1>4, <1>9 DEF Txns, OwnersInv, Free
  <1>13. QED
    BY <1>10, <1>11, <1>12 DEF OwnersInv

\* The worker's steps revive no job and free no row.
LEMMA OwnersWorker == ASSUME TypeOK, OwnersInv, NEW s \in Servers, WorkerStep(s) PROVE OwnersInv'
  <1>1. UNCHANGED <<publisher, transactions>>
    BY DEF WorkerStep, takeJob, checkExistingLog, readChainState, commitRow, commitConflicts, HandlerThrows,
           writeTransactionBackup, markProcessed, finishJob
  <1>2. JobsShrink
    <2>1. CASE takeJob(s)
      <3>1. PICK k \in DOMAIN jobs :
              /\ jobs[k].state = "wait"
              /\ jobs' = [jobs EXCEPT ![k] = [jobs[k] EXCEPT !.state = "active", !.by = s]]
        BY <2>1 DEF takeJob
      <3>2. jobs[k] \in Job
        BY LenProperties, ElementOfSeq DEF TypeOK
      <3>3. /\ [jobs[k] EXCEPT !.state = "active", !.by = s] \in Job
            /\ [jobs[k] EXCEPT !.state = "active", !.by = s].txn = jobs[k].txn
        BY <3>2 DEF Job, Unfinished
      <3>4. jobs[k].state \in Unfinished
        BY <3>1 DEF Unfinished
      <3>5. QED
        BY <3>1, <3>3, <3>4, UpdatedShrinks
    <2>2. CASE finishJob(s)
      <3>1. worker[s].job \in DOMAIN jobs /\ jobs[worker[s].job] \in Job
        BY <2>2, BusyWorker DEF finishJob
      <3>2. /\ [jobs[worker[s].job] EXCEPT !.state = "completed", !.by = "none"] \in Job
            /\ [jobs[worker[s].job] EXCEPT !.state = "completed", !.by = "none"].txn
                  = jobs[worker[s].job].txn
        BY <3>1 DEF Job
      <3>3. [jobs[worker[s].job] EXCEPT !.state = "completed", !.by = "none"].state \notin Unfinished
        BY <3>1 DEF Job, Unfinished
      <3>4. QED
        BY <2>2, <3>1, <3>2, <3>3, UpdatedShrinks, SameJobsShrink DEF finishJob
    <2>3. CASE commitConflicts(s)
      BY <2>3, ThrowShrinks DEF commitConflicts
    <2>4. CASE UNCHANGED jobs
      BY <2>4, SameJobsShrink
    <2>5. QED
      BY <2>1, <2>2, <2>3, <2>4
      DEF WorkerStep, checkExistingLog, readChainState, commitRow, writeTransactionBackup, markProcessed
  <1>3. NoneFreed
    <2>1. CASE markProcessed(s)
      <3>1. JobTxn(s) \in Txns /\ "PROCESSED" \in OutboxStatus
        BY <2>1, BusyWorker DEF markProcessed, OutboxStatus
      <3>2. QED
        BY <2>1, <3>1, WriteFrees DEF markProcessed, MarkProcessed
    <2>2. CASE UNCHANGED outbox
      BY <2>2, SameRowsFreed
    <2>3. QED
      BY <2>1, <2>2
      DEF WorkerStep, takeJob, checkExistingLog, readChainState, commitRow, commitConflicts,
          writeTransactionBackup, finishJob
  <1>4. QED
    BY <1>1, <1>2, <1>3, OwnersShrink, SameClaimsShrink

\* Neither does the update of the "failed" handler,
LEMMA OwnersMarkFailed == ASSUME TypeOK, OwnersInv, NEW s \in Servers, markFailed(s) PROVE OwnersInv'
  <1>1. PICK t \in failing[s] : outbox' = [outbox EXCEPT ![t] = Written("FAILED")]
    BY DEF markFailed
  <1>2. t \in Txns /\ "FAILED" \in OutboxStatus
    BY DEF TypeOK, OutboxStatus
  <1>3. NoneFreed
    BY <1>1, <1>2, WriteFrees
  <1>4. QED
    BY <1>3, OwnersShrink, SameJobsShrink, SameClaimsShrink DEF markFailed

\* nor a call of the worker that throws,
LEMMA OwnersCallFails ==
  ASSUME TypeOK, OwnersInv, NEW s \in Servers, workerCallFails(s) PROVE OwnersInv'
  <1>1. worker[s].pc # "idle" /\ HandlerThrows(s)
    BY DEF workerCallFails
  <1>2. JobsShrink /\ UNCHANGED <<publisher, transactions>>
    BY <1>1, ThrowShrinks
  <1>3. JobTxn(s) \in Txns /\ "PROCESSED" \in OutboxStatus
    BY <1>1, BusyWorker DEF OutboxStatus
  <1>4. NoneFreed
    BY <1>3, WriteFrees, SameRowsFreed DEF workerCallFails, MarkProcessed
  <1>5. QED
    BY <1>2, <1>4, OwnersShrink, SameClaimsShrink

\* nor a crash,
LEMMA OwnersCrash == ASSUME TypeOK, OwnersInv, NEW s \in Servers, crash(s) PROVE OwnersInv'
  <1>1. ClaimsShrink
    BY DEF ClaimsShrink, OwnersInv, crash, Publisher, TypeOK
  <1>2. QED
    BY <1>1, OwnersShrink, SameJobsShrink, SameRowsFreed DEF crash

\* nor the queue: a job that is stalled or delayed was unfinished all along.
LEMMA OwnersQueue == ASSUME TypeOK, OwnersInv, NEW k \in DOMAIN jobs, QueueStep(k) PROVE OwnersInv'
  <1>1. UNCHANGED <<publisher, transactions, outbox>>
    BY DEF QueueStep, promoteDelayed, stalledJob
  <1>2. jobs[k] \in Job
    BY LenProperties, ElementOfSeq DEF TypeOK
  <1>3. JobsShrink
    <2>1. CASE promoteDelayed(k)
      <3>1. /\ [jobs[k] EXCEPT !.state = "wait"] \in Job
            /\ [jobs[k] EXCEPT !.state = "wait"].txn = jobs[k].txn
        BY <1>2 DEF Job, Unfinished
      <3>2. jobs[k].state \in Unfinished
        BY <2>1 DEF promoteDelayed, Unfinished
      <3>3. QED
        BY <2>1, <3>1, <3>2, UpdatedShrinks DEF promoteDelayed
    <2>2. ASSUME NEW s \in Servers, stalledJob(k, s) PROVE JobsShrink
      <3>1. /\ [jobs[k] EXCEPT !.state = "wait", !.stalls = 1, !.by = "none"] \in Job
            /\ [jobs[k] EXCEPT !.state = "wait", !.stalls = 1, !.by = "none"].txn = jobs[k].txn
        BY <1>2 DEF Job, Unfinished
      <3>2. jobs[k].state = "active" /\ jobs[k].state \in Unfinished
        BY <2>2 DEF stalledJob, Unfinished
      <3>3. CASE jobs[k].stalls = 0
        BY <2>2, <3>1, <3>2, <3>3, UpdatedShrinks DEF stalledJob
      <3>4. CASE jobs[k].stalls # 0
        BY <2>2, <3>2, <3>4, FailedShrinks DEF stalledJob
      <3>5. QED
        BY <3>3, <3>4
    <2>3. QED
      BY <2>1, <2>2 DEF QueueStep
  <1>4. QED
    BY <1>1, <1>3, OwnersShrink, SameClaimsShrink, SameRowsFreed

\* A row that grows old while nobody works on it has no owner.
LEMMA OwnersStale ==
  ASSUME TypeOK, OwnersInv, NEW t \in Txns, BecomeStale(t), ~HasCarrier(t) PROVE OwnersInv'
  <1>1. ~Owned(t)
    <2>1. DOMAIN jobs = 1 .. Len(jobs)
      BY LenProperties DEF TypeOK
    <2>2. QED
      BY <2>1 DEF HasCarrier, HasUnfinishedJob, IsHeld, Owned, OwnsRow
  <1>2. \A u \in Txns : u # t => outbox'[u] = outbox[u]
    BY DEF BecomeStale, TypeOK, Txns
  <1>3. NoneFreed
    BY <1>1, <1>2 DEF NoneFreed, Free
  <1>4. QED
    BY <1>3, OwnersShrink, SameJobsShrink, SameClaimsShrink DEF BecomeStale

ExclusiveInv == Only(ExclusiveKinds) => OwnersInv

\* Within the faults that the property allows, every step keeps the owners apart.
LEMMA ExclusiveStep == TypeOK /\ ExclusiveInv /\ [Next]_vars => ExclusiveInv'
  <1> SUFFICES ASSUME TypeOK, ExclusiveInv, [Next]_vars, Only(ExclusiveKinds)' PROVE OwnersInv'
    BY DEF ExclusiveInv
  <1>1. OwnersInv
    BY FaultsGrow DEF ExclusiveInv, Only
  <1>2. ASSUME NEW u \in Users, createTransaction(u) PROVE OwnersInv'
    BY <1>1, <1>2, OwnersCreate
  <1>3. ASSUME NEW s \in Servers, Boot(s) \/ markFailed(s) PROVE OwnersInv'
    BY <1>1, <1>3, OwnersBoot, OwnersMarkFailed
  <1>4. ASSUME NEW s \in Servers, PublisherStep(s) PROVE OwnersInv'
    <2>1. ~rollbackClaim(s)
      BY <1>1 DEF OwnersInv, rollbackClaim
    <2>2. QED
      BY <1>1, <1>4, <2>1, OwnersReset, OwnersFind, OwnersClaim, OwnersEnqueue DEF PublisherStep
  <1>5. ASSUME NEW s \in Servers, WorkerStep(s) PROVE OwnersInv'
    BY <1>1, <1>5, OwnersWorker
  <1>6. ASSUME NEW s \in Servers, FaultStep(s) PROVE OwnersInv'
    <2>1. ~rollbackFails(s)
      BY <1>1 DEF OwnersInv, rollbackFails
    <2>2. ~enqueueFails(s)
      BY FaultExcluded DEF enqueueFails, ExclusiveKinds
    <2>3. QED
      BY <1>1, <1>6, <2>1, <2>2, OwnersClaimFails, OwnersCallFails, OwnersCrash DEF FaultStep
  <1>7. ASSUME NEW k \in DOMAIN jobs, QueueStep(k) PROVE OwnersInv'
    BY <1>1, <1>7, OwnersQueue
  <1>8. ASSUME NEW t \in Txns, BecomeStale(t) PROVE OwnersInv'
    <2>1. ~HasCarrier(t)
      BY <1>8, FaultExcluded DEF BecomeStale, ExclusiveKinds
    <2>2. QED
      BY <1>1, <1>8, <2>1, OwnersStale
  <1>9. CASE UNCHANGED vars
    BY <1>1, <1>9, OwnersShrink, SameJobsShrink, SameClaimsShrink, SameRowsFreed DEF vars
  <1>10. QED
    BY <1>2, <1>3, <1>4, <1>5, <1>6, <1>7, <1>8, <1>9 DEF Next

LEMMA ExclusiveInit == Init => ExclusiveInv
  BY DEF Init, ExclusiveInv, OwnersInv, Publisher, Txns

\* A set with no two elements has at most one.
LEMMA AtMostOne ==
  ASSUME NEW S, \A a, b \in S : a = b
  PROVE  Cardinality(S) \in {0, 1} /\ (S = {} => Cardinality(S) = 0)
  <1>1. CASE S = {}
    BY <1>1, FS_EmptySet
  <1>2. CASE S # {}
    <2>1. PICK a \in S : S = {a}
      BY <1>2
    <2>2. QED
      BY <1>2, <2>1, FS_Singleton
  <1>3. QED
    BY <1>1, <1>2

\* Owners that are pairwise the same count at most one.
LEMMA OwnersCount ==
  ASSUME TypeOK, OwnersInv, NEW t \in Txns
  PROVE  Owners(t) <= 1 /\ (outbox[t].status = "PENDING" => Owners(t) = 0)
  <1> DEFINE P == {s \in Servers : t \in publisher[s].claimed}
             J == {k \in DOMAIN jobs : jobs[k].txn = t /\ jobs[k].state \in Unfinished}
  <1>1. DOMAIN jobs = 1 .. Len(jobs)
    BY LenProperties DEF TypeOK
  <1>2. /\ \A a, b \in P : a = b
        /\ \A j, k \in J : j = k
        /\ P = {} \/ J = {}
        /\ outbox[t].status = "PENDING" => P = {} /\ J = {}
    BY <1>1 DEF OwnersInv, OneOwner, Free, Owned, OwnsRow
  <1>3. Owners(t) = Cardinality(P) + Cardinality(J)
    BY DEF Owners
  <1> HIDE DEF P, J
  <1>4. /\ Cardinality(P) \in {0, 1} /\ (P = {} => Cardinality(P) = 0)
        /\ Cardinality(J) \in {0, 1} /\ (J = {} => Cardinality(J) = 0)
    BY <1>2, AtMostOne
  <1>5. QED
    BY <1>2, <1>3, <1>4

\* Whatever claims fail, calls throw, servers crash and locks expire: a row has at most
\* one publisher or unfinished job, and none while it is PENDING.
THEOREM ClaimsExclusive == Spec => []ClaimExclusive
  <1>1. TypeOK /\ ExclusiveInv => ClaimExclusive
    BY OwnersCount DEF ExclusiveInv, ClaimExclusive, ExclusiveKinds
  <1>2. Spec => []ExclusiveInv
    BY TypeCorrect, ExclusiveInit, ExclusiveStep, PTL DEF Spec
  <1>3. QED
    BY <1>1, <1>2, TypeCorrect, PTL

-----------------------------------------------------------------------------
(* In somebody's hands *)

CarrierKinds == {"enqueue", "worker", "slow"}

\* Without crashes and expired locks workers and active jobs belong to each other.
Locks ==
  /\ \A s \in Servers : worker[s].pc # "idle" => HoldsLock(s)
  /\ \A k \in 1 .. Len(jobs) : jobs[k].state = "active" =>
       jobs[k].by \in Servers /\ worker[jobs[k].by].pc # "idle" /\ worker[jobs[k].by].job = k

\* A scheduler that is not publishing has nothing to lose.
IdleClaimsNothing ==
  \A s \in Servers : publisher[s].pc \in {"down", "starting", "idle"} => publisher[s].claimed = {}

\* The worker of job k has marked the row and has only to return.
Finishing(k) == jobs[k].state = "active" /\ worker[jobs[k].by].pc = "finish"

Carries(k, t) == OwnsRow(k, t) /\ ~Finishing(k)

InHand(t) == IsHeld(t) \/ \E k \in 1 .. Len(jobs) : Carries(k, t)

ProcessingInHand == \A t \in Txns : outbox[t].status = "PROCESSING" => InHand(t)

HandsInv == Locks /\ IdleClaimsNothing /\ ProcessingInHand

\* What keeps every part of the invariant but the last.
LEMMA SameLocks == ASSUME Locks, UNCHANGED <<jobs, worker>> PROVE Locks'
  BY DEF Locks, HoldsLock

LEMMA SamePublishers == ASSUME IdleClaimsNothing, UNCHANGED publisher PROVE IdleClaimsNothing'
  BY DEF IdleClaimsNothing

\* A worker goes on with its job.
LEMMA LocksGoOn ==
  ASSUME Locks, NEW s \in Servers, UNCHANGED jobs, worker[s].pc # "idle",
         worker'[s].job = worker[s].job, worker'[s].pc # "idle",
         \A q \in Servers \ {s} : worker'[q] = worker[q]
  PROVE  Locks'
  <1>1. ASSUME NEW q \in Servers, worker'[q].pc # "idle" PROVE HoldsLock(q)'
    <2>1. worker'[q].job = worker[q].job /\ worker[q].pc # "idle"
      BY <1>1
    <2>2. HoldsLock(q)
      BY <2>1 DEF Locks
    <2>3. QED
      BY <2>1, <2>2 DEF HoldsLock
  <1>2. ASSUME NEW k \in 1 .. Len(jobs), jobs[k].state = "active"
        PROVE  jobs[k].by \in Servers /\ worker'[jobs[k].by].pc # "idle" /\ worker'[jobs[k].by].job = k
    BY <1>2 DEF Locks
  <1>3. QED
    BY <1>1, <1>2 DEF Locks

\* A worker drops its job, which is not active any more.
LEMMA LocksDone ==
  ASSUME TypeOK, Locks, NEW s \in Servers, worker[s].pc # "idle",
         worker' = [worker EXCEPT ![s] = IdleWorker],
         Len(jobs') = Len(jobs), jobs'[worker[s].job].state # "active",
         \A m \in 1 .. Len(jobs) : m # worker[s].job => jobs'[m] = jobs[m]
  PROVE  Locks'
  <1> DEFINE k == worker[s].job
  <1>1. worker'[s].pc = "idle" /\ \A q \in Servers \ {s} : worker'[q] = worker[q]
    BY DEF IdleWorker, Worker, TypeOK
  <1>2. jobs[k].state = "active" /\ jobs[k].by = s
    BY DEF Locks, HoldsLock
  <1>3. ASSUME NEW q \in Servers, worker'[q].pc # "idle" PROVE HoldsLock(q)'
    <2>1. q # s /\ worker'[q] = worker[q]
      BY <1>1, <1>3
    <2>2. jobs[worker[q].job].state = "active" /\ jobs[worker[q].job].by = q
      BY <1>3, <2>1 DEF Locks, HoldsLock
    <2>3. worker[q].job # k /\ worker[q].job \in 1 .. Len(jobs)
      BY <1>2, <1>3, <2>1, <2>2, BusyWorker
    <2>4. QED
      BY <2>1, <2>2, <2>3 DEF HoldsLock
  <1>4. ASSUME NEW m \in 1 .. Len(jobs), jobs'[m].state = "active"
        PROVE  jobs'[m].by \in Servers /\ worker'[jobs'[m].by].pc # "idle" /\ worker'[jobs'[m].by].job = m
    <2>1. m # k /\ jobs'[m] = jobs[m]
      BY <1>4
    <2>2. jobs[m].by \in Servers /\ worker[jobs[m].by].pc # "idle" /\ worker[jobs[m].by].job = m
      BY <1>4, <2>1 DEF Locks
    <2>3. jobs[m].by # s
      BY <2>1, <2>2
    <2>4. QED
      BY <1>1, <2>1, <2>2, <2>3
  <1>5. QED
    BY <1>3, <1>4 DEF Locks

\* A worker takes a job that was waiting.
LEMMA LocksTake == ASSUME TypeOK, Locks, NEW s \in Servers, takeJob(s) PROVE Locks'
  <1>1. PICK k \in DOMAIN jobs :
          /\ jobs[k].state = "wait"
          /\ jobs' = [jobs EXCEPT ![k] = [jobs[k] EXCEPT !.state = "active", !.by = s]]
          /\ worker' = [worker EXCEPT ![s] = Worker("check", k)]
    BY DEF takeJob
  <1>2. jobs[k] \in Job /\ worker[s].pc = "idle"
    BY LenProperties, ElementOfSeq DEF TypeOK, takeJob
  <1>3. [jobs[k] EXCEPT !.state = "active", !.by = s] \in Job
    BY <1>2 DEF Job, Unfinished
  <1>4. /\ Len(jobs') = Len(jobs)
        /\ \A m \in 1 .. Len(jobs) :
             jobs'[m] = IF m = k THEN [jobs[k] EXCEPT !.state = "active", !.by = s] ELSE jobs[m]
    BY <1>1, <1>3, JobWrite
  <1>5. k \in 1 .. Len(jobs) /\ jobs'[k].state = "active" /\ jobs'[k].by = s
    BY <1>2, <1>4, LenProperties DEF TypeOK, Job
  <1>6. /\ worker'[s].job = k /\ worker'[s].pc # "idle"
        /\ \A q \in Servers \ {s} : worker'[q] = worker[q]
    BY <1>1 DEF Worker, TypeOK
  <1>7. ASSUME NEW q \in Servers, worker'[q].pc # "idle" PROVE HoldsLock(q)'
    <2>1. CASE q = s
      BY <1>5, <1>6, <2>1 DEF HoldsLock
    <2>2. CASE q # s
      <3>1. worker'[q] = worker[q] /\ worker[q].pc # "idle"
        BY <1>6, <1>7, <2>2
      <3>2. jobs[worker[q].job].state = "active" /\ jobs[worker[q].job].by = q
        BY <3>1 DEF Locks, HoldsLock
      <3>3. worker[q].job \in 1 .. Len(jobs) /\ worker[q].job # k
        BY <1>1, <3>1, <3>2, BusyWorker
      <3>4. QED
        BY <1>4, <3>1, <3>2, <3>3 DEF HoldsLock
    <2>3. QED
      BY <2>1, <2>2
  <1>8. ASSUME NEW m \in 1 .. Len(jobs), jobs'[m].state = "active"
        PROVE  jobs'[m].by \in Servers /\ worker'[jobs'[m].by].pc # "idle" /\ worker'[jobs'[m].by].job = m
    <2>1. CASE m = k
      BY <1>5, <1>6, <2>1
    <2>2. CASE m # k
      <3>1. jobs'[m] = jobs[m]
        BY <1>4, <2>2
      <3>2. jobs[m].by \in Servers /\ worker[jobs[m].by].pc # "idle" /\ worker[jobs[m].by].job = m
        BY <1>8, <3>1 DEF Locks
      <3>3. jobs[m].by # s
        BY <1>2, <3>2
      <3>4. QED
        BY <1>6, <3>1, <3>2, <3>3
    <2>3. QED
      BY <2>1, <2>2
  <1>9. QED
    BY <1>4, <1>7, <1>8 DEF Locks

\* A job that is not active is added, or becomes another that is not active.
LEMMA LocksQueue ==
  ASSUME TypeOK, Locks, UNCHANGED worker, Len(jobs) <= Len(jobs'), Len(jobs') \in Nat,
         \A m \in 1 .. Len(jobs') :
           \/ m \in 1 .. Len(jobs) /\ jobs'[m] = jobs[m]
           \/ jobs'[m].state # "active" /\ (m \in 1 .. Len(jobs) => jobs[m].state # "active")
  PROVE  Locks'
  <1>1. ASSUME NEW q \in Servers, worker'[q].pc # "idle" PROVE HoldsLock(q)'
    <2>1. jobs[worker[q].job].state = "active" /\ jobs[worker[q].job].by = q
      BY <1>1 DEF Locks, HoldsLock
    <2>2. worker[q].job \in 1 .. Len(jobs)
      BY <1>1, BusyWorker
    <2>3. Len(jobs) \in Nat
      BY LenProperties DEF TypeOK
    <2>4. worker[q].job \in 1 .. Len(jobs')
      BY <2>2, <2>3
    <2>5. QED
      BY <2>1, <2>2, <2>4 DEF HoldsLock
  <1>2. ASSUME NEW m \in 1 .. Len(jobs'), jobs'[m].state = "active"
        PROVE  jobs'[m].by \in Servers /\ worker'[jobs'[m].by].pc # "idle" /\ worker'[jobs'[m].by].job = m
    <2>1. m \in 1 .. Len(jobs) /\ jobs'[m] = jobs[m]
      BY <1>2
    <2>2. QED
      BY <1>2, <2>1 DEF Locks
  <1>3. QED
    BY <1>1, <1>2 DEF Locks

-----------------------------------------------------------------------------
(* The steps, by what they do to those who hold a row *)

\* A step of the scheduler alone.
LEMMA HandsPublisher ==
  ASSUME HandsInv, UNCHANGED <<transactions, jobs, worker, failing>>, IdleClaimsNothing',
         \A t \in Txns : outbox'[t].status = "PROCESSING" =>
           \/ \E s \in Servers : t \in publisher'[s].claimed
           \/ /\ outbox[t].status = "PROCESSING"
              /\ \A s \in Servers : t \in publisher[s].claimed => t \in publisher'[s].claimed
  PROVE  HandsInv'
  <1>1. Locks'
    BY SameLocks DEF HandsInv
  <1>2. Txns' = Txns
    BY DEF Txns
  <1>3. ASSUME NEW t \in Txns, outbox'[t].status = "PROCESSING" PROVE InHand(t)'
    <2>1. CASE \E s \in Servers : t \in publisher'[s].claimed
      BY <2>1 DEF InHand, IsHeld
    <2>2. CASE /\ outbox[t].status = "PROCESSING"
               /\ \A s \in Servers : t \in publisher[s].claimed => t \in publisher'[s].claimed
      BY <2>2 DEF HandsInv, ProcessingInHand, InHand, IsHeld, Carries, OwnsRow, Finishing
    <2>3. QED
      BY <1>3, <2>1, <2>2
  <1>4. QED
    BY <1>1, <1>2, <1>3 DEF HandsInv, ProcessingInHand

LEMMA HandsBoot == ASSUME TypeOK, HandsInv, NEW s \in Servers, Boot(s) PROVE HandsInv'
  <1>1. publisher[s].claimed = {} /\ IdleClaimsNothing'
    BY DEF HandsInv, IdleClaimsNothing, Boot, Publisher, TypeOK
  <1>2. QED
    BY <1>1, HandsPublisher DEF Boot, TypeOK

LEMMA HandsReset ==
  ASSUME TypeOK, HandsInv, NEW s \in Servers, resetStuckProcessingEvents(s) PROVE HandsInv'
  <1>1. publisher[s].claimed = {} /\ IdleClaimsNothing'
    BY DEF HandsInv, IdleClaimsNothing, resetStuckProcessingEvents, Publisher, TypeOK
  <1>2. \A t \in Txns : outbox'[t].status = "PROCESSING" => outbox[t].status = "PROCESSING"
    BY DEF resetStuckProcessingEvents, Written
  <1>3. QED
    BY <1>1, <1>2, HandsPublisher DEF resetStuckProcessingEvents, TypeOK

LEMMA HandsFind == ASSUME TypeOK, HandsInv, NEW s \in Servers, findCandidates(s) PROVE HandsInv'
  <1>1. publisher[s].claimed = {} /\ IdleClaimsNothing'
    BY DEF HandsInv, IdleClaimsNothing, findCandidates, Publisher, TypeOK
  <1>2. QED
    BY <1>1, HandsPublisher DEF findCandidates, TypeOK

LEMMA HandsClaim == ASSUME TypeOK, HandsInv, NEW s \in Servers, claimEvent(s) PROVE HandsInv'
  <1>1. PICK t \in publisher[s].batch :
          LET rest == publisher[s].batch \ {t}
              mine == publisher[s].claimed
          IN \/ /\ outbox' = [outbox EXCEPT ![t] = Written("PROCESSING")]
                /\ publisher' = [publisher EXCEPT ![s] = Continue(rest, mine \cup {t})]
             \/ /\ publisher' = [publisher EXCEPT ![s] = Continue(rest, mine)]
                /\ UNCHANGED outbox
    BY DEF claimEvent
  <1>2. t \in Txns
    BY DEF TypeOK, PublisherState
  <1>3. IdleClaimsNothing'
    <2>1. \E batch, claimed : publisher' = [publisher EXCEPT ![s] = Continue(batch, claimed)]
      BY <1>1
    <2>2. PICK batch, claimed : publisher' = [publisher EXCEPT ![s] = Continue(batch, claimed)]
      BY <2>1
    <2>3. /\ publisher'[s] = Continue(batch, claimed)
          /\ \A q \in Servers \ {s} : publisher'[q] = publisher[q]
      BY <2>2 DEF TypeOK
    <2>4. Continue(batch, claimed).pc = "idle" => Continue(batch, claimed).claimed = {}
      BY DEF Continue
    <2>5. Continue(batch, claimed).pc \notin {"down", "starting"}
      BY DEF Continue
    <2>6. QED
      BY <2>3, <2>4, <2>5 DEF HandsInv, IdleClaimsNothing
  <1>4. \A u \in Txns \ {t} : outbox'[u] = outbox[u]
    BY <1>1 DEF TypeOK, Txns
  <1>5. /\ publisher[s].claimed \subseteq publisher'[s].claimed
        /\ \A q \in Servers \ {s} : publisher'[q] = publisher[q]
        /\ t \in publisher'[s].claimed \/ UNCHANGED outbox
    BY <1>1 DEF Continue, TypeOK
  <1>6. \A u \in Txns : outbox'[u].status = "PROCESSING" =>
           \/ \E q \in Servers : u \in publisher'[q].claimed
           \/ /\ outbox[u].status = "PROCESSING"
              /\ \A q \in Servers : u \in publisher[q].claimed => u \in publisher'[q].claimed
    BY <1>4, <1>5
  <1>7. QED
    BY <1>3, <1>6, HandsPublisher DEF claimEvent

LEMMA HandsRollback == ASSUME TypeOK, HandsInv, NEW s \in Servers, rollbackClaim(s) PROVE HandsInv'
  <1>1. PICK t \in publisher[s].claimed :
          /\ outbox' = [outbox EXCEPT ![t] = Written("PENDING")]
          /\ publisher' = [publisher EXCEPT ![s] = Continue({}, publisher[s].claimed \ {t})]
    BY DEF rollbackClaim
  <1>2. t \in Txns /\ Written("PENDING") \in OutboxRow
    BY WrittenType DEF TypeOK, PublisherState, OutboxStatus
  <1>3. IdleClaimsNothing'
    BY <1>1 DEF HandsInv, IdleClaimsNothing, Continue, TypeOK
  <1>4. \A u \in Txns : outbox'[u] = IF u = t THEN Written("PENDING") ELSE outbox[u]
    BY <1>1, <1>2, OutboxWrite
  <1>5. /\ publisher'[s].claimed = publisher[s].claimed \ {t}
        /\ \A q \in Servers \ {s} : publisher'[q] = publisher[q]
    BY <1>1 DEF Continue, TypeOK
  <1>6. \A u \in Txns : outbox'[u].status = "PROCESSING" =>
           /\ outbox[u].status = "PROCESSING"
           /\ \A q \in Servers : u \in publisher[q].claimed => u \in publisher'[q].claimed
    BY <1>4, <1>5 DEF Written
  <1>7. QED
    BY <1>3, <1>6, HandsPublisher DEF rollbackClaim

\* A job is added for a row; the publisher may let go of it, and of no other.
LEMMA HandsAdd ==
  ASSUME TypeOK, HandsInv, NEW s \in Servers, NEW t \in Txns, jobs' = Append(jobs, NewJob(t)),
         UNCHANGED <<transactions, outbox, worker, failing>>, IdleClaimsNothing',
         \A q \in Servers : publisher[q].claimed \ {t} \subseteq publisher'[q].claimed
  PROVE  HandsInv'
  <1>1. /\ Len(jobs) \in Nat /\ Len(jobs') = Len(jobs) + 1
        /\ \A m \in 1 .. Len(jobs) : jobs'[m] = jobs[m]
    BY JobAdd DEF TypeOK
  <1>2. jobs'[Len(jobs) + 1] = NewJob(t)
    <2>1. NewJob(t) \in Job
      BY DEF NewJob, Job, Unfinished
    <2>2. QED
      BY <2>1, AppendProperties DEF TypeOK
  <1>3. NewJob(t).state = "wait" /\ NewJob(t).txn = t
    BY DEF NewJob
  <1>4. Locks'
    <2>1. \A m \in 1 .. Len(jobs') :
            \/ m \in 1 .. Len(jobs) /\ jobs'[m] = jobs[m]
            \/ jobs'[m].state # "active" /\ (m \in 1 .. Len(jobs) => jobs[m].state # "active")
      BY <1>1, <1>2, <1>3
    <2>2. Len(jobs) <= Len(jobs') /\ Len(jobs') \in Nat
      BY <1>1
    <2>3. QED
      BY <2>1, <2>2, LocksQueue DEF HandsInv
  <1>5. ASSUME NEW u \in Txns, outbox'[u].status = "PROCESSING" PROVE InHand(u)'
    <2>1. CASE u = t
      <3>1. \A m \in Nat : m = Len(jobs) + 1 => m \in 1 .. Len(jobs') /\ Carries(m, t)'
        BY <1>1, <1>2, <1>3 DEF Carries, OwnsRow, Finishing, Unfinished
      <3>2. \E m \in 1 .. Len(jobs') : Carries(m, t)'
        BY <1>1, <3>1
      <3>3. QED
        BY <2>1, <3>2 DEF InHand
    <2>2. CASE u # t
      <3>1. InHand(u)
        BY <1>5 DEF HandsInv, ProcessingInHand
      <3>2. IsHeld(u) => IsHeld(u)'
        BY <2>2 DEF IsHeld
      <3>3. \A m \in 1 .. Len(jobs) : m \in 1 .. Len(jobs') /\ (Carries(m, u) => Carries(m, u)')
        BY <1>1 DEF Carries, OwnsRow, Finishing
      <3>4. QED
        BY <3>1, <3>2, <3>3 DEF InHand
    <2>3. QED
      BY <2>1, <2>2
  <1>6. Txns' = Txns
    BY DEF Txns
  <1>7. QED
    BY <1>4, <1>5, <1>6 DEF HandsInv, ProcessingInHand

LEMMA HandsEnqueue == ASSUME TypeOK, HandsInv, NEW s \in Servers, enqueueEvent(s) PROVE HandsInv'
  <1>1. PICK t \in publisher[s].claimed :
          /\ jobs' = Append(jobs, NewJob(t))
          /\ publisher' = [publisher EXCEPT ![s] = Continue({}, publisher[s].claimed \ {t})]
    BY DEF enqueueEvent
  <1>2. t \in Txns
    BY DEF TypeOK, PublisherState
  <1>3. IdleClaimsNothing'
    BY <1>1 DEF HandsInv, IdleClaimsNothing, Continue, TypeOK
  <1>4. \A q \in Servers : publisher[q].claimed \ {t} \subseteq publisher'[q].claimed
    BY <1>1 DEF Continue, TypeOK
  <1>5. QED
    BY <1>1, <1>2, <1>3, <1>4, HandsAdd DEF enqueueEvent

LEMMA HandsEnqueueFails ==
  ASSUME TypeOK, HandsInv, NEW s \in Servers, enqueueFails(s) PROVE HandsInv'
  <1>1. PICK t \in publisher[s].claimed : UNCHANGED jobs \/ jobs' = Append(jobs, NewJob(t))
    BY DEF enqueueFails
  <1>2. t \in Txns /\ publisher[s] \in PublisherState
    BY DEF TypeOK, PublisherState
  <1>3. \A q \in Servers : publisher'[q].claimed = publisher[q].claimed
    BY <1>2 DEF enqueueFails, TypeOK, PublisherState
  <1>4. IdleClaimsNothing'
    BY <1>2, <1>3 DEF HandsInv, IdleClaimsNothing, enqueueFails, TypeOK, PublisherState
  <1>5. CASE UNCHANGED jobs
    BY <1>3, <1>4, <1>5, HandsPublisher DEF enqueueFails
  <1>6. CASE jobs' = Append(jobs, NewJob(t))
    BY <1>2, <1>3, <1>4, <1>6, HandsAdd DEF enqueueFails
  <1>7. QED
    BY <1>1, <1>5, <1>6

\* What the outbox write of a worker leaves PROCESSING.
LEMMA MarkLeaves ==
  ASSUME TypeOK, NEW s \in Servers, worker[s].pc # "idle",
         UNCHANGED outbox \/ (worker[s].pc = "mark" /\ MarkProcessed(s)),
         NEW t \in Txns, outbox'[t].status = "PROCESSING"
  PROVE  outbox[t].status = "PROCESSING" /\ (MarkProcessed(s) => t # JobTxn(s))
  <1>1. JobTxn(s) \in Txns /\ Written("PROCESSED") \in OutboxRow
    BY BusyWorker, WrittenType DEF OutboxStatus
  <1>2. CASE MarkProcessed(s)
    <2>1. \A u \in Txns : outbox'[u] = IF u = JobTxn(s) THEN Written("PROCESSED") ELSE outbox[u]
      BY <1>1, <1>2, OutboxWrite DEF MarkProcessed
    <2>2. QED
      BY <2>1 DEF Written
  <1>3. QED
    BY <1>2

\* A worker goes on: it is not about to finish, or has marked the row PROCESSED.
LEMMA HandsGoOn ==
  ASSUME TypeOK, HandsInv, NEW s \in Servers, UNCHANGED <<transactions, jobs, publisher, failing>>,
         worker[s].pc # "idle", worker'[s].job = worker[s].job, worker'[s].pc # "idle",
         \A q \in Servers \ {s} : worker'[q] = worker[q],
         \/ UNCHANGED outbox /\ worker'[s].pc # "finish"
         \/ worker[s].pc = "mark" /\ MarkProcessed(s)
  PROVE  HandsInv'
  <1>1. Locks'
    BY LocksGoOn DEF HandsInv
  <1>2. Txns' = Txns /\ IdleClaimsNothing'
    BY SamePublishers DEF Txns, HandsInv
  <1>3. ASSUME NEW t \in Txns, outbox'[t].status = "PROCESSING" PROVE InHand(t)'
    <2>1. outbox[t].status = "PROCESSING" /\ (worker'[s].pc # "finish" \/ t # JobTxn(s))
      BY <1>3, MarkLeaves
    <2>2. CASE IsHeld(t)
      BY <2>2 DEF InHand, IsHeld
    <2>3. ASSUME NEW k \in 1 .. Len(jobs), Carries(k, t) PROVE Carries(k, t)'
      <3>1. OwnsRow(k, t)' /\ jobs[k].txn = t
        BY <2>3 DEF Carries, OwnsRow
      <3>2. ~Finishing(k)'
        <4>1. SUFFICES ASSUME jobs[k].state = "active", worker'[jobs[k].by].pc = "finish" PROVE FALSE
          BY DEF Finishing
        <4>2. jobs[k].by \in Servers /\ worker[jobs[k].by].job = k
          BY <4>1 DEF HandsInv, Locks
        <4>3. CASE jobs[k].by = s
          BY <2>1, <3>1, <4>1, <4>2, <4>3 DEF JobTxn
        <4>4. CASE jobs[k].by # s
          BY <2>3, <4>1, <4>2, <4>4 DEF Carries, Finishing
        <4>5. QED
          BY <4>3, <4>4
      <3>3. QED
        BY <3>1, <3>2 DEF Carries
    <2>4. InHand(t)
      BY <2>1 DEF HandsInv, ProcessingInHand
    <2>5. QED
      BY <2>2, <2>3, <2>4 DEF InHand
  <1>4. QED
    BY <1>1, <1>2, <1>3 DEF HandsInv, ProcessingInHand

LEMMA HandsTake == ASSUME TypeOK, HandsInv, NEW s \in Servers, takeJob(s) PROVE HandsInv'
  <1>1. Locks'
    BY LocksTake DEF HandsInv
  <1>2. Txns' = Txns /\ IdleClaimsNothing'
    BY SamePublishers DEF Txns, HandsInv, takeJob
  <1>3. PICK k \in DOMAIN jobs :
          /\ jobs[k].state = "wait"
          /\ jobs' = [jobs EXCEPT ![k] = [jobs[k] EXCEPT !.state = "active", !.by = s]]
          /\ worker' = [worker EXCEPT ![s] = Worker("check", k)]
    BY DEF takeJob
  <1>4. jobs[k] \in Job /\ worker[s].pc = "idle" /\ UNCHANGED <<outbox, publisher, failing>>
    BY LenProperties, ElementOfSeq DEF TypeOK, takeJob
  <1>5. [jobs[k] EXCEPT !.state = "active", !.by = s] \in Job
    BY <1>4 DEF Job, Unfinished
  <1>6. /\ Len(jobs') = Len(jobs)
        /\ \A m \in 1 .. Len(jobs) :
             jobs'[m] = IF m = k THEN [jobs[k] EXCEPT !.state = "active", !.by = s] ELSE jobs[m]
    BY <1>3, <1>5, JobWrite
  <1>7. k \in 1 .. Len(jobs) /\ jobs'[k].state = "active" /\ jobs'[k].by = s /\ jobs'[k].txn = jobs[k].txn
    BY <1>4, <1>6, LenProperties DEF TypeOK, Job
  <1>8. worker'[s].pc = "check" /\ \A q \in Servers \ {s} : worker'[q] = worker[q]
    BY <1>3 DEF Worker, TypeOK
  <1>9. ASSUME NEW t \in Txns, NEW m \in 1 .. Len(jobs), Carries(m, t) PROVE Carries(m, t)'
    <2>1. CASE m = k
      BY <1>7, <1>8, <1>9, <2>1 DEF Carries, OwnsRow, Finishing, Unfinished
    <2>2. CASE m # k
      <3>1. jobs'[m] = jobs[m]
        BY <1>6, <2>2
      <3>2. ~Finishing(m)'
        <4>1. SUFFICES ASSUME jobs[m].state = "active", worker'[jobs[m].by].pc = "finish" PROVE FALSE
          BY <3>1 DEF Finishing
        <4>2. jobs[m].by \in Servers
          BY <4>1 DEF HandsInv, Locks
        <4>3. QED
          BY <1>8, <1>9, <4>1, <4>2 DEF Carries, Finishing
      <3>3. QED
        BY <1>9, <3>1, <3>2 DEF Carries, OwnsRow
    <2>3. QED
      BY <2>1, <2>2
  <1>10. ASSUME NEW t \in Txns, outbox'[t].status = "PROCESSING" PROVE InHand(t)'
    <2>1. InHand(t)
      BY <1>4, <1>10 DEF HandsInv, ProcessingInHand
    <2>2. IsHeld(t) => IsHeld(t)'
      BY <1>4 DEF IsHeld
    <2>3. QED
      BY <1>6, <1>9, <2>1, <2>2 DEF InHand
  <1>11. QED
    BY <1>1, <1>2, <1>10 DEF HandsInv, ProcessingInHand

\* A worker drops its job k; every row that k carried is held by a "failed" handler, is
\* carried by k still, or is not PROCESSING.
LEMMA HandsDone ==
  ASSUME TypeOK, HandsInv, NEW s \in Servers, worker[s].pc # "idle",
         NEW k \in 1 .. Len(jobs), worker[s].job = k,
         worker' = [worker EXCEPT ![s] = IdleWorker], UNCHANGED <<transactions, publisher>>,
         Len(jobs') = Len(jobs), jobs'[k].state # "active",
         \A m \in 1 .. Len(jobs) : m # k => jobs'[m] = jobs[m],
         \A q \in Servers : failing[q] \subseteq failing'[q],
         \A t \in Txns : outbox'[t].status = "PROCESSING" =>
           /\ outbox[t].status = "PROCESSING"
           /\ Carries(k, t) => t \in failing'[s] \/ OwnsRow(k, t)'
  PROVE  HandsInv'
  <1>1. Locks'
    BY LocksDone DEF HandsInv
  <1>2. Txns' = Txns /\ IdleClaimsNothing'
    BY SamePublishers DEF Txns, HandsInv
  <1>3. worker'[s].pc = "idle" /\ \A q \in Servers \ {s} : worker'[q] = worker[q]
    BY DEF IdleWorker, Worker, TypeOK
  <1>4. ASSUME NEW t \in Txns, outbox'[t].status = "PROCESSING" PROVE InHand(t)'
    <2>1. outbox[t].status = "PROCESSING" /\ InHand(t)
      BY <1>4 DEF HandsInv, ProcessingInHand
    <2>2. CASE IsHeld(t)
      BY <2>2 DEF InHand, IsHeld
    <2>3. ASSUME NEW m \in 1 .. Len(jobs), m # k, Carries(m, t) PROVE Carries(m, t)'
      <3>1. jobs'[m] = jobs[m]
        BY <2>3
      <3>2. ~Finishing(m)'
        <4>1. SUFFICES ASSUME jobs[m].state = "active", worker'[jobs[m].by].pc = "finish" PROVE FALSE
          BY <3>1 DEF Finishing
        <4>2. jobs[m].by \in Servers /\ jobs[m].by # s
          BY <1>3, <4>1 DEF HandsInv, Locks
        <4>3. QED
          BY <1>3, <2>3, <4>1, <4>2 DEF Carries, Finishing
      <3>3. QED
        BY <2>3, <3>1, <3>2 DEF Carries, OwnsRow
    <2>4. CASE Carries(k, t)
      <3>1. t \in failing'[s] \/ OwnsRow(k, t)'
        BY <1>4, <2>4
      <3>2. CASE t \in failing'[s]
        BY <3>2 DEF InHand, IsHeld
      <3>3. CASE OwnsRow(k, t)'
        <4>1. Carries(k, t)'
          BY <3>3 DEF Carries, Finishing
        <4>2. QED
          BY <4>1 DEF InHand
      <3>4. QED
        BY <3>1, <3>2, <3>3
    <2>5. QED
      BY <2>1, <2>2, <2>3, <2>4 DEF InHand
  <1>5. QED
    BY <1>1, <1>2, <1>4 DEF HandsInv, ProcessingInHand

\* finishJob ends a job that carries nothing any more.
LEMMA HandsFinish == ASSUME TypeOK, HandsInv, NEW s \in Servers, finishJob(s) PROVE HandsInv'
  <1>1. /\ worker[s].pc = "finish" /\ worker' = [worker EXCEPT ![s] = IdleWorker]
        /\ UNCHANGED <<transactions, outbox, publisher, failing>>
    BY DEF finishJob
  <1>2. PICK k \in 1 .. Len(jobs) : worker[s].job = k
    BY <1>1, BusyWorker
  <1>3. HoldsLock(s) /\ jobs[k].state = "active" /\ jobs[k].by = s
    BY <1>1, <1>2 DEF HandsInv, Locks, HoldsLock
  <1>4. jobs' = [jobs EXCEPT ![k] = [jobs[k] EXCEPT !.state = "completed", !.by = "none"]]
    BY <1>2, <1>3 DEF finishJob
  <1>5. jobs[k] \in Job /\ k \in DOMAIN jobs
    BY <1>1, <1>2, BusyWorker
  <1>6. [jobs[k] EXCEPT !.state = "completed", !.by = "none"] \in Job
    BY <1>5 DEF Job
  <1>7. /\ Len(jobs') = Len(jobs)
        /\ \A m \in 1 .. Len(jobs) :
             jobs'[m] = IF m = k THEN [jobs[k] EXCEPT !.state = "completed", !.by = "none"] ELSE jobs[m]
    BY <1>4, <1>5, <1>6, JobWrite
  <1>8. jobs'[k].state # "active"
    BY <1>5, <1>7 DEF Job
  <1>9. \A t : ~Carries(k, t)
    BY <1>1, <1>3 DEF Carries, Finishing
  <1>10. QED
    BY <1>1, <1>2, <1>7, <1>8, <1>9, HandsDone

\* A handler that throws leaves its row to the retry of its job or, with no attempt
\* left, to the "failed" handler.
LEMMA HandsThrow ==
  ASSUME TypeOK, HandsInv, NEW s \in Servers, worker[s].pc # "idle", HandlerThrows(s),
         UNCHANGED outbox \/ (worker[s].pc = "mark" /\ MarkProcessed(s))
  PROVE  HandsInv'
  <1>1. PICK k \in 1 .. Len(jobs) : worker[s].job = k
    BY BusyWorker
  <1>2. HoldsLock(s)
    BY DEF HandsInv, Locks
  <1>3. /\ FailJob(k, s, TRUE) /\ worker' = [worker EXCEPT ![s] = IdleWorker]
        /\ UNCHANGED <<transactions, publisher>>
    BY <1>1, <1>2 DEF HandlerThrows
  <1>4. jobs[k] \in Job /\ k \in DOMAIN jobs
    BY <1>1, BusyWorker
  <1> DEFINE made == jobs[k].made + 1
             j == [jobs[k] EXCEPT !.state = IF Retries(made) THEN "delayed" ELSE "failed",
                                  !.made = made, !.by = "none"]
  <1>5. jobs' = [jobs EXCEPT ![k] = j]
    BY <1>3 DEF FailJob
  <1>6. j \in Job /\ j.txn = jobs[k].txn /\ j.state = IF Retries(made) THEN "delayed" ELSE "failed"
    <2>1. made \in Nat
      BY <1>4 DEF Job
    <2>2. (IF Retries(made) THEN "delayed" ELSE "failed") \in Unfinished \cup {"completed", "failed"}
      BY DEF Unfinished
    <2> HIDE DEF made
    <2>3. QED
      BY <1>4, <2>1, <2>2 DEF Job
  <1>7. failing' = [failing EXCEPT ![s] = IF NoAttemptsLeft(made) THEN @ \cup {jobs[k].txn} ELSE @]
    BY <1>3 DEF FailJob
  <1> HIDE DEF j
  <1>8. /\ Len(jobs') = Len(jobs)
        /\ \A m \in 1 .. Len(jobs) : jobs'[m] = IF m = k THEN j ELSE jobs[m]
    BY <1>4, <1>5, <1>6, JobWrite
  <1>9. jobs'[k].state # "active"
    BY <1>6, <1>8
  <1>10. \A q \in Servers : failing[q] \subseteq failing'[q]
    BY <1>7 DEF TypeOK
  <1>11. Retries(made) \/ NoAttemptsLeft(made)
    <2>1. made \in Nat
      BY <1>4 DEF Job
    <2>2. QED
      BY <2>1, PipelineAssumption DEF Retries, NoAttemptsLeft
  <1>12. ASSUME NEW t \in Txns, Carries(k, t) PROVE t \in failing'[s] \/ OwnsRow(k, t)'
    <2>1. jobs[k].txn = t
      BY <1>12 DEF Carries, OwnsRow
    <2>2. CASE Retries(made)
      BY <1>6, <1>8, <2>1, <2>2 DEF OwnsRow, Unfinished
    <2>3. CASE NoAttemptsLeft(made)
      BY <1>7, <2>1, <2>3 DEF TypeOK
    <2>4. QED
      BY <1>11, <2>2, <2>3
  <1>13. \A t \in Txns : outbox'[t].status = "PROCESSING" => outbox[t].status = "PROCESSING"
    BY MarkLeaves
  <1>14. QED
    BY <1>1, <1>3, <1>8, <1>9, <1>10, <1>12, <1>13, HandsDone

\* The worker's steps.
LEMMA HandsWorker == ASSUME TypeOK, HandsInv, NEW s \in Servers, WorkerStep(s) PROVE HandsInv'
  <1>1. worker[s] \in WorkerState
    BY DEF TypeOK
  <1>2. ASSUME checkExistingLog(s) PROVE HandsInv'
    <2>1. /\ worker'[s].job = worker[s].job /\ worker'[s].pc \in {"begin", "backup"}
          /\ \A q \in Servers \ {s} : worker'[q] = worker[q]
      <3>1. CASE worker' = [worker EXCEPT ![s].pc = "begin"]
        BY <1>1, <3>1 DEF TypeOK, WorkerState
      <3>2. CASE \E r \in LogsOf(JobTxn(s)) :
                   worker' = [worker EXCEPT ![s].pc = AfterExistingLog, ![s].row = r]
        BY <1>1, <3>2 DEF TypeOK, WorkerState, AfterExistingLog
      <3>3. QED
        BY <1>2, <3>1, <3>2 DEF checkExistingLog
    <2>2. QED
      BY <1>2, <2>1, HandsGoOn DEF checkExistingLog
  <1>3. ASSUME readChainState(s) PROVE HandsInv'
    <2>1. /\ worker'[s].job = worker[s].job /\ worker'[s].pc = "commit"
          /\ \A q \in Servers \ {s} : worker'[q] = worker[q]
      BY <1>1, <1>3 DEF readChainState, TypeOK, WorkerState
    <2>2. QED
      BY <1>3, <2>1, HandsGoOn DEF readChainState
  <1>4. ASSUME commitRow(s) PROVE HandsInv'
    <2>1. /\ worker'[s].job = worker[s].job /\ worker'[s].pc = "backup"
          /\ \A q \in Servers \ {s} : worker'[q] = worker[q]
      BY <1>1, <1>4 DEF commitRow, TypeOK, WorkerState
    <2>2. QED
      BY <1>4, <2>1, HandsGoOn DEF commitRow
  <1>5. ASSUME writeTransactionBackup(s) PROVE HandsInv'
    <2>1. /\ worker'[s].job = worker[s].job /\ worker'[s].pc = "mark"
          /\ \A q \in Servers \ {s} : worker'[q] = worker[q]
      BY <1>1, <1>5 DEF writeTransactionBackup, TypeOK, WorkerState
    <2>2. QED
      BY <1>5, <2>1, HandsGoOn DEF writeTransactionBackup
  <1>6. ASSUME markProcessed(s) PROVE HandsInv'
    <2>1. /\ worker'[s].job = worker[s].job /\ worker'[s].pc = "finish"
          /\ \A q \in Servers \ {s} : worker'[q] = worker[q]
      BY <1>1, <1>6 DEF markProcessed, TypeOK, WorkerState
    <2>2. QED
      BY <1>6, <2>1, HandsGoOn DEF markProcessed
  <1>7. ASSUME commitConflicts(s) PROVE HandsInv'
    BY <1>7, HandsThrow DEF commitConflicts
  <1>8. QED
    BY <1>2, <1>3, <1>4, <1>5, <1>6, <1>7, HandsTake, HandsFinish DEF WorkerStep

\* A call of the worker that throws.
LEMMA HandsCallFails ==
  ASSUME TypeOK, HandsInv, NEW s \in Servers, workerCallFails(s) PROVE HandsInv'
  BY HandsThrow DEF workerCallFails

\* The "failed" handler lets go of a row that it has marked FAILED.
LEMMA HandsMarkFailed == ASSUME TypeOK, HandsInv, NEW s \in Servers, markFailed(s) PROVE HandsInv'
  <1>1. PICK t \in failing[s] :
          /\ failing' = [failing EXCEPT ![s] = failing[s] \ {t}]
          /\ outbox' = [outbox EXCEPT ![t] = Written("FAILED")]
    BY DEF markFailed
  <1>2. t \in Txns /\ Written("FAILED") \in OutboxRow /\ UNCHANGED <<transactions, jobs, publisher, worker>>
    BY WrittenType DEF TypeOK, OutboxStatus, markFailed
  <1>3. \A u \in Txns : outbox'[u] = IF u = t THEN Written("FAILED") ELSE outbox[u]
    BY <1>1, <1>2, OutboxWrite
  <1>4. ASSUME NEW u \in Txns, outbox'[u].status = "PROCESSING" PROVE InHand(u)'
    <2>1. u # t /\ InHand(u)
      BY <1>3, <1>4 DEF Written, HandsInv, ProcessingInHand
    <2>2. IsHeld(u) => IsHeld(u)'
      BY <1>1, <1>2, <2>1 DEF IsHeld, TypeOK
    <2>3. \A k \in 1 .. Len(jobs) : Carries(k, u) => Carries(k, u)'
      BY <1>2 DEF Carries, OwnsRow, Finishing
    <2>4. QED
      BY <1>2, <2>1, <2>2, <2>3 DEF InHand
  <1>5. Locks' /\ IdleClaimsNothing' /\ Txns' = Txns
    BY <1>2, SameLocks, SamePublishers DEF HandsInv, Txns
  <1>6. QED
    BY <1>4, <1>5 DEF HandsInv, ProcessingInHand

\* A delayed job goes back to the queue.
LEMMA HandsPromote ==
  ASSUME TypeOK, HandsInv, NEW k \in DOMAIN jobs, promoteDelayed(k) PROVE HandsInv'
  <1>1. /\ jobs[k].state = "delayed" /\ jobs' = [jobs EXCEPT ![k] = [jobs[k] EXCEPT !.state = "wait"]]
        /\ UNCHANGED <<transactions, outbox, publisher, worker, failing>>
    BY DEF promoteDelayed
  <1>2. jobs[k] \in Job /\ Len(jobs) \in Nat
    BY LenProperties, ElementOfSeq DEF TypeOK
  <1>3. [jobs[k] EXCEPT !.state = "wait"] \in Job
    BY <1>2 DEF Job, Unfinished
  <1>4. /\ Len(jobs') = Len(jobs)
        /\ \A m \in 1 .. Len(jobs) :
             jobs'[m] = IF m = k THEN [jobs[k] EXCEPT !.state = "wait"] ELSE jobs[m]
    BY <1>1, <1>3, JobWrite
  <1>5. [jobs[k] EXCEPT !.state = "wait"].state = "wait" /\ [jobs[k] EXCEPT !.state = "wait"].txn = jobs[k].txn
    BY <1>2 DEF Job
  <1>6. Locks'
    <2>1. \A m \in 1 .. Len(jobs') :
            \/ m \in 1 .. Len(jobs) /\ jobs'[m] = jobs[m]
            \/ jobs'[m].state # "active" /\ (m \in 1 .. Len(jobs) => jobs[m].state # "active")
      BY <1>1, <1>4, <1>5
    <2>2. Len(jobs) <= Len(jobs') /\ Len(jobs') \in Nat
      BY <1>2, <1>4
    <2>3. QED
      BY <1>1, <2>1, <2>2, LocksQueue DEF HandsInv
  <1>7. \A t \in Txns, m \in 1 .. Len(jobs) : Carries(m, t) => Carries(m, t)'
    BY <1>1, <1>4, <1>5 DEF Carries, OwnsRow, Finishing, Unfinished
  <1>8. \A t \in Txns : InHand(t) => InHand(t)'
    BY <1>1, <1>4, <1>7 DEF InHand, IsHeld
  <1>9. IdleClaimsNothing' /\ Txns' = Txns
    BY <1>1, SamePublishers DEF HandsInv, Txns
  <1>10. QED
    BY <1>1, <1>6, <1>8, <1>9 DEF HandsInv, ProcessingInHand

\* A stale row, a new row and a stutter change no hands.
LEMMA HandsSame ==
  ASSUME TypeOK, HandsInv, UNCHANGED <<jobs, publisher, worker, failing>>,
         \A t \in Txns' : outbox'[t].status = "PROCESSING" => t \in Txns /\ outbox[t].status = "PROCESSING"
  PROVE  HandsInv'
  <1>1. Locks' /\ IdleClaimsNothing'
    BY SameLocks, SamePublishers DEF HandsInv
  <1>2. \A t : InHand(t) => InHand(t)'
    BY DEF InHand, IsHeld, Carries, OwnsRow, Finishing
  <1>3. QED
    BY <1>1, <1>2 DEF HandsInv, ProcessingInHand

LEMMA HandsStale == ASSUME TypeOK, HandsInv, NEW t \in Txns, BecomeStale(t) PROVE HandsInv'
  <1>1. outbox[t] \in OutboxRow /\ Txns' = Txns
    BY ElementOfSeq DEF TypeOK, Txns, BecomeStale
  <1>2. \A u \in Txns : outbox'[u].status = outbox[u].status
    BY <1>1 DEF BecomeStale, TypeOK, Txns, OutboxRow
  <1>3. QED
    BY <1>1, <1>2, HandsSame DEF BecomeStale

LEMMA HandsCreate == ASSUME TypeOK, HandsInv, NEW u \in Users, createTransaction(u) PROVE HandsInv'
  <1>1. /\ Len(transactions) \in Nat /\ Len(transactions') = Len(transactions) + 1
        /\ Len(outbox) = Len(transactions)
    BY AppendProperties DEF TypeOK, createTransaction
  <1>2. outbox' = Append(outbox, Written("PENDING")) /\ Written("PENDING") \in OutboxRow
    BY WrittenType DEF createTransaction, OutboxStatus
  <1>3. /\ \A t \in Txns : outbox'[t] = outbox[t]
        /\ outbox'[Len(transactions) + 1].status = "PENDING"
    <2>1. outbox'[Len(outbox) + 1] = Written("PENDING")
      BY <1>2, AppendProperties DEF TypeOK
    <2>2. \A t \in 1 .. Len(outbox) : outbox'[t] = outbox[t]
      BY <1>2, AppendProperties DEF TypeOK
    <2>3. QED
      BY <1>1, <2>1, <2>2 DEF Txns, Written
  <1>4. \A t \in Txns' : t \in Txns \/ t = Len(transactions) + 1
    BY <1>1 DEF Txns
  <1>5. QED
    BY <1>3, <1>4, HandsSame DEF createTransaction

CarrierInv == Only(CarrierKinds) => HandsInv

\* Within the faults that the property allows, every step leaves the claimed rows in
\* somebody's hands.
LEMMA CarrierStep == TypeOK /\ CarrierInv /\ [Next]_vars => CarrierInv'
  <1> SUFFICES ASSUME TypeOK, CarrierInv, [Next]_vars, Only(CarrierKinds)' PROVE HandsInv'
    BY DEF CarrierInv
  <1>1. HandsInv
    BY FaultsGrow DEF CarrierInv, Only
  <1>2. ASSUME NEW u \in Users, createTransaction(u) PROVE HandsInv'
    BY <1>1, <1>2, HandsCreate
  <1>3. ASSUME NEW s \in Servers, Boot(s) \/ markFailed(s) PROVE HandsInv'
    BY <1>1, <1>3, HandsBoot, HandsMarkFailed
  <1>4. ASSUME NEW s \in Servers, PublisherStep(s) PROVE HandsInv'
    BY <1>1, <1>4, HandsReset, HandsFind, HandsClaim, HandsEnqueue, HandsRollback DEF PublisherStep
  <1>5. ASSUME NEW s \in Servers, WorkerStep(s) PROVE HandsInv'
    BY <1>1, <1>5, HandsWorker
  <1>6. ASSUME NEW s \in Servers, FaultStep(s) PROVE HandsInv'
    <2>1. ~claimFails(s) /\ ~rollbackFails(s) /\ ~crash(s)
      BY FaultExcluded DEF claimFails, rollbackFails, crash, CarrierKinds
    <2>2. QED
      BY <1>1, <1>6, <2>1, HandsEnqueueFails, HandsCallFails DEF FaultStep
  <1>7. ASSUME NEW k \in DOMAIN jobs, QueueStep(k) PROVE HandsInv'
    <2>1. ASSUME NEW s \in Servers, stalledJob(k, s) PROVE FALSE
      <3>1. jobs[k].state = "active" /\ k \in 1 .. Len(jobs)
        BY <2>1, LenProperties DEF stalledJob, TypeOK
      <3>2. IsWorkedOn(k)
        BY <1>1, <3>1 DEF HandsInv, Locks, IsWorkedOn
      <3>3. Fault("lock")
        BY <2>1, <3>2 DEF stalledJob
      <3>4. QED
        BY <3>3, FaultExcluded DEF CarrierKinds
    <2>2. QED
      BY <1>1, <1>7, <2>1, HandsPromote DEF QueueStep
  <1>8. ASSUME NEW t \in Txns, BecomeStale(t) PROVE HandsInv'
    BY <1>1, <1>8, HandsStale
  <1>9. CASE UNCHANGED vars
    <2>1. Txns' = Txns
      BY <1>9 DEF vars, Txns
    <2>2. QED
      BY <1>1, <1>9, <2>1, HandsSame DEF vars
  <1>10. QED
    BY <1>2, <1>3, <1>4, <1>5, <1>6, <1>7, <1>8, <1>9 DEF Next

LEMMA CarrierInit == Init => CarrierInv
  BY DEF Init, CarrierInv, HandsInv, Locks, IdleClaimsNothing, ProcessingInHand, Publisher, IdleWorker,
         Worker, Txns

\* As long as no claim fails, no server crashes and no lock expires, a row that reads
\* PROCESSING is in the hands of a publisher, a job or a "failed" handler, however often
\* adds and calls fail, retries run out and rows are reset while they are worked on.
THEOREM ClaimsCarried == Spec => []ClaimHasCarrier
  <1>1. ASSUME TypeOK, CarrierInv PROVE ClaimHasCarrier
    <2>1. DOMAIN jobs = 1 .. Len(jobs)
      BY <1>1, LenProperties DEF TypeOK
    <2>2. QED
      BY <1>1, <2>1 DEF CarrierInv, ClaimHasCarrier, CarrierKinds, HandsInv, ProcessingInHand, InHand,
                        Carries, OwnsRow, HasCarrier, HasUnfinishedJob
  <1>2. Spec => []CarrierInv
    BY TypeCorrect, CarrierInit, CarrierStep, PTL DEF Spec
  <1>3. QED
    BY <1>1, <1>2, TypeCorrect, PTL
=============================================================================
