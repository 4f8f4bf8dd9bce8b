# GuardianShield: TLA+ specifications

GuardianShield records a user's transactions and keeps a tamper-evident audit
trail of them: a hash chain in PostgreSQL (`SecurityLog`), repeated object by
object in S3.  A verification engine recomputes the chain, opens incidents and
locks the ledger; a manager approves an incident and a repair worker restores
the chain from S3.  A React console shows all of it, signed in by a cookie and
fed by a socket.  This directory models the parts of `src/backend` that change
that state and the two React contexts that keep a session and a live feed,
checks them with TLC and proves the main invariants with TLAPS.  Paths below
are relative to `src/backend` unless they start with `src/`.

Run a check with `tlc -config X.cfg M` and the proofs with `tlapm M.tla` for
each module whose name ends in `Proofs`.  `PROJECT.json` lists the runs, the
source lines of every definition, the known hazards with the properties that
cover them, and one deliberate defect per property that the property must
catch (operators marked "Mutant" in the modules; no specification uses them).

## 1. Inventory

Every server process (`server.js`) runs the HTTP API, one outbox scheduler and
three BullMQ workers (audit, verification, repair).  Processes share
PostgreSQL, Redis and S3 and nothing else, and nothing limits their number.

| Component | State | Operations | Hard behaviour | What makes it correct |
|---|---|---|---|---|
| Transactions and outbox (`services/transactionService.js`) | `Transaction`, `AuditOutbox` | create both rows in one database transaction | none by itself | an outbox row per transaction |
| Outbox scheduler (`crone-jobs/outboxSchedule.js`) | `AuditOutbox.status`, its batch in memory | poll, claim, add a job, roll back, reset stuck rows at start | several pollers; a crash or a failed call between claim and add; lost reply of `add` | a row has one owner; a claimed row is not forgotten |
| Audit queue (`queues/auditQueue.js`) | jobs in Redis | attempts, backoff, stalled jobs | duplicate and repeated delivery | a transaction is audited once |
| Audit worker (`workers/auditWorker.js`, `algorithams/generateHash.js`) | `SecurityLog`, `SecurityChainState` | idempotency check, append to the chain, backup, PROCESSED, failed handler | racing workers, retries after partial success | the chain never forks or breaks; PROCESSED means durable |
| S3 backups (`services/s3BackupService.js`, `repositories/s3BackupRepository.js`) | S3 objects | put, list (1000-key budget), read latest | put repeated or lost; budget exceeded | an object repeats its row |
| Verification (`algorithams/verifyHashchain.js`, `workers/verificationWorker.js`) | `Incident`, `LedgerState`, `VerificationRun` | recompute the chain, per bad row: run, incident, lock | reads at different times, writes one by one, while the worker appends and a repair restores | alarms are real; a pass means an intact chain |
| Incidents (`controllers/incidentController.js`) | `Incident.status` | any status to any status, by a manager | acts on what a repair is doing | an approval is spent once; RESOLVED is final |
| Repair (`controllers/repairController.js`, `services/repairService.js`, `workers/repairWorker.js`) | `LedgerState`, `Incident`, the whole chain | queue a job, check, read S3, lock, restore | check and use far apart; duplicate jobs; crash between lock and restore | one repair at a time; what is restored is what was written |
| Ledger state and unlock (`middleware/ledgerMiddleware.js`, `controllers/adminController.js`) | `LedgerState.status` | refuse transactions, unlock | three writers that do not look at each other | LOCKED stays until repaired |
| Accounts and sessions (`controllers/authController.js`, `middleware/`) | `User`, a signed cookie | signup, login, logout, profile, role checks | signup looks and inserts in two calls; the role is kept in the token | one account per email |
| Session in the browser (`src/frontend/src/context/AuthContext.jsx`, the login and signup forms, the navigation bar) | per tab: user, token, loading | restore, login, signup, logout | all tabs share one cookie; answers lost or overtaken | a tab shows the account its calls are served as |
| Events (`events/`, `services/socketEventService.js`, `realtime/socketServer.js`) | rooms, `EventLog` | emit, deliver to two rooms | connections come and go | an event reaches the rooms it is for |
| Live feed (`src/frontend/src/context/SocketContext.jsx`) | per tab: a client, the newest 50 events | connect for a token, receive, clear | the client outlives the token it was started for until the next effect | a feed shows what was sent to it, newest first |
| Console pages (`src/frontend/src/pages`) | page state | forms, lists, HTTP | two answers in either order | nothing the backend relies on |
| Verification schedule (`crone-jobs/scheduleVerification.js`, `queues/verificationQueue.js`) | job ids in Redis | one job per user | a failed job keeps its id | not called by anything |

Interactions: the outbox row is the hand-over from the API to the scheduler;
an `audit-queue` job from the scheduler to a worker; a SecurityLog row and its
S3 object from the worker to verification and repair; an `Incident` and the
ledger's status from verification to managers, the middleware and repair; a
`repair-queue` job from managers to the repair worker; UNDER_REPAIR from the
repair worker to the SUPERADMIN.  Handlers emit events on a bus in the process,
the socket server sends them on, and the browsers show them: no component of
the backend reads `EventLog` back.  The cookie ties the browser's calls to an
account, the token in the answer of a login ties its socket to it.

## 2. Modules

| Module | Models | Kind |
|---|---|---|
| `AuditPipeline` | transaction creation, scheduler, queue, audit worker, backup, failures | state machine |
| `AuditTrail` | what the pipeline promises: an append-only trail per user | abstract specification |
| `HashChain` | what verification and repair compute from rows, backups and the listing of backups | operators |
| `LedgerControl` | middleware, verification, incidents, repair, unlock | state machine, uses `HashChain` |
| `LedgerLifecycle` | what the status of a ledger promises to those who look at it | abstract specification |
| `Sessions` | accounts, the cookie, the session each tab shows, requests that travel | state machine without its own `Next` |
| `EventFeed` | sockets and feeds, composed with `Sessions` | state machine |
| `MCAuditPipeline`, `MCLedgerControl`, `MCEventFeed` | instances for TLC | model checking |
| `AuditPipelineProofs`, `ClaimProofs`, `OneServerProofs` | theorems about `AuditPipeline` | proofs |
| `LedgerControlProofs`, `LedgerHealthProofs`, `LedgerRecoveryProofs` | theorems about `LedgerControl` | proofs |
| `SessionsProofs`, `EventFeedProofs` | theorems about `Sessions` and `EventFeed` | proofs |

### AuditPipeline

A step is the code between two awaits that reach PostgreSQL, Redis or S3.
`publisher[s]` and `worker[s]` hold the program counter and the local
variables of a server's scheduler and worker.

| Model | Code |
|---|---|
| `createTransaction` | `transactionService.createTransaction` |
| `Boot`, `resetStuckProcessingEvents` | `start()`: the workers run while the reset is awaited |
| `findCandidates`, `claimEvent`, `claimFails` | `claimNextBatch`: the poll, then one conditional update per row |
| `enqueueEvent`, `enqueueFails`, `rollbackClaim`, `rollbackFails` | `publishPendingEvents` |
| `takeJob` .. `finishJob` | the audit worker's handler: `checkExistingLog`, `readChainState`, `commitRow`, `writeTransactionBackup`, `markProcessed` |
| `commitConflicts`, `workerCallFails` | a call that throws, its effect applied or not |
| `markFailed` | the `failed` listener's update, awaited outside the job |
| `promoteDelayed`, `stalledJob` | BullMQ's backoff and stalled-job checker |
| `crash` | the process dies; its jobs stay active until they stall |
| `BecomeStale` | an outbox row's `updatedAt` becomes older than `STUCK_PROCESSING_MS` |

The database transaction of the worker is two steps, the read of the chain head
and the commit, because another worker may commit in between; the unique
constraint on `(userId, sequenceNumber)` is `SeqTaken`.  A hash is the sequence
of what was hashed, free of collisions.  The HMAC is a function of fields that
are kept, and nothing reads it back: it is left out.  Outbox ids travel through
JSON as strings and are turned back by Prisma; the model uses the transaction
number for both.

### HashChain and LedgerControl

One user: every query of this code names the user.  `HashChain` has the checks
of `verifyUserHashChain` in their order of precedence (`Reason`), the latest
backup as the one anchor, and the restore: the records from the corruption
start (`FromStart`), the two assertions, and the rows, head and transactions
the restore leaves.  A row's contents are one number: `t` is the contents with
which transaction `t` was created, anything else is not genuine.

Both readers of S3 go through one listing, which ends at a budget of 1000
objects (`Listed`, `ListingBudget`).  A page of S3 has 1000 keys too, so that a
second page is never asked for.  Keys sort by the padded sequence number, then
by the transaction (`Before`).

| Model | Code |
|---|---|
| `ledgerMiddleware`, `createTransaction` | check, and later write, of a transaction request |
| `readChainState`, `commitRow`, `commitConflicts`, `writeTransactionBackup`, `backupGivenUp` | the audit pipeline as this code sees it, one transaction at a time |
| `Corrupt`, `Altered` | stored data changed behind the program's back (`src/testing.txt`, step 9): any column of a SecurityLog row but the HMAC, a transaction, a deleted row |
| `readLogs`, `readLatestBackup`, `createIncident`, `lockLedger`, `verificationFails` | `verifyUserHashChain` |
| `updateIncidentStatus` | the incident controller; `ManagerMoves` says which changes are requested |
| `triggerRepair`, `repairUserChain` | the two ways to queue a repair: with the job id `repair-user-<id>`, which a kept job blocks, and without |
| `takeJob` .. `restore`, `repairFails` | the repair worker and `repairUserLedgerFromS3` |
| `readLedger` .. `resolveIncident`, `unlockFails` | `unlockRepairedLedger` |

`Corrupt` changes one thing at a time: a row's `sequenceNumber` (to a number that is
free, the column is unique), `transactionId` (to another transaction, a foreign
key), `auditData`, `previousHash`, `currentHash` or `createdAt`, the contents of a
transaction, or it deletes a row.  It does not add rows, forge columns to fit
each other, touch `SecurityChainState` or the objects in S3, and what it leaves
in a hash is nothing that hashing yields.  `hmacSignature` is never read back.

The restoring database transaction is one step: what it writes is invisible to
others before it commits, and it waits for row locks.  The read of a row with
its live transaction (`include`) is one step too.  A job of `triggerRepair`
may wait arbitrarily long, so that the request itself is one step.
`incidents[i].credit` (approvals less repairs) and `history` are history
variables: no guard but the bounds reads them.

`LedgerLifecycle` is what a reader of the status may rely on.  `LedgerControl`
implements it with `granted` as the unlock requests between their read of
UNDER_REPAIR and their write of ACTIVE: `lockLedger` is `Lock`,
`lockLedgerForRepair` (and a failing step that has taken the lock)
`TakeForRepair`, `readLedger` `Grant`, `activateLedger` `Activate`, an unlock
that fails before it writes `Withdraw`; the rest stutters.

### Sessions and EventFeed

`Sessions` is one browser: the cookie is common to its tabs, `tabs[t]` is
`AuthContext` of a tab.  A call of `/api/auth` is a record that is sent, served
and answered; the token it carries is the cookie at the time it was sent.
`EventFeed` adds what `SocketContext` does with the token of `AuthContext`.

| Model | Code |
|---|---|
| `submitLogin`, `submitSignup`, `clickLogout` | `LoginPage`, `SignupPage`, `Navbar` |
| `findUser`, `createUser` | `signup`, before and after the hashing of the password; the unique column is `UniqueEmail` |
| `login`, `logout`, `profile` | the handlers, behind `authMiddleware` where the route has it |
| `restored`, `signedIn`, `loggedOut` | `AuthContext`, when the answer arrives |
| `lose` | request, work or answer is lost: the tab sees an error, the server may have acted |
| `Reload`, `reloadTab` | a tab is opened or reloaded |
| `changeRole` | an operator changes a role in the database, as the study guide suggests |
| `emitEvent`, `Copies` | `ledgerEventBus.emitEvent`, `broadcast`: the rooms `user:<id>` and `admin` |
| `connect`, `dropConnection` | the handshake with the token; socket.io loses and reopens connections |
| `tokenEffect` | `SocketContext`'s effect on `[token]`: the cleanup of the run before, then a client or an empty feed |
| `handleEvent` | `handleEvent`: newest first, `slice(0, 50)` |

`adrift`, `rerolled`, `emitted` and `feedOf` are history variables: the tabs
that cannot know of the last change of the cookie, the accounts whose role was
changed behind their tokens, the events in order, and the tokens a tab has
listened with since its feed was last cleared.

## 3. Properties and runs

### Runs that pass

| Run | Instance | Checks |
|---|---|---|
| `one_server` | 1 server, 2 users, 2 transactions, up to 3 faults of any kind | `TypeOK`, `ProcessedIsDurable`, `AuditedOnce`, `ProcessedIsFinal`, `ImplementsTrail` |
| `two_servers` | 2 servers, 2 users, 2 transactions, 1 fault | `ChainLinked`, `BackupRepeatsLog`, `ClaimHasCarrier`, `ClaimExclusive` |
| `audit_liveness` | 2 servers, 1 user, 2 transactions, 1 failed call | `EventuallyAudited` |
| `ledger_data` | 1 repair worker, 1 verification at a time, 3 transactions where a listing returns 2, 1 corruption of each kind of `Corrupt`, 1 fault, 1 incident, 1 repair job | `AlarmsAreReal`, `PassMeansIntact`, `RestoredIsGenuine` |
| `ledger_control` | 2 repair workers, 1 verification, 1 unlock request at a time, 1 transaction, 2 incidents, 2 jobs, 1 fault | `TypeOK`, `OneRepairPerApproval`, `OneRepairUndisturbed`, `ResolvedIsFinal`, `FollowsLifecycle` |
| `event_feed` | 2 tabs, a user and an administrator, an email that is free, 3 moves, feeds of 2 events | `TypeOK`, `OneAccountPerEmail`, `ShownIsSession`, `ShownRoleIsServed`, `FeedIsAddressed`, `FeedNewestFirst` |

What they show, and under which conditions:

- The chain (`ChainLinked`): however servers, retries and crashes interleave,
  a user's rows are gapless, linked, replayable and end in the chain head.
  Backups repeat their rows, hash time included (`BackupRepeatsLog`).
- PROCESSED means that the row and its backup exist (`ProcessedIsDurable`).
  With one server nothing is audited twice (`AuditedOnce`) and the pipeline
  implements `AuditTrail` (`ImplementsTrail`).  With two servers a duplicate
  job can be audited twice; `workers/auditWorker.js:11-13` asks for one worker.
- `ProcessedIsFinal`, `ClaimHasCarrier` and `ClaimExclusive` name the kinds of
  fault under which they hold (`Only(...)`): under the others the code does
  break them, as the comments at the properties say.  `ProcessedIsFinal` is
  moreover stated for one server: with two servers and three transactions of
  one user, two lost races for a sequence number start the `failed` handler,
  whose update may land after the third, successful attempt has written
  PROCESSED, without any fault.
- Without corruption the only alarm is a missing backup (`AlarmsAreReal`): a
  verification may read a row before its backup is written.
- A verification that passes has read rows which, in the order of their numbers,
  carry the contents, times and hashes of the first rows of the chain that the
  pipeline wrote, with their transactions as created (`PassMeansIntact`); a
  changed `createdAt` is excluded, since a repair rebuilds hashes from it.  That
  is as much as the code checks.  The property does not say that the numbers are
  the pipeline's, nor `previousHash`: verification recomputes a hash from the
  row before, whatever its number (`algorithams/verifyHashchain.js:54-64`), and
  compares `previousHash` and `transactionId` only with the latest backup
  (86-95).  It does not say that these are all rows either: a deleted
  tail leaves a shorter intact chain, and the latest backup is compared only
  with the row of its own number, which beyond the listing's budget is not the
  last one.
- A repair restores every row from its start to the new head as the pipeline
  wrote it, and the contents of its transaction (`RestoredIsGenuine`), except
  when a `createdAt` was changed or a backup was never written.  The row's
  `transactionId` is part of that only while nobody wrote a number or a
  `transactionId` and no number was given to a second row (`NumberedOnce`): the
  repair's update never writes the column (`services/repairService.js:365-373`),
  so that a changed `transactionId` is reported and not repaired;
  `restored_transaction` shows a history without such a change.  Beyond the
  budget the new head is the last listed record, which moves
  `SecurityChainState` back: later appends then conflict.
- An approval allows one repair (`OneRepairPerApproval`), a RESOLVED incident
  stays so (`ResolvedIsFinal`) and at most one repair holds the lock
  (`OneRepairUndisturbed`), while no verification and no unlock writes the
  ledger's status in the middle of a repair (`history.disturbed`).  To a reader
  the status follows `LedgerLifecycle` without that condition
  (`FollowsLifecycle`).
- Two signups with one email leave one account, although the lookup and the
  insert are far apart (`OneAccountPerEmail`).
- A tab shows the account its calls are served as (`ShownIsSession`) with the
  role they are served with (`ShownRoleIsServed`), but for the tabs named in
  `adrift`: another tab has signed in or out, an answer was lost, or a login
  overtook the profile request of the tab's start.
- What a feed shows was sent to an account the tab has been signed in as since
  its feed was cleared, whatever was on its way at a logout, a change of account
  or a reload (`FeedIsAddressed`), newest first and once (`FeedNewestFirst`);
  twice only to an administrator the event is about, who is in both rooms.

### Runs that find a disagreement

| Run | What TLC finds | Claim it refutes |
|---|---|---|
| `claims_heal` | a row claimed before a crash stays PROCESSING when the server is back within five minutes: the reset runs only at start | `crone-jobs/outboxSchedule.js:82` "RECOVERY MECHANISM (Self-healing system)" |
| `failed_is_permanent` | FAILED is written one attempt too early | `workers/auditWorker.js:272` "Permanently failed" |
| `repair_race` | verification writes LOCKED over UNDER_REPAIR, a second repair takes the lock | `services/repairService.js:116-118` "at most one repair can proceed per user" |
| `unlock_race` | the unlock activates a ledger that was locked between its two calls | `services/repairService.js:184` "can only unlock when UNDER_REPAIR" |
| `chain_head` | a repair moves the chain head behind a row whose backup came after its S3 read; later appends then conflict | `src/END_TO_END_STUDY_GUIDE.md:536` "Per-user chain head" |
| `restored_transaction` | a deleted row's number is given to another transaction; the repair writes the old record's hash and data into that row and leaves its `transactionId` | `services/repairService.js:333` "Upsert the security log entry (restore chain link)" |

### Documents that the code contradicts

Two properties hold of the code where another text of the repository says the
opposite; both are findings in `PROJECT.json`.

| Property that holds | What the code does | What the text says |
|---|---|---|
| `FollowsLifecycle` | a repair leaves the ledger UNDER_REPAIR and the incident REPAIRING until a SUPERADMIN unlocks it (`services/repairService.js:408-411`) | `src/END_TO_END_STUDY_GUIDE.md:458-459` "W->>DB: ledger → ACTIVE, incident → RESOLVED", "W->>BUS: LEDGER_UNLOCKED"; `src/testing.txt:87-92` expects LEDGER_UNLOCKED before REPAIR_COMPLETED; `README.md:64` "Unlocks system after fix" |
| `BackupRepeatsLog` | every backup carries the time that was hashed, on the retry path too (`workers/auditWorker.js:204-219`) | `services/repairService.js:336-341`: S3's createdAt "is NOT the same timestamp that was actually hashed into record.hash" and "can never reproduce a matching hash at verification time, even for a perfectly clean repair" |

Seen while modelling, without a run:

- `triggerRepair` adds its job under the fixed id `repair-user-<id>`, and the
  queue keeps failed jobs and the last hundred completed ones.  After one
  finished repair the next request is answered "Repair job queued"
  (`controllers/repairController.js:95-97`) and adds nothing; the comment at
  76-80 speaks of waiting, active and delayed jobs only.
- `repositories/s3BackupRepository.js:62-68` explains the budget by pages of
  1000 keys; with the default budget no second page is asked for.
- A repair rebuilds hashes from the `createdAt` of the existing row and keeps it:
  if it was changed, the restored row has neither the hash nor the time of S3.
  `services/repairService.js:351-354` knows that ("if createdAt itself was part of
  what got tampered, this won't catch it"), but takes the row's time only
  because it believes that of S3 to be wrong (see the table above);
  `src/END_TO_END_STUDY_GUIDE.md:474` says "does **not** generate
  new hashes; restores exact S3 state".
- A `previousHash` changed in a row that is not the latest backup's, or a
  `sequenceNumber` changed so that the order stays, passes verification.  A
  row moved beyond the chain head stays there after a repair, and the append
  that takes its number conflicts.
- The ledger of a REJECTED incident stays LOCKED: repair asks for APPROVED, unlock
  for UNDER_REPAIR.  An unlock leaves other OPEN incidents of the user open on
  an ACTIVE ledger.  `src/frontend/src/pages/DashboardPage.jsx:41-50` infers an
  ACTIVE ledger from a latest incident that is APPROVED or REJECTED.
- A reload restores the user but not the token: the tab has no socket until
  the next login.  A login over an existing session keeps the events of the
  account before in the feed.
- A signup whose answer is lost leaves the account created; the retry is
  refused.
- Nothing calls `scheduleNightlyVerification`.

### Bounds

Two transactions are enough for a predecessor and a successor in a chain and for
a lost race on a sequence number; `ledger_data` has a third, which conflicts
with the row that a repair left beyond the head and which a listing of two does
not return.  Its single corruption is of each kind in turn, at any time; with
two, or with a fourth transaction, the same properties were checked once.  Two users show that chains do
not touch.  Two servers (workers) are
enough for every pairwise race.  Attempts is 3 in the pipeline, as in the
code.  In `LedgerControl` a job has one attempt: the retry after a fault comes
from a stalled job (`Stall`), which runs again with nothing counted.  Two incidents
are needed to lock a ledger again during a repair.  The bound on incidents
stops a verification that would open one more; verifications that find nothing
go on.  In `ledger_data` managers follow
the documented lifecycle; in `ledger_control` they only approve (`Approvals`),
since no guard tells the other statuses apart, except that they stop a repair.

A move of `event_feed` is what comes from outside: a user's click, a reload, a
lost call or connection, an event, a change of role.  Serving, answering,
connecting and receiving are free.  Its initial states include tabs that have
signed in earlier and every cookie, so that three moves are a race of two calls
and a loss, or a logout under two events; a feed of two overflows at the third.

All bounds are guards of the actions that count: `MaxTxns`,
`MaxFaults`, `MaxIncidents`, `MaxJobs`, `MaxCorruptions`, `MaxMoves`.  Requests
are finite, so the system may come to rest: deadlock is not checked.

Symmetry (servers, users, repair workers, tabs) is used in runs without
liveness only.

### Fairness

`FairSpec` of `AuditPipeline` assumes weak fairness of: each server's boot (it is
started again when down), its scheduler (`setInterval` keeps ticking), its
worker (BullMQ hands out waiting jobs and a handler runs on) and its failed
handler; the queue's promotion of delayed jobs; the stalled-job checker for jobs
nobody works on; and the clock, which makes a row without a carrier stale.
Faults and requests are never forced.
`EventuallyAudited` needs the attempts to outlast the conflicts of two servers,
which is why its instance has one fault; `claims_heal` uses the same fairness.
The other modules state no liveness: a repair waits for managers and an unlock
for a SUPERADMIN, whom nothing forces, and the browser's calls have no timeout,
so that a tab may wait for an answer forever.

## 4. Proofs

The theorems hold for all sets of users, servers, workers, requests and tabs,
finite or not, and for all bounds that satisfy the named assumption of the
module.

| Module | Theorem | States |
|---|---|---|
| `AuditPipelineProofs` | `TypeCorrect` | `Spec => []TypeOK` |
| | `ChainCorrect` | `Spec => []ChainLinked` |
| | `BackupsCorrect` | `Spec => []BackupRepeatsLog` |
| | `DurabilityCorrect` | `Spec => []ProcessedIsDurable` |
| `ClaimProofs` | `ClaimsExclusive` | `Spec => []ClaimExclusive` |
| | `ClaimsCarried` | `Spec => []ClaimHasCarrier` |
| `OneServerProofs` | `OneServerAuditsOnce` | `OneServer /\ Spec => []AuditedOnce` |
| | `OneServerKeepsTrail` | `OneServer /\ Spec => ImplementsTrail` |
| | `OneServerFinal` | `OneServer /\ Attempts > 2 /\ Spec => ProcessedIsFinal` |
| `LedgerControlProofs` | `LedgerTypesHold` | `Spec => []TypeOK` |
| | `RepairsExcluded` | `Spec => []OneRepairUndisturbed` |
| | `ApprovalsSpentOnce` | `Spec => []OneRepairPerApproval` |
| | `LifecycleFollowed` | `Spec => FollowsLifecycle` |
| `LedgerHealthProofs` | `AlarmsReal` | `Spec => []AlarmsAreReal` |
| `LedgerRecoveryProofs` | `PassesFindIntact` | `Spec => PassMeansIntact` |
| | `RestoresGenuineRows` | `Spec => RestoredIsGenuine` |
| | `ResolvedStaysResolved` | `Spec => ResolvedIsFinal`, given `RepairsLeftAlone` |
| `SessionsProofs` | `AccountsUnique`, `SessionShown`, `RoleServed` | `OneAccountPerEmail`, `ShownIsSession`, `ShownRoleIsServed` |
| `EventFeedProofs` | `TypesHold`, `FeedAddressed`, `FeedOrdered` | `TypeOK`, `FeedIsAddressed`, `FeedNewestFirst` |

`AuditPipelineProofs`.  Only `TypeOK` is inductive by itself.  `IInv` joins the
others with what the
workers' local variables know: `HeadsFresh` (the head that a worker in "commit"
has read is the user's head or an older one), `RowsLogged` (the row a worker
carries from its commit on is in the log and belongs to its job's transaction,
and from the S3 put on it has its backup) and `BackupsLogged` (every backup is
a row).  The argument for the chain is
`CommitOnHead`: the unique constraint lets a commit through only if the head
has not moved since it was read, and `AppendKeepsChain` appends to a linked
chain.  Most actions touch neither log nor chain; `QuietStep` and its
companions deal with them once.  `InvStep` has one step per action.

`ClaimProofs`.  Both properties exclude some kinds of fault; faults are only
ever added (`FaultsGrow`), so that a kind that is excluded now was excluded
before (`FaultExcluded`).  For `ClaimExclusive` the invariant is `OwnersInv`: no
scheduler is in its rollback, the publishers and unfinished jobs of one row are
one and the same (`OneOwner`), and a row that may be claimed, PENDING or stale
(`Free`), has none.  Most steps only remove owners (`OwnersShrink`); the claim
and the `queue.add` pass them on.  `OwnersCount` turns it into cardinalities.
For `ClaimHasCarrier` it is `HandsInv`: without crashes and expired locks the
workers and the active jobs belong to each other (`Locks`), a scheduler that is
not publishing has claimed nothing (`IdleClaimsNothing`), and a PROCESSING row
is in the hands of a publisher, of a `failed` handler or of an unfinished job
whose worker is not about to return (`ProcessingInHand`, `Finishing`).  A
handler that throws is retried or leaves the row to the `failed` handler.

`OneServerProofs`.  `StepKinds` sorts every step into createTransaction, the
check for an existing row, the read of the head, the commit (`Adds`), the S3 put
(`Puts`) and the rest (`Rests`), and the three theorems look at these kinds
only.  `OnceInv` adds `ChecksHold`: between a worker's check and its commit there
is no row of the transaction, because there is no other worker.  The refinement
maps createTransaction to Submit, `Adds` to AppendToTrail and `Puts` to Archive;
the rest stutters.  `FinalInv`: the head that the only worker has read is
current (`HeadCurrent`), hence there is no conflict, no handler pending and no
failed job that may fail again (`NoLateWrite`).

`LedgerControlProofs`.  `Inv` has the shapes of the stores and actors (an
actor that is under way has an active job of its own, an incident that exists,
and finite records once it has read them), `LockInv` and `CreditInv`.
`LockInv`: as long as nobody has written over the lock of a running repair, the
worker past its lock is the only one and the ledger is UNDER_REPAIR; a second
one fails at its conditional update.  `CreditInv`: as long as nobody has
written the status after a job's check, an APPROVED incident has an approval
left, a worker that has checked finds one as long as nobody holds the lock, and
the worker that holds the lock has one, two if the incident was approved again;
the restore spends it and leaves the rest covered.  The disturbances come from
`lockLedger` and `activateLedger`, which `history.disturbed` records; for the
refinement `StepFollows` names the abstract step of each action.

`LedgerHealthProofs`.  `AlarmsAreReal` needs the state of everything that was
read: while nothing is corrupted (`Health`) rows have distinct numbers, each one
replays and continues the row before it, contents are as created, backups and
what verifications and repairs have read are rows of the log, and the row a
worker is about to commit continues the log, wherever the head is.  The head is
*not* claimed to be the last row: a repair may move it back, and the commit that
follows then conflicts.  `HealthyHash` shows that what verification takes for
the preceding row is the row's own predecessor, `RestoredHealthy` that a repair
writes what is there.

`LedgerRecoveryProofs` is about the other ledgers, where stored data *is*
corrupted in the ways of `Corrupt`, any number of times and in between any two
steps.  The two theorems about data need to know what such corruption cannot
reach.  A hash is as long as the
chain up to it, opens to what was hashed, and `Garbled` is no row's hash
(`HashOpens`); hence a committed row has its own number in the length of its
hash (`WrittenHash`).  `RecoveryInv` keeps that: committed rows are as the
pipeline writes them, and backups and everything a repair has read are
committed rows (`CommittedInv`); the head's hash is as long as the head's
number, whatever row a repair has put it on, so that the next row is well
formed too (`AuditorInv`).  Of a row of the log (`StoresInv`) and of one that a
verification has read (`VerifiersInv`) it says no more than holds of altered
rows: their numbers differ, their transactions exist, and unless a time was
changed their hash is a committed one or garbled (`Traced`).  Only while nobody
wrote a number or a `transactionId` (`KeysKept`) is there a committed row with
their number and transaction (`Numbered`).

- `PassesFindIntact`: a row that passes has a genuine hash, whose opening gives
  the contents and the hash before it (`PassingRow`).  The row that verification
  compares with is the one of the greatest smaller number; its hash is one
  shorter (`Climbs`).  Numbers may have been changed, but lengths cannot: they
  grow with the order (`HashesGrow`), differ by one, and are therefore the
  positions of the rows (`HashTellsPosition`, `PassIntact`).  Chains of any
  length need no induction over them, only the greatest and the least member of
  a finite set.
- `RestoresGenuineRows`: while no backup is lost, the backups have every number
  up to the last one and the only committed row that may have none is the
  audit worker's (`BackupsInv`); hence the listing has the corruption start
  (`StartListed`; the first number if the incident is about a row that was
  given the number 0, `First`), what a repair has read starts there and has no
  gap (`RecordsInv`), and covers everything up to its last number
  (`ContiguousCovers`).  A restored row repeats its record except for
  the transaction of a row that exists (`RestoredGenuine`), which is the
  record's own while keys are kept and each number was given once
  (`RestoredKeys`).  Without that condition it is not, which the proof attempt
  has brought to light: `restored_transaction`.
- `ResolvedStaysResolved` needs `ResolvingInv`: an unlock request about to
  write RESOLVED has an incident that is REPAIRING or RESOLVED, and while nobody has
  written the ledger's status after a job's check, a repair worker about to
  write REPAIRING has one that is neither.  It excludes managers who write
  REPAIRING or RESOLVED, or over them (`RepairsLeftAlone`): no guard of
  `updateIncidentStatusHandler` does, and for such `ManagerMoves` the property
  is false (a manager may approve a REPAIRING incident again between an unlock's
  check and its write).  `DocumentedMoves` and `Approvals`, the moves of the
  runs, satisfy it.

Before they were proved, TLC checked `RecoveryInv` as an invariant of the instances
of `ledger_data` and `ledger_control`, and `ResolvingInv` of the latter.

`SessionsProofs`.  `SessionsInv` has tables (tokens name accounts, with the
account's role unless it was changed), tabs (what is shown is the cookie's
account unless the tab is adrift) and requests (an answer that is still to
come will leave the tab as it should be: the profile of a tab's start was sent
with the cookie of now, or the tab is adrift).

`EventFeedProofs`.  `FeedInv` says of a channel what is said of a feed: its
events are for the token of its client (`LinksInv`), in ascending order and
newer than all the feed has (`LinkOrder`, `FeedOrder`), a client exists only for
the token its effect ran for, which is among the tokens of the feed.

Every invariant, action property and refinement that a passing run checks is
also a theorem.  Only model-checked is `EventuallyAudited`: liveness under
fairness, like `ENABLED`, is beyond the prover.  So is induction over data,
which no theorem here turned out to need: hashes are opened one level at a time.

## 5. Not modelled

- Corruption beyond `Corrupt` (section 2): added rows, columns forged to fit each
  other, `SecurityChainState`, objects in S3.
- Input validation, response formatting and read-only handlers: they change no
  state.
- The console pages: forms and lists over answers of the modelled backend.  Two
  requests of `AdminPage` may be answered in either order; nothing is written
  from what they show.
- `VerificationRun`, `EventLog`, `resolvedBy`, `resolvedAt`, `lockedReason`: no
  step reads them.  Events for no user (`SYSTEM`) have no emitter.
- The expiry of cookie and token after seven days, the deletion of accounts
  (nothing deletes one), React's StrictMode, which runs effects twice in
  development.
- The verification schedule, which nothing calls; a verification job is
  `VerifyStep`, whoever has asked for it.
- `services/outboxPublisher.js`: dead code, a second copy of the scheduler.
- Vendored packages and the Prisma client.  PostgreSQL, Redis,
  BullMQ, S3 and socket.io are modelled from how the code uses them.

## 6. Plan

Done: the pipeline, the ledger, sessions and the live feed, with the proofs above.
What would come next, in this order:

1. More verifications at a time (the verification worker's concurrency is 2)
   and the composition of `LedgerControl` with two racing audit workers.
2. Once something calls the schedule: job ids of the verification queue, and
   that a user is verified again after a failed job.
