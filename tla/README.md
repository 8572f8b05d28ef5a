# Verification of the call scheduler

This directory holds a TLA+ model of the high-concurrency call scheduler, the TLC runs that
check it, and theorems about it proved with TLAPS. The code is the reference: each definition
names, in `PROJECT.json` under `map`, the lines it translates.

## 1. The system

| component | code | state it keeps | operations |
|---|---|---|---|
| Campaign API | `campaign_api/` | `campaigns`, `campaign_concurrency` rows | create (both rows in one commit), read |
| Ingestion lambda | `ingestion/` | `contacts`, `call_tasks` rows; campaign `ready` | parse the file; one transaction per S3 record: bulk insert, create tasks, mark ready |
| Call task machine | `common/call_task.py` | none (pure) | statuses, allowed transitions, `plan_retry` |
| Scheduler | `scheduler/` | tasks claimed and not sent yet | tick: reap + commit, claim + commit, send |
| Dispatch queue | SQS `dispatch` | messages | send, receive (10 s visibility, no DLQ), delete |
| Dispatch worker | `dispatch_worker/` | the message and call in hand | receive, place call, mark calling, delete |
| Provider | `mock_provider/` | calls, callbacks due | accept a call, post its webhook 0, 1 or 2 times |
| Outcome service | `outcome_service/` | one transaction per webhook | dedupe, correlate, complete / retry / exhaust, publish |
| CRM worker | `crm_worker/` | `crm_delivery_attempts` log | deliver, log, delete or back off; DLQ after 4 receives |
| CRM | `mock_crm/` | idempotency keys seen | accept, refuse |
| Dashboard | `dashboard/` | none (reads) | several aggregate queries per snapshot |

They share one PostgreSQL database and two SQS queues. `call_tasks` is written by three of them
without coordination other than row locks: the scheduler (claim, reap), the dispatch worker
(mark calling) and the outcome service (complete, retry, exhaust); `campaign_concurrency` by two.
Everything arrives at least once and in any order, any process may stop between two steps, and a
120 s timer decides that an attempt is dead although its call may still be talking.

What makes each part correct:

- **Slots.** `active_count` never passes `max_concurrency`, never counts a task that is not in
  flight (a slot lost for good), and counts all that are (a cap exceeded).
- **Task machine.** Status moves as declared, each ended attempt is counted once and attempts
  stay within the budget, whoever ends them.
- **Dispatch.** One message per attempt; a dispatching task never loses its last message.
- **Outcomes.** One outcome per provider event and per task; recorded ones are published.
- **Liveness.** Whatever is lost, the reaper brings every task to an end and frees its slot.
- **Delivery.** A deleted outcome is on the CRM's record, the log of attempts is true, every
  receive the redrive counts was an attempt, and no message circulates for ever.
- **Ticks.** A scheduler's transactions, which lock rows one after the other and wait in between,
  are atomic all the same, and block nobody for ever.
- **Ingestion.** Duplicated, concurrent and interrupted S3 events create one contact per phone and
  one task per contact; the last file of a campaign is ingested in full; the two parsers agree.
- **Dashboard.** A snapshot of several statements does not contradict itself.

The hard-to-test behaviours are listed in `PROJECT.json` under `hazards`, each at its line and
with the properties that cover it.

## 2. Modules

```
Deployment            constants: campaigns, tasks, caps, zones, calls
  CallStore           tables and clock   (EXTENDS CallTask: state machine, plan_retry)
  DispatchQueue       SQS dispatch
  Provider            calls and webhooks
Scheduler             EXTENDS CallStore, DispatchQueue
  StoreLemmas         lemmas about the operators of both
  TickTx              EXTENDS Scheduler; its transactions as row locks
    MCTickTx          values for TLC
    TickTxProofs      that the transactions are atomic; deadlocks; the counter
DispatchWorker        EXTENDS CallStore, DispatchQueue, Provider
OutcomeService        EXTENDS CallStore, Provider
CallAttempts          what the pipeline promises of each task (abstract)
CallPipeline          EXTENDS the three; interleaves them, adds time; implements CallAttempts
  MCCallPipeline      values for TLC
  CallPipelineProofs  type correctness, slot accounting
    AttemptProofs     statuses, attempts, orders, one outcome per call and task; the refinement

ContactIntake         what the intake of contacts promises (abstract)
ContactsCsv           the contacts file and its two parsers
  ContactsCsvProofs   that the parsers agree, whatever the file
  Ingestion           Campaign API, S3, the lambda's transaction; implements ContactIntake (INSTANCE)
    Dashboard         EXTENDS Ingestion; snapshots of a store that moves
      MCDashboard     values for TLC
      IntakeProofs    contacts, tasks and files; deadlocks; the refinement
        DashboardProofs  snapshots

OutcomeDelivery       what the delivery of outcomes promises (abstract)
CrmDelivery           queue, CRM workers, CRM; implements OutcomeDelivery (INSTANCE)
  MCCrmDelivery       values for TLC
  CrmDeliveryProofs   types, the refinement, the log of attempts
```

The two halves meet in `OutcomeService!Publish`, which adds an outcome to `outcomeQueue`;
`CrmDelivery!Publish` is the same step seen from the queue. What the pipeline does to an outcome
before it is published does not depend on its delivery, so they are checked apart. `Ingestion`
meets the pipeline in the rows of `call_tasks`, which the pipeline has from the start, pending and
due as `create_call_tasks` makes them; neither writes what the other reads later.

**CallStore.** One variable per column. `next_eligible_at` and `last_attempt_at` become one Boolean
per row, `expired`: the timer that matters in the row's status has run out (due again while pending,
older than the reaper's cutoff while in flight). A claim and a retry restart it and `Expire` lets it
run out at any later moment, so every relation of the 120 s cutoff, the backoff and the other
components' speed is covered. An event is named by the call it reports, since `_fire_callback` makes
one event id per call; `outcomes` counts rows by call.

**Scheduler.** `Reap`, `Claim`, `Send` (one message) and `SchedulerCrash`. The two transactions are
single steps, their commits. `skipped` is what they pass over: rows another open transaction may
hold (`SKIP LOCKED`), rows that came due too late, and rows whose campaign was full when the claim
looked. Calling hours are an input of the claim: `open`, the zones within their hours at the tick's
`now`, which is read once and is all the code ever compares them with; any set of zones may be open
at any tick, and whether they still are when the claim commits makes no difference. The batch
(`Batches`) and the order inside it (`Reservable`) are left open, so every `ORDER BY` result is
among the behaviours.

**TickTx** takes the two transactions apart. `Select` locks the rows the SELECT returns. For each of
them (`ComeTo`) the UPDATE of the campaign's counter hits the row as committed, or passes it over
when it is at its cap (claim) or at 0 (reap); a hit takes the row lock, after a wait if another transaction has it, and
then tests the row again (`LockSlot`, `StillHits`), as READ COMMITTED does. Locks are held to
`CommitReap`, `CommitClaim` or `RollBack` (a deadlock's victim, a lost connection, a crash).
Webhooks lock their task's row and then its counter, and write the task by its id whatever has
become of it since they read it, as the code does: after a wait for the reaper's lock such a write
is late, and its release the second one for the attempt (`lateWrites`, a history variable). From
then on the counter may be at 0 with tasks in flight, and a `_RELEASE_SQL` may miss (`Hits`,
`PassSlot`). The abstract specification is module `Scheduler` itself: `TicksAreAtomic` says that
each step is one `Reap`, `Claim`, `Send` or `Forget` of it, or a write of a webhook, a worker or the
clock. One exception is part of the property (`ReleasedButForLate`): in a campaign with a late
write, some of the releases of one reap may miss and others not, as each tests the counter on its
own, where `Reap` takes them together; likewise a webhook's release that has missed stays missed,
while `OutcomeService` tests the counter at the commit. So after a late write the counter of
`CallPipeline` is one of those the code may have; what is said of it there (`NoSlotLeak`) is also
said here, of all of them (`NoSlotLost`). The SELECT is one step, although it locks row by row: a
row locked in the meantime is skipped in either case.

**DispatchWorker.** The loop body in four steps (receive, place, mark, delete). A message stays
in the queue until deleted and may be received again by anyone meanwhile, which stands for the
visibility timeout. `PlaceAnswerLost` is the client timeout after the provider accepted.
A malformed message (`Poison`) is deleted.

**OutcomeService.** Each webhook thread runs the transaction in two steps: `Correlate` inserts
the event and reads the task; one of the three commits writes it. In between any other component
may commit: the code reads without `FOR UPDATE` and its `UPDATE` has only `WHERE id = ...`. A
second copy of an event waits while the first one's transaction is open (`Unblocked`), as the
primary key makes it. `Abort` is any exception or the death of the process: rollback before the
commit, a lost publication after it. `staleCommits` is a history variable: the tasks written by
a commit whose row was no longer the one read.

**CallPipeline** interleaves the components and implements `CallAttempts` (`AttemptsAsPromised`),
which knows no processes, messages or rows: attempts of tasks begin, several at a time but within
the cap (`Begin`), run out of time (`TimeOut`) or end by the report of a call (`Report`), which is
heard once and moves task and outcome together; reports may say nothing (`Ignore`), and one may
overwrite a task that has timed out before (`Overwrite`). Only after that the cap of its campaign is not
promised any more. Claim, reap and the webhook's commit map to these; the mark is a stutter, as
dispatching and calling are both a running attempt, and so is everything queues, workers, the
provider and the clock do, crashes included.

**CrmDelivery.** A message is `unsent`, `queued`, `deleted` or `dead` (in crm-dlq), with its
receive count and whether its visibility timeout is running. A receipt handle is the message and
the number of the receive, which is the `ApproximateReceiveCount` the worker logs. `run_tick` is
one action per external effect: `Receive` (a batch of any size up to `BatchMax`, all timeouts
starting at once), the post with its four ends (`PostAccepted`, `PostRefused`, `PostTimesOut`,
and the timed-out one the CRM may still handle: `HandleLate`), the log, then the deletion or the
backoff; a malformed message is deleted on the spot. `Reappear` may come at any time, so a
message can be received again while an earlier batch is still being worked off. `Redrive` moves a
message received `MaxReceives` times to the DLQ when somebody polls. A deletion on an old receipt
may or may not take effect, as SQS says. `BackOff` needs the message still hidden; otherwise SQS
raises and the process ends (`BackOffRaises`). A stopped worker is started again only by an
operator (`Restart`). `OutcomeDelivery` has per outcome only its `fate` and whether the CRM has it
on record; the refinement maps `place` to `fate`.

**ContactsCsv** has the two parsers as operators: `ParseContacts`, a loop over the lines
(`ParseLine`, `ParseRow`) with its errors and line numbers, and `IterValidContacts`, as the set of
what it yields. What `strip` and `ZoneInfo` make of a cell is given by constants, and phones are
numbers in the order of `ORDER BY phone`. A record is one line. Quoted cells with line breaks are
left out: the lambda's `iter_lines()` strips line ends (`handler.py:35`), so there the two parsers
would read different cells.

**Ingestion.** `CreateCampaign` makes the campaign and its counter in one commit. `Upload`
overwrites the object and raises an event, which may be delivered `MaxTries` times, for retries and
duplicates, to any free lambda. `Invoke` reads the object as it is by then; an unreadable file raises
`ValueError` before anything is written. The bulk insert goes through the rows of `DISTINCT ON
(phone)`, one `Insert` each in the order of the phones, and waits for an open transaction that has
inserted the same phone for the campaign (`HoldersOf`); then `CreateTasks`, and `Commit` with
`mark_campaign_ready`. `Abort` is a failure or a timeout anywhere in between. The promise is
`ContactIntake`: an ingestion adds the new contacts of an uploaded file and their tasks in one step,
one file after the other. In the refinement (`IngestsAtomically`) only `Commit` is an `Ingest`, of the
file its invocation read; which one that was, and what `DISTINCT ON` picked of it, is not in the state
and need not be: some uploaded file explains the commit. (An event does not say which file raised it;
the record's `file` is a history field for this mapping.)

**Dashboard.** `Query` is the next statement of `collect_stats` on whatever is committed by then;
`PollAgain` is the next poll, after a snapshot or after an exception that the stream survives. Of the
call pipeline it has the counters (`Reserve`, `Release`) and, instead of the statuses, the sum of
the funnel. A `count(*)` is the cardinality of the rows of all campaigns together, and a `SUM` that of
the units it sums (`Slots`).

**What a step leaves out**: payloads, phone numbers, transcripts, logs, outcome types, the
signature test (it rejects a request before anything is touched).

## 3. Runs

The instances of the pipeline use `MaxAttempts = 2` (3 in the code): one retry and one exhaustion
are enough to have an attempt overtaken by the next and to end a task either way.

| run | instance | checks |
|---|---|---|
| `webhooks` | 1 task, 2 calls, 2 workers, 2 webhook threads | `TypeOK`, `AttemptsWithinBudget`, `OneOutcomePerCall`, `OneOutcomePerTask`, `NoOrderLost`, `StatusMovesAsDeclared`, `EndedAttemptIsCounted`, `AttemptsAsPromised` |
| `slots` | 2 tasks, 1 campaign of 1 slot, 2 schedulers, 1 crash, poison message | `NoSlotLeak`, `CounterWithinCap`, `SlotAccounting`, `OneOrderPerAttempt`, `AttemptsAsPromised` |
| `settles` | 2 tasks in 2 zones, 1 campaign of 1 slot, batch of 1, 1 scheduler, 1 crash, fairness | `EverythingSettles` |
| `crm` | 1 outcome, 1 malformed message, 2 CRM workers, 2 receives, 1 kill, fairness | `CrmTypeOK`, `LogIsTruthful`, `EveryReceiveIsAnAttempt`, `DeliversAsPromised`, `DeliverySettles` |
| `claims` | 2 schedulers, 2 campaigns of 1 slot, with 2 tasks and 1, batch of 2, 1 webhook, `MaxAttempts` 1 | `TickTypeOK`, `NoSlotLost`, `CounterMatchesRows`, `HooksNeverDeadlock`, `TicksAreAtomic` |
| `intake` | 2 campaigns, 2 uploads of 3 files, 2 deliveries each, 2 lambdas, a dashboard | `IntakeTypeOK`, `OneContactPerPhone`, `ContactsAreCallable`, `UploadsAreIngested`, `ParsersAgree`, `HandlersNeverDeadlock`, `SlotsWithinCapacity`, `FunnelWithinTotals`, `IngestsAtomically` |
| `cap` | 2 tasks, 1 slot, 1 call | violates `CapHolds` |
| `live_calls` | 2 calls, no webhooks | violates `LiveCallsWithinCap` |
| `published` | 1 call, 1 thread | violates `OutcomesArePublished` |
| `early_webhook` | 1 task, 1 call | violates `AcceptedWebhooksCount` |
| `claim_deadlock` | 2 schedulers, 2 campaigns | violates `SchedulersRunConcurrently` |
| `crm_stops` | 1 outcome, 1 CRM worker, no kills, fairness | violates `RetriesEnd` |

**Why the bounds are enough.** The races of `webhooks` are between two attempts of one task, two
copies of a message and two copies of a webhook: two of each suffice, and a second call is one
more than a task's slot allows. Slots need two tasks that want the same one; a single call is
enough for the late commit that gives it out twice. `MaxCrashes` bounds scheduler crashes (a
second one repeats the first) and `Calls` the calls accepted. For `settles`, two tasks that share a
slot fill the batch of one with a row of a campaign at its cap, and with a zone each they are claimed at
different ticks; the scheduler may die once between its commit and its sends, with either task in hand.
Symmetry over calls, workers, threads, schedulers and (in one
campaign) tasks is used for safety only.

For `crm`, two workers and two receives give a message two holders at once with two receipts, and
a batch of two one message that waits behind the other; two receives (4 in the code) reach the
redrive, and the message of one outcome does not interfere with that of another but through the
batch. `MaxCrashes` counts kills; stops by `BackOffRaises` and restarts are not bounded (receives
bound them).

For `claims`, a circle of waits takes two schedulers and two counters, a reservation that finds its
headroom gone takes two tasks for one slot, and a claim whose waits are overtaken takes a batch of
two campaigns, of which the second needs one task; attempts are counted in `webhooks`, so one is
enough. A webhook that comes late makes a release miss with a second task of its campaign. A reap
whose releases miss one by one while another transaction moves the counter, which is where
`TicksAreAtomic` needs its exception, takes three tasks of one campaign; that is left to the proof.
For `intake`, two invocations for one campaign need two events or two deliveries of one; two phones
in both files make them wait for each other; three files are one with duplicates, blanks and
rejects, one without blank lines (whose errors can be told by their lines) and one that is
unreadable; the second campaign gives the dashboard something that comes into being between two
statements. `MaxUploads` and `MaxTries` bound a run, not the system: `IntakeProofs` has no bounds.

**What the runs show.** Once a webhook has read its task, the reaper may end the attempt and the
scheduler begin the next before the webhook commits. The commit then releases a slot it does not
own (`cap`) and may undo the state machine; the properties that hold say exactly how far: with no
stale commit in the campaign the cap is kept and the counter exact (`SlotAccounting`), status and
attempts move as declared except in the stale commit itself (and but for one move that
`ALLOWED_TRANSITIONS` at `call_task.py:18` does not have, though the reaper makes it and
`test_reaper.py:80` expects it: from dispatching to exhausted), and the budget of attempts and the
counter's bounds hold even after it. Independently of this, a second call may be talking on one
slot (`live_calls`), a thread that stops between commit and publish loses the outcome for the CRM
(`published`), and a webhook that arrives before the mark is dropped for good (`early_webhook`).
Two more gaps need no run, being plain from the code: a call may begin after hours, because only the
claim looks at them (`claim.py:15`), and a task exhausted by the reaper has no outcome
(`reaper.py:34`).

Schedulers never take each other's rows and their ticks are atomic, but for the releases of a reap after a
late webhook, and no slot is lost even then. But two of them can block each
other (`claim_deadlock`): each claim holds the counters of the campaigns it has come to, in the
order of its batch. Postgres aborts one, whose process ends, as nothing catches the error and
`docker-compose.yml` has no restart policy. Webhooks are never part of it.

The intake keeps its promises under everything the runs can do to it, and does no more than ingest
file after file. What keeps concurrent
invocations from a deadlock is the order of `DISTINCT ON`, and what keeps the dashboard's figures
consistent is the order of its statements: both would be lost by an innocent change (see the
mutants).

**Fairness** (`FairSpec`). The scheduler loops for ever, so each phase of its tick ends (WF of
send, and the two that follow), and again and again a reap passes over no more than the rows that are locked by
others, none that came due behind its back (SF of `PromptReap`). Calling hours last 13 hours and a
tick comes every few seconds, so for each zone again and again there is a claim with that zone among
the open ones that passes over none but locked rows (SF of `ClaimIn`, zone by zone: no two zones
need ever be open together). Timers run out (WF of `Expire`). A transaction that may hold a row
ends, by commit or rollback (WF of `LeaveRow`, `EndHook`). Nothing is assumed of the provider, of
webhooks or of the dispatch queue: `EverythingSettles` rests on the reaper alone. In the run a batch
is filled again and again by the pending task of a campaign at its cap, until the reaper has freed
the slot; that such a batch keeps the rows of another campaign waiting as long is not in its
instance of one campaign. `docker-compose.yml` has no restart policy; in `settles` the action after
a scheduler's crash is its next tick, so a crash stands for one that an operator follows with a
restart.

In `CrmDelivery`, a running worker goes on (WF of `Step`), timeouts run out (WF of `Reappear`) and
a polled queue redrives (WF of `Redrive`). Nothing is assumed of the CRM, and nobody is obliged to
restart a process: `DeliverySettles` therefore has the premise that some worker runs for good, and
`RetriesEnd`, which has not, is violated although nothing is killed: a post that fails after its
message reappeared ends the only worker (`crm_stops`).

## 4. Proofs

For every value of the constants that meets the named assumptions (finitely many tasks, each in a
campaign, caps and `MaxAttempts` at least 1):

- `TypeCorrect`: `TypeOK`. Inductive together with what a busy worker and a busy thread hold
  (`TypeInv`): a worker past `receive_message` has an order, a thread past its `SELECT` a task
  and a call.
- `SlotsNeverLeak`, `CounterStaysWithinCap`, `CapHoldsUntilStaleCommit`: the three parts of
  `SlotInv`, inductive under `TypeInv`. The argument counts rows: a step takes a set of rows out
  of flight and releases as many slots (`SlotsReleased`: reaper and commits), puts a set in and
  takes as many (`SlotsTaken`: claim), or does neither (`SlotsUntouched`: all the rest, the mark
  included, since dispatching and calling are both in flight). A stale commit may release a slot
  without taking a row out; the floor at zero and `active_count <= in flight` survive it, and
  equality is claimed only for campaigns without one.

- `AttemptsStayWithinBudget`, `StatusOnlyMovesAsDeclared`, `EveryEndedAttemptIsCounted`,
  `EventsMakeOneOutcome` (`AttemptProofs`). A row of `call_tasks` is written in five ways
  (`RowMoves`: claim, mark, reap, commit, not at all), and each way keeps the budget, is a declared
  move and counts what it ends, *if* what it was based on is current. For a webhook that is the
  point of the invariant `FreshInv`: a call id is written into one row, once, by the only worker
  that knows it (`MarkedOnce`), so a task that is still `calling` with the call a thread read it for
  has the attempts that thread read (`ReadsAreFresh`); otherwise the commit is one of
  `staleCommits`. The budget itself needs only that what a thread has read is within it
  (`BudgetInv`). At most one transaction per event is open, and only before its event is recorded
  (`EventInv`): one outcome per call.
- `NoOrderIsLost`, `AttemptsAreOrderedOnce`, `TasksHaveOneOutcome` (`AttemptProofs`). A worker
  deletes a message only after it saw its task leave dispatching, and a later attempt has a message
  with a new number (`OrdersAreNumbered`), so a dispatching task keeps one that nobody is about to
  delete (`OrdersAreKept`). `Begun`, the attempts ended and in flight, grows by one exactly when a
  row is claimed (`BegunGrows`), and orders sent or to be sent grow only then (`OrdersGrow`): a
  scheduler claims with nothing left to send (`ClaimsAreSent`). Row, worker and thread agree with
  the provider on whose call it is (`CallsAreKnown`), so an outcome counts for the task whose
  commit makes it, and a task that commit finds in the call had none yet (`CommitOutcome`).
- `PipelineKeepsPromise` (`AttemptProofs`): `Spec => Attempts!Spec`, which puts the above together. A
  claim stays within the cap by `SlotInv` of the state after it; a commit is heard for the first time
  by `EventInv`, answers for the task it writes by `CallsAreKnown`, and ends the attempt it read by
  `FreshInv`, unless its task has left the call; then some attempt of the task has been counted
  (`OvertakenInv`: only the reaper, or a webhook itself overtaken by it, takes a task out of a call that
  a thread has read it in).
- `CrmTypeCorrect`, `DeliveryImplementsPromise` (`CrmDeliveryProofs`): `Spec => Delivery!Spec`, from
  `DeliveryInv`: a worker past an accepted post has an outcome the CRM has on record, and only
  published outcomes are received, posted or recorded. Deleting maps to `Deliver`, redrive to
  `GiveUp`, an accepted or late post to `Record` (or a stutter: the CRM had it), everything else
  to a stutter.
- `LogStaysTruthful`, `NoReceiveIsWasted` (`CrmDeliveryProofs`): a receipt is held by one worker, once
  (`HeldOnce`), because each receive makes a new number; so a row is added to an empty log, and
  what a worker deletes it has logged. A receipt leaves a worker's hands by its row in the log,
  unless the process ends.

- `TransactionsAreAtomic`, `WebhooksNeverDeadlock`, `SlotsAreNeverLost`, `CounterAlwaysMatchesRows`,
  `TickTypeCorrect` (`TickTxProofs`). `TickInv` says that locked rows and counters have one holder,
  that rows a transaction holds still have the status and the attempts they were selected with (so
  what it writes at its commit is current), and that what it has reserved fits under the cap
  together with what is committed: whoever else would move that counter must wait for it. Then the
  commit is one `Claim` of the rows that hit, with every zone open and the rest as `skipped`, or one
  `Reap` of the rows selected. A webhook that waits for a row holds nothing, so nobody waits for it;
  one that waits for a counter holds a row, and only such webhooks wait for rows, since schedulers
  skip them. That no slot is lost is by `SlotsCovered`, a stronger invariant: the counter is at most
  the tasks in flight *without* those whose release has missed in a transaction that is still open
  (`Holding`). A release misses only when the counter has no more than the slots its transaction has
  given back before (`ReapMisses`), or is 0, so what is left covers it without the missed row; a
  commit then takes the same rows out of both sides, or fewer slots than rows of which the others
  were not counted any more (`LoopCovers`, `HookCovers`, `CoverCommitted`). In a campaign without
  late writes the counter is exact, hence covers every row a transaction releases, and none misses
  (`NothingMissed`, `ReapMissesNothing`): so it stays exact, and there the reap's releases are those
  of `Reap`.
- `OneCampaignNeverDeadlocks` (`TickTxProofs`): where all tasks are of one campaign, schedulers never
  block each other. A circle of waiting schedulers needs two counters, each held by one that waits
  for the other (`CircleSpansCampaigns`), so two campaigns, as in `claim_deadlock`, are also the least.
- `PhonesAreUnique`, `ContactsStayCallable`, `LastUploadIsIngested`, `InvocationsNeverDeadlock`,
  `IntakeTypeCorrect` (`IntakeProofs`), from `IntakeInv`: an open invocation has inserted smaller
  phones than it has still to insert (`SortedInv`), none that is committed or in another's hands
  (`DisjointInv`); its tasks cover its contacts (`TasksInv`); and if its event is the campaign's last
  upload, what it has inserted, what it has not come to and what is committed cover the file
  (`FreshInv`). In a circle of waits there would be a least phone that somebody waits to insert; its
  waiter is waited for by one with a smaller phone. The dashboard's steps leave all this alone
  (`DashboardLooksOn`).
- `IngestionIsAtomic` (`IntakeProofs`): `Spec => Intake!Spec`, from `PickedInv`: the rows an open
  invocation has in hand (`todo`, `mine`) are picked from a file that was uploaded, and every other
  row it picked has a phone that is already committed for the campaign. So at the commit, when
  nothing is left to come to, `mine` is exactly what the campaign did not have (`DisjointInv` keeps it
  new until then) and the tasks are its phones (`TasksInv`). A file once uploaded stays so
  (`UploadedKept`), although the object it was in is overwritten.
- `ParsersCollectTheSame` (`ContactsCsvProofs`) and `ParsersAlwaysAgree` (`IntakeProofs`): the
  parsers agree on the valid contacts of any list of records, and the batch parser accounts for
  every record that is not blank. That errors have their lines right is said of files without blank
  lines: `csv.DictReader` passes over a blank line and the enumeration of `parser.py:45-47` does not
  count it. `ParseContacts` is a recursive function of the lines; its value after i lines is
  unfolded by `Recursion`, and `ParseContactsCollects` is by a least counterexample (`LeastNumber`:
  in a set of numbers that is not empty, one is least): the first line after which the batch parser
  would have collected something else follows one after which it had not, and `OneLineMore` covers
  that step.
- `ActiveNeverExceedsCapacity`, `FunnelNeverExceedsTotals` (`DashboardProofs`), from `SnapshotInv`:
  what has been read early is covered by what there is now (`ReadIsCovered`), namely the slots of all
  campaigns and the call tasks, and both only grow; every active call has a slot of a campaign that
  exists (`CallsHaveRoom`). Campaigns and phones need not be finitely many, those in the tables are
  (`AllIsFinite`), so the cardinalities can be compared.

In each proof module there is one lemma per component or kind of step, and one step per action.

Only model-checked: the two liveness properties, `EverythingSettles` and `DeliverySettles`, since
liveness under fairness and ENABLED are beyond the prover. Every other property of a passing run is
the statement of a theorem. The violated properties are not provable, of course: the proofs say what
remains true around them.

## 5. Plan

1. *Done*: the pipeline, its safety and liveness runs; types, slots, statuses and attempts proved.
2. *Done*: `CrmDelivery` and its refinement of `OutcomeDelivery`, proved and checked.
3. *Done*: `TickTx`, the tick as a sequence of locks, its atomicity proved, its deadlock found.
4. *Done*: `ContactsCsv` and `Ingestion` with the Campaign API, proved and checked; `Dashboard`.
5. *Done*: the outcomes and the orders of a task and the exact counter proved, so every safety
   property of the pipeline that is checked is also proved.
6. *Done*: the parsers, the snapshots and the refinements of `ContactIntake` and `CallAttempts`
   proved, so every property of a passing run but liveness is a theorem.
7. *Next*: that `EverythingSettles` cannot be proved here leaves its safety half: that a task in
   flight always has an enabled way out (a lemma per status, without ENABLED, on the guards of
   `Reap` and `Claim`), and that a pipeline settled with no webhook under way stays settled.

**Not modelled**: HMAC signing (a stateless comparison), settings, client factories, migrations,
infrastructure and the dashboard's page, which have no state of their own;
`scripts/generate_contacts.py`, which writes sample files; `insert_contacts`, which only tests call.
