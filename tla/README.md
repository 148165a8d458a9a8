# A verification development for xiuqo

xiuqo is an AI agent with a messaging gateway, a cron scheduler, a task board and
several clients.  Its hardest code is not the agent loop but what keeps the promises
around it when processes die, threads interleave and sends fail: a scheduled job runs
once and is accounted for, its message goes out at most once, a chat reply that was
computed is not lost and not repeated silently, two turns never write one transcript at
once.  This directory models that code in TLA+, checks the models with TLC and proves
the central results with TLAPS.

All paths below are relative to `src/`.

## 1. Inventory

| Component | State | Operations | Correct when |
|---|---|---|---|
| Cron delivery queue, `cron/delivery_queue.py` | tables `deliveries` and `delivery_tombstones`; `_ACTIVE_DELIVERIES` of each process | `enqueue`, `claim_next`, `_finish`, `recover_abandoned`, `drain`, `_terminalize_wait_timeout`, `enqueue_and_wait` | no message is sent twice; outcomes are final; the worker is told the truth; every message gets an outcome |
| Cron execution ledger, `cron/executions.py` | table `executions` | create, mark handoff, adopt, mark running, finish, recover | one process at a time owns an attempt; terminal rows are immutable; a live owner is never written off; every attempt ends |
| Cron run dispatch, `cron/scheduler.py`, `cron/scheduler_delivery.py` | running sets, worker processes, acknowledgement files | fire, run in process or launch a worker, wait for it, book the result | a job recorded as not dispatched has not run; ledger and job store agree |
| Cron job store, `cron/jobs.py`, `cron/occurrences.py` | `jobs.json`: schedule, dispatch budget, fire claim, run claim, pending slot, outcome | due scan, advance, dispatch, claim, fence, heartbeats, `mark_job_run`, rearming, manual runs | an occurrence is delivered once; the fire claim excludes while a delivery is under way; what is taken off the schedule is claimed, run or accounted for; a record is not removed under its run |
| Delivery ledger, `gateway/delivery_ledger.py` | table `delivery_obligations` | record, mark, boot sweep, runtime sweep, release, prune | no reply lost or repeated silently, within the attempt cap |
| Redelivery, `gateway/run_startup.py` | claimed rows in memory, flood workers and their wake events | claim at boot, redeliver, flood timer, reconnect sweep | one sender per reply; a flood-refused reply is retried without a restart |
| Turn lease, `gateway/turn_lease.py` | registry of locks per session id | acquire, rebind, release, evict | one turn per session id; nobody waits for ever; idle leases can go |
| Turn dispatch, `gateway/run_inbound.py`, `run_turn.py`, `run_agent_cache.py` | session slots, generations, tokens | admit, interrupt, displace, unwind | a displaced turn touches nothing of its successor |
| Session store, `gateway/session*.py` | routing key -> session, resume flags | switch, reset, recover | keys and resume flags follow the conversation |
| Durable turn lease, `agent/turn_facade_lease.py`, `xiuqo_state_compression.py` | lease rows in `state.db`, by conversation | admit, wait, refresh, expire, take over, release | only the turn admitted last writes; whoever waits is served |
| Transcript and compaction, `xiuqo_state_messages.py`, `agent/conversation_compression.py` | active rows of each session, chain of continuations, compression locks | append, flush, in-place compaction, rotation, adoption of a continuation | no message is left out of a compaction or doubled by it; the chain does not fork |
| Kanban, `xiuqo_cli/kanban_db*.py`, `gateway/kanban_watchers*.py` | tasks, claims, links | claim, heartbeat, reclaim, complete, unblock | one worker per task; dependencies are honoured |
| Rest of the session database, agent loop, tools, platform protocols, CLI, TUI, web | | | outside these models |

How they interact: the scheduler fires a job and creates an **execution**; the job runs in
the scheduler's process or in a worker that **adopts** the execution; the worker puts its
message into the **delivery queue** and waits, and the housekeeping thread of whichever
gateway is up drains the queue.  A chat turn takes the **turn lease**, runs, records its
final reply in the **delivery ledger** and sends it; what was not sent is picked up by the
next boot, by a reconnect or by the flood timer.  The tick that fires a job takes its
occurrence off the **job store**, and every run of it has to hold the fire claim there.  Under the turn
lease, which orders the turns of one process, the **durable lease** orders those of all
processes; compaction of the transcript has a lock of its own and runs beside appends.

The behaviours that are hard: processes die between any two transactions; SQLite
transactions are deferred, so a SELECT and the UPDATE after it can be separated by another
process; waits time out while the awaited thing happens; platforms report failures for
messages they have delivered; coroutines of one process interleave at every await; a lock
is free between its release and the wake-up of its next owner.  `PROJECT.json` lists
these hazards one by one, with the properties that watch them.

## 2. Modules

| Module | Models |
|---|---|
| `AtMostOnceSend` | the promise of the delivery queue: each message is offered, perhaps handed to a platform once, and gets one final outcome |
| `CronDelivery` | `cron/delivery_queue.py` with the workers that wait and the gateways that drain; refines `AtMostOnceSend` |
| `CronDelivery_proofs` | its proofs |
| `CronExecutions` | `cron/executions.py` with the life of an attempt in `cron/scheduler.py` |
| `CronExecutions_proofs` | its proofs |
| `CronJobs` | one record of `cron/jobs.py` with the tick, the submissions, the workers and the attempts of several gateways |
| `CronJobs_proofs` | its proofs |
| `DeliveryLedger` | `gateway/delivery_ledger.py` with its callers in `platforms/base.py` and `run_startup.py` |
| `DeliveryLedger_proofs` | its proofs |
| `TurnLease` | `gateway/turn_lease.py`, `asyncio.Lock` below it and its callers above it |
| `TurnLease_proofs` | its proofs |
| `SessionTranscript` | one conversation in `state.db`: the durable turn lease, the flush of a turn's rows, compaction in place or by rotation, unfenced writers |
| `SessionTranscript_proofs` | its proofs |
| `KanbanBoard` | cards of `xiuqo_cli/kanban_db.py` under the tick of `kanban_db_dispatch.py`, their workers, the command line and the dashboard |
| `KanbanBoard_proofs` | its proofs |
| `MC*` | symmetry sets for TLC |

Each module declares its own constants, names its assumptions about them, has one action per
transaction or stretch between two awaits, and one type invariant.  A definition marked as a
mutant or a bug is not part of the specification: it is a changed form of the definition
below it, which the development uses to show that the properties can tell a broken
program from the real one.

### CronDelivery

A row and its tombstone are `deliveries[e]` and `tombstones[e]`; `Outcome(e)` is what
`get_status` answers.  A gateway's `phase` says where its drain is: recovering (`RecoverScan`,
`RecoverFence`), claiming (`Select`, `Claim`), sending, finishing (`Finish`, or `FinishRaises`
when the database fails).  A worker enqueues, polls and times out (`WaitTimesOut` is the
SELECT and its early return, `Fence` the UPDATE and the rest); `Verdict` is what
`scheduler_delivery.py` makes of the answer.  Workers die, gateways crash unless
they are `Steady`.  `Opaque` gateways are those whose process start time cannot be read; others may take
them for dead.

A process has one housekeeping thread, so its `_ACTIVE_DELIVERIES` is empty whenever it
recovers and is not a variable.  Time is a counter that only orders rows (`finished_at`).

### CronExecutions

`ledger[e]` is a row; `at[e]` is where the dispatching process is with the attempt, `worker[e]`
where its worker process is, `jobStatus[e]` and `fireClaim[e]` what the job store records.
The grace period of a hand-over ends by an action of its own (`GraceEnds`), and recovery is
the probe of an owner (`Judge`) followed by the guarded UPDATE (`WriteOff`).  Expiry of fire
claims is the business of `CronJobs`; here a claim is granted once.

An attempt either runs in the scheduler or, if it is `Detached`, goes to a worker.  In a `Faulty` one whatever the code wraps in a
handler may raise: the run, a mark in the job store or `finish_execution`, which leave the handler of the run to record a failure in
both stores (`RunRaises`, `WorkerRaises`, then `Close`, `WorkerCloses`), and the fencing of the row or a
ledger read during the wait, which the dispatcher takes for a failed dispatch (`DispatchRaises`).  A mark in a handler may raise too
(`MarkOrRaise`).  When the handler's own write to the ledger raises, the thread is `lost` and its row stays as it is (`GiveUp`).  `cut` is
history: the run was cut short between its mark and its finish.

### CronJobs

`job` is the record in `jobs.json`, and every action that changes it is one hold of the jobs-file
lock.  Time is counted in occurrences: a recurring job has one at every instant up to
`MaxTime`, a one-shot has one.  Claims carry whether they are fresh instead of a time
stamp; heartbeats keep them fresh, and `SlotExpires`, `FireExpires` and `RunExpires` age those
that nobody refreshes.  A gateway's tick scans (skip or remove what is stale, advance the schedule,
spend the budget of a one-shot) and submits; an attempt goes from the queue of the pool over
its claim to the run, in the gateway or in a worker process (`Places`), takes the fence, delivers and
books the outcome.  `RolledBack` and `Restore` put `jobs.json` back to an earlier copy, which the
code defends against with the executions it has on record (`tests/cron/test_scheduled_occurrence.py`);
time waits until such a record has been scanned.  `Steady` gateways do not crash, `Manual`
ones start runs by hand, `Remote` ones run on another host, where their death cannot be proved, `Asleep` lets heartbeats stop, `Backlog` lets attempts wait in
the pool for longer than their slot is kept, and `Hasty` lets the schedule be rearmed under a
dispatch.

### DeliveryLedger

`row[r]` is the table; `hand[g][p][r]` is what path `p` (the turn, the boot task, the reconnect
sweep, the flood timer) of gateway `g` holds of a reply between its claim and its bookkeeping.
`sweep_recoverable` is three actions, because its SELECT (`BootScan`) returns before the first owner is probed and no lock is held
until the first UPDATE: `BootSkips` passes over a row whose owner lives, and `BootClaim` is the UPDATEs, once the owners of the rows that
are left are dead.  They act on the state, attempts and error that the SELECT returned.  `held` remembers which rows had a running owner
at the SELECT, and `late` which of those the sweep then claimed.  `RuntimeClaim` is
`sweep_failed_for_runtime`.  The flood worker is a small machine (`TimerClears` ...
`TimerSwept`) because its SELECT runs in a thread.  `plain` and `marked` count the sends
without and with a marker, `arrived` is whether the recipient has the reply.  With `WritesFail`
every ledger write after a send may raise, as the callers allow for.

Left out: several adapters or profiles on one gateway, recording the same obligation twice,
legacy rows, and failures of the timer's own read.  Which rows of a class the prune takes
(the code: the oldest) is left open.

### TurnLease

A lease object is named after the turn whose `acquire()` created it.  The states of a
waiter in the lock's deque are stages of its turn; its place in the deque is the set of turns
`ahead` of it.  The gap between `acquire()`'s bookkeeping and the lock's coroutine
(`"asked"`), and the one between taking the lock and publishing the token (`"granted"`), exist
on Python 3.11, where `wait_for` wraps the coroutine in a task (`pyproject.toml` asks for
3.11 or later); later versions have fewer interleavings.  Which idle entries are evicted (the code:
the least recently used) is left open.  A session id is never empty here, and every gateway has a
registry.

### SessionTranscript

A row stands for the messages it covers: its own, or those of a summary.  `ses` has the
sessions with their active rows and compression locks, `lease` the durable turn lease by conversation,
`act` the turns and the hygiene compactions: each has the history it loaded (`mem`),
whether its own message still has to be flushed (`owed`) and the watermarks of its compaction.
An action is a write transaction or the reads that lead up to one.  A turn loads, is admitted (`Admit`, or
`Waits`, `Serve` and `Reload`), begins, may flush, may compact once and finishes.  A compaction
takes the lock, captures the watermark, and then commits in place (`CommitInPlace`), or reads a
grown parent again, takes the ceiling, flushes what is owed and publishes a child (`AdoptGrown`,
`Ceiling`, `FlushOwn`, `Publish`).  Mirrors append without a lease (`Land`), deliveries between turns
(`Deliver`), sessions are ended by cleanups or on purpose.  Claims carry freshness; only those of an
actor that is over, dead or stalled age.  `AdoptGrown` joins two reads and the flush between them:
what lands between is seen by the second read as if it had come first.
`Inv` says that the sessions are one chain, with one lease for all of it, and how rows, memories, watermarks and locks
relate (`Chained`, `Sited`, `Numbered`, `Recorded`, `InHand`).

### KanbanBoard

Cards have fixed parents, and a row each: `status`, `claim` (lock, expiry, `worker_pid`,
`current_run_id`) and `book`, which holds the failure counter and what the code reads off the newest
events and runs of a card (sticky block, resume phase, streak of protocol violations, cause of the last block).
`runs` are the attempts, each with the process started for it: `live` while the board tracks it, `astray` when
it was never recorded or an operator or the runtime limit took its card although it survived, then how it ended.
A write transaction is an action.  A tick is a sequence of them (`tick.pc`): sweeps that read, kill outside any transaction
and then write (`Kill`, `Release`), the crash sweep and the separate accounting of each crash (`CrashSweep`,
`Account`), `Promote`, and per card a claim, a spawn and the record of its pid; it may die between any two.  Calls of
workers are fenced by the run they were spawned for (`Works`), except heartbeats, which know only the lock.  Of the
operators' calls `promote` and `reclaim` decide on what they read before their transaction, so they are two steps; the
others are one, together with the clearing of the counter, the `recompute_ready` and the kill that follow their commit.
`past` is history: whether a card is under review (`phase`), waits for a decision (`held`), or had a failure recorded
after it had moved on (`crossed`).

## 3. Runs

`delivery` and `jobs_worker` use symmetry over messages and attempts, `ledger` over gateways; the runs with liveness use none.
Deadlock is not checked: the systems are finite, and stop when every message, attempt,
reply or turn is over.

| Run | Bounds | Shows |
|---|---|---|
| `delivery` | 2 messages, 2 gateways (one may crash and has an unreadable start time), 1 terminal row kept, 1 send per drain | the invariant, including at most one send; a pending row is untouched; outcomes are final; "ok" is never told of a lost message; refinement of `AtMostOnceSend` |
| `delivery_live` | 1 message requested up to twice, 3 gateways, 2 may crash, no terminal row kept | every message gets an outcome; a message whose row became a tombstone is not sent again |
| `executions` | 2 attempts, one in the scheduler and one in a worker, any step of either may raise, 2 schedulers (one may crash), 1 terminal row kept | side effects only in the owner on record; `unknown` only after a death; ledger and job store agree but for a run cut short between its two writes; terminal rows are final; a settled attempt starts nothing; every attempt ends, unless its thread could not write that |
| `executions_ack_race` | 1 attempt | **violation**: a job that ran is recorded as never dispatched |
| `ledger` | 1 reply, 3 gateways, each may crash, cap 1, writes fail | the inductive invariant; one gateway at a time holds a reply; `delivered` is true; no ambiguous row is resent unmarked and the cap bounds the real sends, but for a row whose owner was up at the sweep's SELECT (finding 19) |
| `jobs` | a one-shot or a recurring job, 2 attempts, 2 gateways of which one may crash and the other starts manual runs, runs in the gateway or in a worker, 2 instants | an occurrence is delivered once; the claim fences the delivery; no slow run is taken for dead; what the schedule passes is covered; a pending slot is claimed |
| `jobs_worker` | 1 one-shot | **violation**: the record of a one-shot is removed while its worker runs it |
| `ledger_overflow` | 2 replies, room for 1 row, 1 gateway that stays up | settled rows go first; a flood-refused reply is retried without a restart |
| `ledger_silent` | 1 reply, 3 gateways, 2 may crash | **violation**: a reply whose owner sent it between a sweep's SELECT and its probe is resent without a marker |
| `turn_lease` | 3 turns, 3 sessions, cap 1 | coherence, mutual exclusion, nothing pinned, the cap is restored, who asks is served or refused |
| `kanban` | a chain of 3 cards, 2 attempts for the middle one (time-boxed, its workers may survive a kill, claimed by the dispatcher or by hand, every operation), the parent archived, scheduled and reopened; both failure limits 2 | rows, claims, runs and processes agree; no work past an open parent; what waits for an operator stays; a review stays a review; one tracked worker per card |
| `transcript` | 2 turns, one may stall or die, either mode of compaction, up to 3 sessions, and one event beside them: a mirrored message, a delivery, a hygiene compaction or the end of a session | late turns flush nothing; the chain does not fork; what lands behind a watermark is kept, once; who waits is served |

Why the bounds are enough: the races are between two rows of one table (compaction of one
while another is awaited), between two processes for one row, or between a dead owner
and two survivors; two rows, two or three processes and retention of one reach each of them.  In
`TurnLease` the eviction race needs a holder that releases, a waiter that is woken, and a
third turn on another session whose arrival evicts; a cap of one makes every new session evict,
and a third session gives rotations a place to go.  More turns and sessions are the proofs'
business.  In `CronJobs` a second attempt and a second gateway are what it takes to race for one
occurrence, and with two instants an occurrence can be missed, skipped or run late; with `Asleep` set, the
safety of deliveries and `PassedIsCovered` also hold (2.2 million states).
In `KanbanBoard` a second attempt is what a duplicate worker, a stale release or a spent budget of two needs, and
three generations are the fewest in which taking back the children of a reopened card is not enough; with both limits at
1 the invariants hold too (585,089 states).
In `SessionTranscript` two turns overlap through the expiry of a lease or a lock; with two events
beside them instead of one the safety properties hold too (5.2 million states).  Every passing run is backed by mutants: for each property a plausible bug
(a dropped WHERE clause, an uncounted attempt, an off-by-one) that the same run finds.

### Fairness

Only what the code schedules is fair.  `delivery_live`, `executions`: a process that stays
up keeps polling and recovering (the housekeeping thread and the scheduler tick are loops),
and a worker process makes progress until it dies; crashes, worker deaths and new requests are
not fair.  In `executions` that is one condition for each thread of a scheduler that runs an attempt, and one for
launches, recoveries, the steps of workers and the ends of hand-over periods together: an attempt is created once, so each can
hold up another only finitely often.  `jobs`: running gateways tick, live attempts go on, and claims that nobody refreshes
expire; a submission may fail, but not for ever.  `ledger_overflow`: ready coroutines of a
running gateway run, sends return (they have timeouts) and flood penalties end.  `transcript`: a turn that
is not stalled goes on and ends, a waiting turn polls, and an unrefreshed lease
expires; the wait's own timeout is not fair.  `turn_lease`: ready coroutines run and turns end
(a hung turn is reaped); timeouts, displacement and rotation are not fair, so the result does
not rest on a timeout breaking a lost wake-up.

## 4. Findings

The three violation runs are disagreements between the code and what its own comments say;
`PROJECT.json` quotes both sides of each.

1. `executions_ack_race`: the poll of the worker is not followed by a second look for its
   acknowledgement.
2. `jobs_worker`: claims name the dispatching gateway, so a worker that outlives it loses its record.
3. `ledger_silent`: a boot sweep judges a row by the state its SELECT returned (`gateway/delivery_ledger.py:331-337, 382`).  The owner
   was up then; it marks the row attempting, sends the reply, which may arrive, and dies before the sweep probes it
   (line 340).  The owner stamp is unchanged, so the claim goes through and the reply is sent again plainly.  The trace has
   ten states.  The property fails in a second way, which needs two crashes: a boot claim leaves a pending row pending.

These were met with other bounds or while reading, and have no run of their own:

4. Because a boot claim leaves the state as it is, a failed row that the boot sweep claimed is claimed again by a reconnect of its adapter while the
   boot send is in flight (`gateway/delivery_ledger.py:373`, against "two reconnect paths cannot send the same row",
   line 267).  On the instance of `ledger_silent` TLC finds it as a violation of `OneSendAtATime`.

5. `_owner_is_live` takes an owner whose start time cannot be read for dead, so recovery writes off the
   attempt of a live process (`cron/executions.py:131-134`, against the comment above it).  With a non-empty
   `Opaque` the run `executions` finds it as a violation of `Inv` (`UnknownOwnerGone`); that run therefore has `Opaque = {}`.
6. `_terminalize_wait_timeout` does not look at tombstones (`cron/delivery_queue.py:349-355`): a worker that
   times out just after its message was delivered and the row compacted reports it as not delivered.
7. An attempt that waits in the pool for more than 300 s loses its pending slot: another gateway runs
   the occurrence, and the queued attempt then claims and runs it again, since the claim checks `next_run_at`
   and not the instant it was dispatched for.  With `Backlog` set the run `jobs` violates `SentOnce`.
   Rearming the job during a dispatch does the same (`Hasty`).
8. A manual run that races a dispatch of the same gateway can make both stand back, and the claim blocks until it
   expires; a manual run of a one-shot stamps no run claim, so the due scan of another process can remove its record.
9. A one-shot past its grace period with a dead claim stays scheduled for ever
   (`test_oneshot_grace_due_scan` keeps it so).
10. When `jobs.json` was put back, skipping an occurrence that was already run computes the next one from now,
    and so also skips a missed one after it, although `test_scheduled_occurrence.py` says that "A different
    missed slot must remain runnable".
11. A rotation that reads its grown parent again (`_adopt_grown_durable_parent`) summarises rows behind its
    watermark and then clones them too, against the comment at `agent/conversation_compression.py:2966`
    ("rows above the start watermark up to this MAX(id) are foreign appends").  `NotDoubled` excepts
    what was read again (`reread`); without the exception TLC finds it in twelve steps.
12. A message that lands between a turn's load and the watermark of its in-place compaction is archived without
    being summarised: it stays in the database but leaves the active transcript, although
    `conversation_compression.py:2565` has "in-place never loses rows".  In a rotation, a message that lands between the
    ceiling and the publication stays in the closed parent.
13. The commit of a compaction is fenced by the compression lock alone: a turn that lost the turn lease may still
    commit one, with its own message in it.

14. A third protocol violation in a row trips the breaker (`force_trip`) without raising the failure counter to
    its limit, so `recompute_ready`, later in the same tick, promotes the card again, although it says "At the breaker
    limit, no auto-recovery" (`kanban_db.py:2048`).  `HeldStays` therefore excepts such a trip (`held = "streak"`).
    Likewise the accounting of crashes uses `DEFAULT_FAILURE_LIMIT` and not `kanban.failure_limit`: with a greater
    configured limit what it blocks is promoted again (`FailureLimit` and `DefaultLimit`, equal in the run).
15. `enforce_max_runtime` (`kanban_db_dispatch.py:461-475`) and `reclaim_task` release the claim of a worker that survived
    its kill, against "Never release a claim while our own worker is still alive" (line 560); the next tick starts a second
    one beside it.  In the model such a worker is `astray` and not counted by `OneWorker`.
16. A failure is counted in a transaction after the one that released the card: if the card is claimed by hand in
    between, a trip blocks it with its claim and a running worker, and the event it writes overwrites the phase that
    a card resumes to (`crossed`).
17. `unblock_task` says that a card resumes in review where it left off (`kanban_db.py:3266`); one that was
    scheduled resumes as ready (3270-3274).
18. `finish_execution` may raise, or an interrupt may land, after `mark_job_run` has recorded a run as ok
    (`cron/scheduler.py:2763-2783`).  The handler (2958-3003) then marks the job failed, which the spent fire claim rejects,
    and closes the attempt as failed: the ledger says failed under a job that says ok.  `LedgerAgreesWithJob` excepts such a run (`cut`);
    without the exception TLC finds it.  When the write in the handler raises too, the row stays claimed or running
    for as long as the process lives, since recovery passes over rows of live owners (`lost`, excepted by `AttemptsEnd`).
19. The attempts a boot sweep checks against the cap are also those of its SELECT (`gateway/delivery_ledger.py:342`): an owner
    that spends another one and dies before it is probed gets the reply sent once more than `MAX_ATTEMPTS` allows.  `BoundedSends` and
    `MarkedUnlessPending` name what such late claims may do; without that both are violated on the instance of `ledger`.
20. A ledger read that raises while the dispatcher waits for its worker (`cron/scheduler.py:3042`) is booked as a
    failed dispatch of a job that is running: the job store says so, while the ledger, which the worker owns, is left alone.

## 5. Proofs

`CronDelivery_proofs`, from `ConstantsAssumption` alone, for any sets of messages and gateways and any bounds:
type correctness; the inductive invariant `Inv`; `AtMostOnce`, `PendingUntouched`,
`OutcomeIsFinal`, `DeliveredArrived`, `OkIsDeliveredOrQueued`; and that `CronDelivery` implements `AtMostOnceSend`.
`AtMostOnce` is not inductive by itself: a claim must know that its message has not been
sent.  `Inv` adds that a gateway between claim and send is alone there and owns
the row unless it was written off, that what such a gateway claimed has not been sent, that
nobody has sent a message that is on offer, and that a tombstone excludes a row.  The
refinement proof maps `Send` to the abstract send, the settlements to the abstract outcome, and all
else to stuttering; compaction is a stutter because `Outcome` reads tombstones.

`CronExecutions_proofs`, for any attempts, schedulers and retention, provided the start times of
processes can be read (`Opaque = {}`, see finding 5): the invariant `Inv` with `SideEffectsOwned`, `UnknownOwnerGone` and
`LedgerAgreesWithJob`; `TerminalIsFinal`; `SettledStartsNothing`.  The argument: a probe remembers
an owner that is dead for good (`ProbedIsDead`), so a guarded write-off cannot hit a row whose owner
runs; a worker past its adoption owns a running row (`WorkerOwns`), so a settled row has no
worker inside the job; the place of the dispatching thread bounds what can have happened
(`Staged`), so a failed dispatch finds a claimed row or none of its own.  A handler may still close an attempt as failed whose
job is recorded ok; it was then entered after the mark, and `CutAfterMark` ties that to the history `cut` which
`LedgerAgreesWithJob` excepts.  All settling actions go through one lemma (`SettlesKeeps`).

`TurnLease_proofs`, for any finite set of turns, any finite set of sessions and any cap: the coherence
invariant `Inv`, `MutualExclusion`, `NotPinned` and `CapRestored`.  Mutual exclusion holds because every live acquire and turn uses
the lease that is registered for its session (`Linked`).  That survives an eviction and a rotation
because an idle lease has no users, which needs the counter to equal the number of attempts under
way (`Counted`, by cardinality), and it survives the hand-over because a woken waiter is first in
the deque of a free lock (`WokenIsFirst`, `Ordered`), so that two can never both take it.

`CronJobs_proofs`, for any gateways, attempts and horizon: the invariant `Inv` with type correctness and the
budget of a one-shot; `FencedDelivery`; `PassedIsCovered`; if no dispatch waits in the pool for longer than its slot
lives and nobody rearms a one-shot over a waiting dispatch (`~Backlog`, `~Hasty`: finding 7 is what happens
otherwise), `SentOnce`, with sleeping heartbeats and remote hosts included; and, if heartbeats do not sleep and attempts
do not wait for long (`~Asleep`, `~Backlog`), `SlowIsNotStale`.  The fence works because a delivering attempt holds the
file lock's fence until its send returns, and every other claim needs it.  A slow run is kept because the run claim of a
gateway that has anything to run stays young (`RunKept`), so that the scan never judges it dead.

`SentOnce` needs to know why an attempt that is about to send does so for an instant nobody has sent.  `Dated` says
that nothing is claimed, completed or sent ahead of its time, and `Ahead` that what a recurring job is due for next, by its
schedule or by its pending slot, lies beyond everything claimed.  For a recurring job `OncePerInstant` then
gives every attempt and the tick an instant of their own that is unsent until they send it; it needs the slot of a
waiting dispatch to be young (`SlotYoung`), because a slot that expired is restored, and its instant dispatched again.  A
one-shot has the same instant for all its attempts, so there `OncePerArming` follows the budget: who owns the claim has spent it
for the instant the job is armed for before it sends.  The steps fall into those that leave schedule, slot,
instants and sends alone (`Quiet`, by `Steps`) and twenty others (`Eventful`), so that each of the lemmas has one case for
the former and one for each of the latter.  A job never changes its kind (`SameKind`), which is what lets the two arguments be
separate.

`KanbanBoard_proofs`, for any cards, links, attempts and limits: `Inv`, `ParentsGate`, `OneWorker`, `PhaseKept`,
and, if the limit of the crash sweep is the configured one (`FailureLimit = DefaultLimit`, as it is by default;
finding 14), `HeldStays`.  The inductive invariant is `Inv` with the gate, since a claim relies on the gate of the ready lane
only together with the columns that say where a card came from.  For `OneWorker`, `Inv` contains `Tracked`: a live worker
that the board knows is on the current run of a running card, so a claim, which wants a card that does not run, finds no
worker of it; and the tick remembers whether the worker it killed survived, so that only a card whose worker is gone is
released.  What the many steps have in common is stated once: those that only take claims away (`Releases`, `Tracks`), and
those that reopen no finished card (`GateStep`); each of these keeps its part of the invariant by one lemma, and only the
claims, the spawns and the reopening of a finished card are proved apart.  `HeldStays` and `PhaseKept` speak of
history; what ties it to the rows is `HeldAt` (a held card is blocked with a sticky block or a full counter, or in
triage) and `ReviewAt` (a review is in the status, in the source of the run or in the resume status), and every step keeps
both for every card (`Settled`), given the invariant before and after it.

`DeliveryLedger_proofs`, for any replies, gateway processes, attempts cap and table size, crashes at any
point and ledger writes that may raise: the invariant `Inv`, `OneGatewaySends`,
`DeliveredArrived`, `MarkedUnlessPending`, `BoundedSends` and `OverflowDropsClosedFirst`.  Two
processes cannot hold one reply because a boot sweep takes a row only from an owner that is dead for good, and an
owner stamp that is still the one its SELECT saw is then nobody else's, although the SELECT is older; and because whoever has a reply in
hand runs and owns its row (`InHand`).  What the SELECT returned is no more than that (`SeenWasOpen`).  If the owner was
dead at the SELECT, the row is as it was, or abandoned, for as long as that owner is on it.  If it was running, the row stays
with it while it lives, and of its attempts only the cap is known.  Each handler keeps this for every sweep under way (`SeenKept`,
`SeenWas`, `SeenAll`).  So only claims of the second kind (`late`) are excepted from `MarkedUnlessPending`, and since such a claim
finds a row that is within the cap and adds one, it costs one send more (`LateClaims`, `Cap`).  The cap is a count: the sends made, and the
hands from which a send may still come (`InTurn`, by cardinality), never exceed the attempts on record by more than the
first one, and these never exceed `Cap` (`Covered`); a pruned row keeps the bound because no update brings it back.  Most
of the handlers change one hand and keep the owner of its row, and share one lemma (`HandlesOwnership`);
the two claims share another (`ClaimsStep`).

`SessionTranscript_proofs`, from `ConstantsAssumption` alone, for any turns, compactions, messages and bounds, any actors that
stall or die and either mode: `Inv`, `NotDoubled`, `LateWritesFenced` and `TailKept`.  The lease is keyed by the root of a chain
and a flush follows the chain to its tip, both recursive in the code and in the model; that every walk to the root ends at
session 1 and every walk to the tip at the last session (`RootIs`, `TipIs`) follows from the shape of the chain (`Chained`) by taking
the least, or the greatest, session from which it does not (`Least`, `Greatest`, from the well-foundedness of
the natural numbers).  So the conversation has one lease, and `LateWritesFenced` is that whoever holds it is the turn
admitted last.  `NotDoubled` and `TailKept` need to know what a compaction has in hand: as long as its lock is on record (`Locks`),
the rows behind its watermark cover what was appended since, and no message of them is in its memory, unless a rotation
read it again (`InHand`); without its lock it commits nothing.  An append cannot break this because the message it stores is in
no row and in no other memory yet (`Recorded`), and its row is numbered behind every watermark (`Numbered`); another
compaction's commit cannot, because two do not have the same lock.  Steps that write no rows share `StillKeeps`,
appends `AppendKeeps`, and commits `CommitKeeps`, which speaks of the rows that `Clones` makes (`Cloned`).

Only model-checked: liveness and everything about fairness or enabledness, which is out of reach of the
prover.  Every invariant and every action property of a passing run is proved.

## 6. Plan

Done first, because they carry the strongest promises: the cron delivery queue, the execution
ledger, the delivery ledger, the turn lease, the job store, the transcript with its durable lease, the kanban
board.

Next, in this order:

1. `CronFire`, which composes `CronJobs` with `CronExecutions`.
2. `SessionStore`: routing keys, resume flags, composed with `DeliveryLedger` (a turn is either
   resumed or redelivered, not both).
3. `TurnDispatch`: generations and displaced turns, composed with `TurnLease`.

Every theorem planned for the modules above is proved; those of the next modules are their invariants and, for
`CronFire`, that it implements both of its parts.

## 7. Not modelled

The session store, streaming and busy handling (planned above, or
later); the storage, search and repair of the session database, whose transactions are the atomic steps here; the agent
loop and tools, of which the models see only that a run starts, may have side effects and
ends; prompts, scripts, catalogues, platform protocols and the clients, which are data, I/O or user
interface.

Of the job store: pause, resume and forced runs, claims by external providers, `catch_up_missed` off, the error
state, finite repeats of recurring jobs, retention, time zones and edits of the schedule, retries of unreachable
targets, and a failed launch that races a worker which did start.  Of the transcript: what a summary
says, branches and forks, rewinds, several turns of one process (that is `TurnLease`), probe failures,
cooldowns, the fences between a compaction and the host that waits for it.  Of the kanban
board: creating, linking and deleting cards, assignment, per-card retry limits, spawn caps, memory pressure and the respawn guard (a
claim is optional in the model), the grace of a fresh launch, the trip on three equal crashes in one tick, acceptance gates and
phantom cards, goal loops, workspaces; `reconcile_orphaned_running`, which by `Bookkeeping` finds nothing to do.
