------------------------------ MODULE CronJobs ------------------------------
(***************************************************************************)
(* One record of the cron job store (cron/jobs.py) and the attempts that   *)
(* compete for it (cron/scheduler.py): the due scan under the tick lock,   *)
(* the queue of dispatched attempts, the fire claim with its heartbeat and *)
(* expiry, the fence around side effects, and the outcome.  Every action   *)
(* that touches the record is one transaction under the jobs lock.         *)
(*                                                                         *)
(* Time is counted in occurrences: a recurring job is due at 1, 2, 3 ...,  *)
(* a one-shot at the one instant it was armed for.  A claim does not carry *)
(* its time stamp but whether the stamp is still younger than the TTL.     *)
(***************************************************************************)
EXTENDS Naturals, FiniteSets

CONSTANTS
  Gateways,  \* process incarnations that tick; a restarted gateway is another one
  Attempts,  \* attempts that exist at one time, and the tokens of their claims
  Nobody,
  Places,    \* where attempts may run: "gateway", or "worker", a process of their own
  Steady,    \* the gateways that stay up
  Manual,    \* the gateways at which users may run the job by hand
  Remote,    \* gateways whose death other processes cannot prove (another host)
  Asleep,    \* whether heartbeats may pause for longer than a claim lives
  Backlog,   \* whether a dispatched attempt may wait in the pool for longer than that
  Hasty,     \* whether users may rearm a job while a dispatch of it waits
  MaxTime    \* bound on the clock

ASSUME ConstantsAssumption ==
  /\ Steady \subseteq Gateways /\ Manual \subseteq Gateways /\ Remote \subseteq Gateways
  /\ Nobody \notin Gateways \cup Attempts
  /\ Places \subseteq {"gateway", "worker"}
  /\ Asleep \in BOOLEAN /\ Backlog \in BOOLEAN /\ Hasty \in BOOLEAN /\ MaxTime \in Nat

\* by of a fire claim is host, process and a token of the acquisition.
FireClaim == [by : Attempts \cup {Nobody}, host : Gateways \cup {Nobody}, fresh : BOOLEAN]
RunClaim == [host : Gateways \cup {Nobody}, fresh : BOOLEAN]
Slot == [inst : Nat, host : Gateways \cup {Nobody}, fresh : BOOLEAN]
NoFire == [by |-> Nobody, host |-> Nobody, fresh |-> FALSE]
NoRun == [host |-> Nobody, fresh |-> FALSE]
NoSlot == [inst |-> 0, host |-> Nobody, fresh |-> FALSE]

\* next is next_run_at, slot pending_slot, done repeat.completed of a one-shot
\* (repeat.times is 1), ran whether last_run_at is set.
Job == [kind : {"once", "recurring"}, state : {"scheduled", "completed", "retired", "deleted"},
        next : Nat, slot : Slot, fire : FireClaim, run : RunClaim, done : {0, 1}, ran : BOOLEAN]

Stages == {"idle", "queued", "won", "claimed", "valid", "started", "ran", "saved",
           "delivering", "posted", "closing", "marked"}
Attempt == [at : Stages, gw : Gateways \cup {Nobody}, inst : Nat, place : {"gateway", "worker"},
            ok : BOOLEAN]
Over == [at |-> "idle", gw |-> Nobody, inst |-> 0, place |-> "gateway", ok |-> FALSE]
NoTick == [gw |-> Nobody, at |-> "none", inst |-> 0]

VARIABLES
  job,       \* the record in jobs.json
  att,       \* the attempts
  up,        \* which gateways run
  tick,      \* the tick that holds the tick lock and has found the job due
  fence,     \* the attempt that holds the job's fire fence across a delivery
  now,
  completed, \* the instants with a completed row in the execution ledger
  sent,      \* history: deliveries and failure notices per instant (manual runs have none)
  covered    \* history: the last instant at which a run was claimed or recorded

vars == <<job, att, up, tick, fence, now, completed, sent, covered>>

TypeOK ==
  /\ job \in Job
  /\ att \in [Attempts -> Attempt]
  /\ up \in [Gateways -> BOOLEAN]
  /\ tick \in [gw : Gateways \cup {Nobody}, at : {"none", "due", "advanced"}, inst : Nat]
  /\ fence \in Attempts \cup {Nobody}
  /\ now \in Nat
  /\ completed \in SUBSET Nat
  /\ sent \in [1 .. MaxTime -> Nat]
  /\ covered \in Nat

Init ==
  /\ job \in {[kind |-> k, state |-> "scheduled", next |-> 1, slot |-> NoSlot, fire |-> NoFire,
               run |-> NoRun, done |-> 0, ran |-> FALSE] : k \in {"once", "recurring"}}
  /\ att = [a \in Attempts |-> Over]
  /\ up = [g \in Gateways |-> TRUE]
  /\ tick = NoTick
  /\ fence = Nobody
  /\ now = 0
  /\ completed = {}
  /\ sent = [i \in 1 .. MaxTime |-> 0]
  /\ covered = 0

(***************************************************************************)
(* The record                                                              *)
(***************************************************************************)
Recurring == job.kind = "recurring"
Scheduled == job.state = "scheduled"
Stored == job.state \in {"scheduled", "completed"}

\* _claim_is_live: stamped within the TTL, by a process not known to be dead.
OwnerIsDead(g) == ~up[g] /\ g \notin Remote
Live(claim) == claim.fresh /\ ~OwnerIsDead(claim.host)

Gone(state) ==
  [kind |-> job.kind, state |-> state, next |-> 0, slot |-> NoSlot, fire |-> NoFire,
   run |-> NoRun, done |-> 0, ran |-> FALSE]

\* _record_run_outcome and _advance_after_run: both claims and the pending slot
\* are cleared; a one-shot has used up its budget, a recurring job moves on.
Recorded ==
  [kind |-> job.kind, state |-> IF Recurring THEN "scheduled" ELSE "completed",
   next |-> IF Recurring THEN now + 1 ELSE 0, slot |-> NoSlot, fire |-> NoFire, run |-> NoRun,
   done |-> IF Recurring THEN 0 ELSE 1, ran |-> TRUE]

Mine(a) == job.fire.by = a

\* _refresh_claim, and the same stamp when it has outlived the TTL.
Refreshed(claim) == [claim EXCEPT !.fresh = TRUE]
Aged(claim) == [claim EXCEPT !.fresh = FALSE]

\* heartbeat_fire_claim.
Beaten == [job EXCEPT !.fire = Refreshed(job.fire)]

\* get_running_job_ids: registered from the submission on, a manual run from its start on.
InFlight(g) == \E a \in Attempts : att[a].gw = g /\ att[a].at \notin {"idle", "won"}

(***************************************************************************)
(* The due scan (_get_due_jobs_locked), under the tick lock                *)
(***************************************************************************)
\* Mutant: only the stamps of dead processes are restored.
RestorableFromDead(g) ==
  /\ Recurring /\ job.slot # NoSlot
  /\ ~InFlight(g)
  /\ OwnerIsDead(job.slot.host)

\* unclaimed_pending_slot: an occurrence that was taken off the schedule and never claimed.
Restorable(g) ==
  /\ Recurring /\ job.slot # NoSlot
  /\ ~InFlight(g)
  /\ job.slot.host = g \/ ~Live(job.slot)

\* The record as the rest of the scan sees it, and the instant it judges.
Restored(g) ==
  IF Restorable(g) THEN [job EXCEPT !.next = job.slot.inst, !.slot = NoSlot] ELSE job
Instant(g) == Restored(g).next

\* Mutant: a one-shot is protected only until its dispatch is counted.
HeldUntilDispatched == ~Recurring /\ Live(job.run) /\ job.done = 0

\* A one-shot that another run holds is left alone.
Held == ~Recurring /\ Live(job.run)
Candidate(g) == up[g] /\ tick = NoTick /\ Scheduled /\ ~Held

\* An occurrence that the execution ledger has as completed is not due again.
ScanSkips(g) ==
  /\ Candidate(g) /\ Instant(g) \in completed
  /\ job' = IF Recurring THEN [Restored(g) EXCEPT !.next = now + 1] ELSE job
  /\ UNCHANGED <<att, up, tick, fence, now, completed, sent, covered>>

Due(g) == Candidate(g) /\ Instant(g) \notin completed /\ Instant(g) <= now

\* Mutant: the scan takes an occurrence off the schedule without a note of it.
PendingForgotten(g) == NoSlot

Pending(g) == [inst |-> Instant(g), host |-> g, fresh |-> TRUE]

\* _evaluate_due_job, recurring: a late job is moved past its misses and runs once.
ScanRecurring(g) ==
  /\ Recurring /\ Due(g)
  /\ job' = [Restored(g) EXCEPT !.next = IF Instant(g) < now THEN now + 1 ELSE Instant(g),
                                !.slot = Pending(g)]
  /\ tick' = [gw |-> g, at |-> "due", inst |-> Instant(g)]
  /\ UNCHANGED <<att, up, fence, now, completed, sent, covered>>

\* _retire_expired_oneshot and _oneshot_dispatch_limit_reached: a one-shot past its
\* grace is dropped unless it carries a claim; one whose dispatch was used up is
\* dropped unless this process runs it.
Late == job.next < now
Claimed == job.run # NoRun \/ job.fire # NoFire
Wedged(g) == ~Late /\ job.done = 1 /\ ~InFlight(g)

ScanRetires(g) ==
  /\ ~Recurring /\ Due(g)
  /\ (Late /\ ~Claimed) \/ Wedged(g)
  /\ job' = Gone("retired")
  /\ UNCHANGED <<att, up, tick, fence, now, completed, sent, covered>>

\* A one-shot that is due is claimed for the duration of its run.
ScanOneShot(g) ==
  /\ ~Recurring /\ Due(g) /\ ~Late /\ job.done = 0
  /\ job' = [job EXCEPT !.run = [host |-> g, fresh |-> TRUE]]
  /\ tick' = [gw |-> g, at |-> "due", inst |-> job.next]
  /\ UNCHANGED <<att, up, fence, now, completed, sent, covered>>

\* advance_next_runs: off the schedule before anything runs.
Advance(g) ==
  /\ tick.gw = g /\ tick.at = "due"
  /\ job' = IF Recurring /\ Scheduled THEN [job EXCEPT !.next = now + 1] ELSE job
  /\ tick' = [tick EXCEPT !.at = "advanced"]
  /\ UNCHANGED <<att, up, fence, now, completed, sent, covered>>

(***************************************************************************)
(* Dispatch (_submit_with_guard) and fire claims                           *)
(***************************************************************************)
Became(a, stage) == att' = [att EXCEPT ![a] = [att[a] EXCEPT !.at = stage]]
Starts(a, p) == att' = [att EXCEPT ![a] = [att[a] EXCEPT !.at = "claimed", !.place = p]]
Answers(a, stage, ok) == att' = [att EXCEPT ![a] = [att[a] EXCEPT !.at = stage, !.ok = ok]]
Ended(a) == att' = [att EXCEPT ![a] = Over]
Born(a, stage, g, i) ==
  att' = [att EXCEPT ![a] = [at |-> stage, gw |-> g, inst |-> i, place |-> "gateway", ok |-> FALSE]]

\* The token of an acquisition is used once.
Unused(a) == att[a].at = "idle" /\ ~Mine(a)

Submit(g) ==
  /\ tick.gw = g /\ tick.at = "advanced" /\ ~InFlight(g)
  /\ \E a \in Attempts : Unused(a) /\ Born(a, "queued", g, tick.inst)
  /\ tick' = NoTick
  /\ UNCHANGED <<job, up, fence, now, completed, sent, covered>>

\* The job is running here already.
SubmitRefused(g) ==
  /\ tick.gw = g /\ tick.at = "advanced" /\ InFlight(g)
  /\ tick' = NoTick
  /\ UNCHANGED <<job, att, up, fence, now, completed, sent, covered>>

\* The attempt could not be recorded or the pool refused it: clear_run_claim.
SubmitFails(g) ==
  /\ tick.gw = g /\ tick.at = "advanced" /\ ~InFlight(g)
  /\ job' = [job EXCEPT !.run = NoRun]
  /\ tick' = NoTick
  /\ UNCHANGED <<att, up, fence, now, completed, sent, covered>>

\* Mutant: the claim does not wait for the fence.
FreeOrHeld == fence \in Attempts \cup {Nobody}

\* claim_job_for_fire, under the fire fence.
Free == fence = Nobody
Claimable == Scheduled /\ ~Live(job.fire)

\* Mutant: the claim leaves the pending slot where it is.
GrantKeepsSlot(a, g) ==
  /\ job' = [job EXCEPT !.fire = [by |-> a, host |-> g, fresh |-> TRUE],
                        !.next = IF Recurring THEN now + 1 ELSE job.next]
  /\ covered' = now

Grant(a, g) ==
  /\ job' = [job EXCEPT !.fire = [by |-> a, host |-> g, fresh |-> TRUE], !.slot = NoSlot,
                        !.next = IF Recurring THEN now + 1 ELSE job.next]
  /\ covered' = now

\* _process_due_job: the worker thread starts and claims.
Claim(a) ==
  /\ att[a].at = "queued" /\ up[att[a].gw]
  /\ Free /\ Claimable /\ job.next \notin completed
  /\ Grant(a, att[a].gw)
  /\ \E p \in Places : Starts(a, p)
  /\ UNCHANGED <<up, tick, fence, now, completed, sent>>

\* The claim is live, the fence is not to be had, or the job is gone or completed.
ClaimRefused(a) ==
  /\ att[a].at = "queued" /\ up[att[a].gw]
  /\ ~(Free /\ Claimable /\ job.next \notin completed)
  /\ Ended(a)
  /\ job' = IF Free /\ Claimable /\ Recurring THEN [job EXCEPT !.next = now + 1] ELSE job
  /\ UNCHANGED <<up, tick, fence, now, completed, sent, covered>>

\* _claim_for_manual_run claims, _run_claimed_job registers; a registration that
\* finds the job in flight gives up and leaves the claim to its expiry.
ManualClaim(g) ==
  /\ g \in Manual /\ up[g] /\ Free /\ Claimable
  /\ \E a \in Attempts : Unused(a) /\ Grant(a, g) /\ Born(a, "won", g, 0)
  /\ UNCHANGED <<up, tick, fence, now, completed, sent>>

ManualStart(a) ==
  /\ att[a].at = "won" /\ up[att[a].gw]
  /\ IF InFlight(att[a].gw) THEN Ended(a)
     ELSE \E p \in Places : Starts(a, p)
  /\ UNCHANGED <<job, up, tick, fence, now, completed, sent, covered>>

(***************************************************************************)
(* The run (run_one_job, _run_one_job_body)                                *)
(***************************************************************************)
\* In its gateway or in a worker process, which outlives the gateway.
Alive(a) == att[a].place = "worker" \/ up[att[a].gw]

\* _launch_external_cron_worker fails: the attempt is booked as a failure.
LaunchFails(a) ==
  /\ att[a].at = "claimed" /\ att[a].place = "worker" /\ up[att[a].gw]
  /\ Became(a, "closing")
  /\ UNCHANGED <<job, up, tick, fence, now, completed, sent, covered>>

\* _run_with_fire_claim_heartbeat, in the gateway or in the launched worker: the claim
\* must still stand, and is refreshed.
Validate(a) ==
  /\ att[a].at = "claimed" /\ Alive(a)
  /\ IF Mine(a) THEN job' = Beaten /\ Became(a, "valid")
     ELSE Ended(a) /\ UNCHANGED job
  /\ UNCHANGED <<up, tick, fence, now, completed, sent, covered>>

\* claim_dispatch: a one-shot spends its budget before it runs.
Dispatched ==
  IF job.ran THEN [job EXCEPT !.state = "completed", !.next = 0] ELSE Gone("retired")

\* Mutant: the budget is counted and not looked at.
DispatchUncapped(a) ==
  /\ att[a].at = "valid" /\ Alive(a)
  /\ job' = IF Stored /\ ~Recurring THEN [job EXCEPT !.done = job.done + 1] ELSE job
  /\ Became(a, "started")
  /\ UNCHANGED <<up, tick, fence, now, completed, sent, covered>>

Dispatch(a) ==
  /\ att[a].at = "valid" /\ Alive(a)
  /\ IF Stored /\ ~Recurring /\ job.done = 1
     THEN job' = Dispatched /\ Ended(a)
     ELSE /\ job' = IF Stored /\ ~Recurring THEN [job EXCEPT !.done = 1] ELSE job
          /\ Became(a, "started")
  /\ UNCHANGED <<up, tick, fence, now, completed, sent, covered>>

\* mark_execution_running loses: a recovery has written the attempt off.
LedgerRefuses(a) ==
  /\ att[a].at = "started" /\ Alive(a)
  /\ Ended(a)
  /\ UNCHANGED <<job, up, tick, fence, now, completed, sent, covered>>

\* _FireOwnership.lost, after the job and after the delivery: an attempt whose claim
\* is gone discards its result, the others refresh the claim and go on.
IfMine(a, stage) ==
  IF Mine(a) THEN job' = Beaten /\ Became(a, stage) ELSE Ended(a) /\ UNCHANGED job

Returns(a) ==
  /\ att[a].at = "started" /\ Alive(a)
  /\ IF Mine(a)
     THEN /\ job' = Beaten
          /\ \E ok \in BOOLEAN : Answers(a, "ran", ok)
     ELSE Ended(a) /\ UNCHANGED job
  /\ UNCHANGED <<up, tick, fence, now, completed, sent, covered>>

\* The run was cancelled while it still owns its claim: booked as interrupted.
Cancelled(a) ==
  /\ att[a].at \in {"started", "posted"} /\ Alive(a) /\ Mine(a)
  /\ job' = Beaten
  /\ Answers(a, "closing", FALSE)
  /\ UNCHANGED <<up, tick, fence, now, completed, sent, covered>>

\* The job raised: the failure notice goes out after a check of the claim, and
\* without the fence.
Sent(i) == sent' = [j \in 1 .. MaxTime |-> IF j = i THEN sent[j] + 1 ELSE sent[j]]
Raises(a) ==
  /\ att[a].at = "started" /\ Alive(a)
  /\ IfMine(a, "closing")
  /\ IF Mine(a) THEN Sent(att[a].inst) ELSE UNCHANGED sent
  /\ UNCHANGED <<up, tick, fence, now, completed, covered>>

\* save_job_output, under the fence.
SaveOutput(a) ==
  /\ att[a].at = "ran" /\ Alive(a)
  /\ IF Free /\ Mine(a) THEN Became(a, "saved") ELSE Ended(a)
  /\ UNCHANGED <<job, up, tick, fence, now, completed, sent, covered>>

\* Mutant: the delivery trusts an earlier look at the claim.
DeliverUnchecked(a) ==
  /\ att[a].at = "saved" /\ Alive(a)
  /\ IF Free
     THEN Became(a, "delivering") /\ fence' = a /\ Sent(att[a].inst)
     ELSE Ended(a) /\ UNCHANGED <<fence, sent>>
  /\ UNCHANGED <<job, up, tick, now, completed, covered>>

\* fire_claim_fence and _deliver_result: the fence is held until the send returns.
Deliver(a) ==
  /\ att[a].at = "saved" /\ Alive(a)
  /\ IF Free /\ Mine(a)
     THEN Became(a, "delivering") /\ fence' = a /\ Sent(att[a].inst)
     ELSE Ended(a) /\ UNCHANGED <<fence, sent>>
  /\ UNCHANGED <<job, up, tick, now, completed, covered>>

Delivered(a) ==
  /\ att[a].at = "delivering" /\ Alive(a)
  /\ Became(a, "posted") /\ fence' = Nobody
  /\ UNCHANGED <<job, up, tick, now, completed, sent, covered>>

\* A run whose answer is silent or suppressed.
NothingToSay(a) ==
  /\ att[a].at = "saved" /\ Alive(a)
  /\ Became(a, "posted")
  /\ UNCHANGED <<job, up, tick, fence, now, completed, sent, covered>>

Closes(a) ==
  /\ att[a].at = "posted" /\ Alive(a)
  /\ IfMine(a, "closing")
  /\ UNCHANGED <<up, tick, fence, now, completed, sent, covered>>

\* mark_job_run, under the fence and for the owner of the claim only.
Mark(a) ==
  /\ att[a].at = "closing" /\ Alive(a)
  /\ IF Free /\ Mine(a)
     THEN job' = Recorded /\ covered' = now /\ Became(a, "marked")
     ELSE Ended(a) /\ UNCHANGED <<job, covered>>
  /\ UNCHANGED <<up, tick, fence, now, completed, sent>>

\* finish_execution.
Finish(a) ==
  /\ att[a].at = "marked" /\ Alive(a)
  /\ completed' = IF att[a].ok THEN completed \cup ({att[a].inst} \ {0}) ELSE completed
  /\ Ended(a)
  /\ UNCHANGED <<job, up, tick, fence, now, sent, covered>>

(***************************************************************************)
(* Heartbeats, expiry, deaths and users                                    *)
(***************************************************************************)
Beating(a) == att[a].at \notin {"idle", "queued", "won"} /\ Alive(a)

\* heartbeat_fire_claim, every minute while the attempt runs.
Heartbeat(a) ==
  /\ Beating(a) /\ Mine(a) /\ ~job.fire.fresh
  /\ job' = Beaten
  /\ UNCHANGED <<att, up, tick, fence, now, completed, sent, covered>>

FireExpires ==
  /\ job.fire.fresh
  /\ Asleep \/ ~Beating(job.fire.by)
  /\ job' = [job EXCEPT !.fire = Aged(job.fire)]
  /\ UNCHANGED <<att, up, tick, fence, now, completed, sent, covered>>

\* heartbeat_run_claim: the attempt's snapshot names its gateway as the owner; a manual
\* run may have been claimed before there was a run claim, and then keeps none fresh.
RunHeartbeat(a) ==
  /\ Beating(a) /\ job.run.host = att[a].gw /\ ~job.run.fresh
  /\ job' = [job EXCEPT !.run = Refreshed(job.run)]
  /\ UNCHANGED <<att, up, tick, fence, now, completed, sent, covered>>

\* A stamp of a tick outlives the way to the start of its attempt, unless the pool is full.
Waiting(g) == tick.gw = g \/ \E a \in Attempts : att[a].gw = g /\ att[a].at = "queued"

RunExpires ==
  /\ job.run.fresh
  /\ \/ Asleep
     \/ /\ Backlog \/ ~Waiting(job.run.host)
        /\ \A a \in Attempts : att[a].gw = job.run.host => ~Beating(a) \/ att[a].inst = 0
  /\ job' = [job EXCEPT !.run = Aged(job.run)]
  /\ UNCHANGED <<att, up, tick, fence, now, completed, sent, covered>>

SlotExpires ==
  /\ job.slot.fresh
  /\ Backlog \/ ~Waiting(job.slot.host)
  /\ job' = [job EXCEPT !.slot = Aged(job.slot)]
  /\ UNCHANGED <<att, up, tick, fence, now, completed, sent, covered>>

\* What a gateway takes with it: not the workers that have been launched.
InGateway(a, g) == att[a].gw = g /\ (att[a].place = "gateway" \/ att[a].at = "claimed")
Goes(g, lost) ==
  /\ up' = [up EXCEPT ![g] = FALSE]
  /\ att' = [a \in Attempts |-> IF a \in lost THEN Over ELSE att[a]]
  /\ tick' = IF tick.gw = g THEN NoTick ELSE tick
  /\ fence' = IF fence \in lost THEN Nobody ELSE fence

Crash(g) ==
  /\ up[g] /\ g \notin Steady
  /\ \E lost \in SUBSET {a \in Attempts : InGateway(a, g)} :
       /\ \A a \in Attempts : att[a].gw = g /\ att[a].place = "gateway" => a \in lost
       /\ Goes(g, lost)
  /\ UNCHANGED <<job, now, completed, sent, covered>>

\* mark_running_jobs_interrupted, then the exit.
Shutdown(g) ==
  /\ up[g] /\ g \notin Steady /\ Free
  /\ \E a \in Attempts :
       /\ att[a].gw = g /\ att[a].place = "gateway" /\ Beating(a) /\ Mine(a)
       /\ job' = Recorded /\ covered' = now
       /\ Goes(g, {b \in Attempts : InGateway(b, g)})
  /\ UNCHANGED <<now, completed, sent>>

WorkerDies(a) ==
  /\ att[a].place = "worker"
  /\ Ended(a)
  /\ fence' = IF fence = a THEN Nobody ELSE fence
  /\ UNCHANGED <<job, up, tick, now, completed, sent, covered>>

\* remove_job.
Remove ==
  /\ Stored /\ job' = Gone("deleted")
  /\ UNCHANGED <<att, up, tick, fence, now, completed, sent, covered>>

\* rearm_oneshot, for the next instant.  A dispatch of the old instant that is still under
\* way (Hasty) runs the new one at once: the claim does not ask whether a job is due.
Rearm ==
  /\ Stored /\ ~Recurring /\ now < MaxTime
  /\ Hasty \/ \A g \in Gateways : ~Waiting(g)
  /\ ~Live(job.run) /\ ~Live(job.fire)
  /\ job' = [job EXCEPT !.state = "scheduled", !.next = now + 1, !.fire = NoFire, !.run = NoRun,
                        !.done = 0]
  /\ UNCHANGED <<att, up, tick, fence, now, completed, sent, covered>>

\* jobs.json is put back to a copy from before the stamp of an occurrence that has completed
\* since, while nothing runs.
RolledBack(i) == [Recorded EXCEPT !.state = "scheduled", !.next = i, !.done = 0, !.ran = FALSE]

Restore ==
  /\ tick = NoTick /\ \A a \in Attempts : att[a].at = "idle"
  /\ \E i \in completed : i = now /\ job' = RolledBack(i)
  /\ UNCHANGED <<att, up, tick, fence, now, completed, sent, covered>>

\* A tick goes from its scan to its submission within one period, and looks at a record that
\* was put back before the next occurrence: one that is missed meanwhile is skipped as well.
TimePasses ==
  /\ now < MaxTime /\ tick = NoTick /\ ~(Recurring /\ job.next \in completed)
  /\ now' = now + 1
  /\ UNCHANGED <<job, att, up, tick, fence, completed, sent, covered>>

GatewayStep(g) ==
  \/ ScanSkips(g) \/ ScanRecurring(g) \/ ScanRetires(g) \/ ScanOneShot(g)
  \/ Advance(g) \/ Submit(g) \/ SubmitRefused(g)

AttemptStep(a) ==
  \/ Claim(a) \/ ClaimRefused(a) \/ ManualStart(a) \/ Validate(a) \/ Dispatch(a) \/ Returns(a)
  \/ SaveOutput(a) \/ Deliver(a) \/ Delivered(a) \/ Closes(a) \/ Mark(a) \/ Finish(a)

Mishap(a) ==
  LaunchFails(a) \/ LedgerRefuses(a) \/ Cancelled(a) \/ Raises(a) \/ NothingToSay(a) \/ WorkerDies(a)

Next ==
  \/ \E g \in Gateways : GatewayStep(g) \/ SubmitFails(g) \/ ManualClaim(g) \/ Crash(g) \/ Shutdown(g)
  \/ \E a \in Attempts : AttemptStep(a) \/ Mishap(a) \/ Heartbeat(a) \/ RunHeartbeat(a)
  \/ FireExpires \/ RunExpires \/ SlotExpires \/ Remove \/ Rearm \/ Restore \/ TimePasses

Spec == Init /\ [][Next]_vars

\* A gateway keeps ticking while it is up, attempts that are alive go on, and stamps age.
FairSpec ==
  /\ Spec
  /\ \A g \in Gateways : WF_vars(GatewayStep(g))
  /\ \A a \in Attempts : WF_vars(AttemptStep(a))
  /\ WF_vars(SlotExpires) /\ WF_vars(FireExpires)

(***************************************************************************)
(* Properties                                                              *)
(***************************************************************************)
\* Who holds what: a delivering attempt and the fence name each other, a claim or a tick
\* belongs to a process that is there, a record that is gone carries no claim, and the
\* stamp of a run claim stays young as long as its gateway has anything to run.
Serving(g) == tick.gw = g \/ \E a \in Attempts : att[a].gw = g /\ att[a].at # "idle" /\ att[a].inst # 0
FenceHeld == \A a \in Attempts : att[a].at = "delivering" <=> fence = a
Hosted ==
  /\ \A a \in Attempts : att[a].at # "idle" => att[a].gw \in Gateways /\ Alive(a)
  /\ \A a \in Attempts : att[a].at = "won" => att[a].inst = 0
Ticking == tick.gw # Nobody => up[tick.gw]
ClaimsCleared == (~Stored => job.fire = NoFire) /\ (~Stored \/ Recurring => job.run = NoRun)
RunKept ==
  ~Asleep /\ ~Backlog /\ job.run.host \in Gateways /\ Serving(job.run.host) => job.run.fresh

\* Fenced: while an attempt delivers, it holds the fence, and the fire claim of the
\* job is its own unless a user took the job away; no other run can claim it
\* (claim_job_for_fire and fire_claim_fence exclude each other).
FencedDelivery ==
  \A a \in Attempts : att[a].at = "delivering" =>
    fence = a /\ job.fire.by \in {a, Nobody}

\* Nothing is ahead of its time: an instant is dispatched when it has come, claimed at or
\* after it, and completed after its claim.
Runs(a) == att[a].at \notin {"idle", "queued", "won"}
Dated ==
  /\ covered <= now
  /\ tick.at # "none" => tick.gw \in Gateways /\ tick.inst <= now
  /\ \A i \in completed : i <= covered
  /\ \A a \in Attempts :
       /\ att[a].at # "idle" => att[a].inst <= now
       /\ Runs(a) => att[a].inst <= covered
       /\ att[a].at = "queued" => att[a].place = "gateway"
  /\ \A i \in 1 .. MaxTime : sent[i] = 0 \/ i <= covered

\* What a recurring job is due for next, or would be due for once its pending slot is
\* restored, lies beyond everything that was claimed; only a record that was put back names
\* a completed instant, the present one.
Slotted == job.slot # NoSlot
Ahead ==
  /\ Slotted => Recurring /\ Scheduled /\ job.slot.host \in Gateways
  /\ Recurring /\ Scheduled =>
       /\ job.next \in completed => job.next = now
       /\ Slotted => job.slot.inst \notin completed
       /\ tick.at = "due" => Slotted \/ covered = now
       /\ \A a \in Attempts : Runs(a) /\ att[a].inst # 0 =>
            att[a].inst < job.next /\ (Slotted => att[a].inst < job.slot.inst)

\* A recurring job: as long as no slot expires under a dispatch that waits (Backlog), every
\* attempt and the tick have an instant of their own, before the next one that is due, and
\* it is unsent until they send it; what waits for the instant of the slot belongs to the
\* gateway that stamped it.
OfInstant(a) == att[a].at # "idle" /\ att[a].inst # 0
Unsent == {"queued", "claimed", "valid", "started", "ran", "saved"}
NotSent(i) == \A j \in 1 .. MaxTime : j = i => sent[j] = 0
Stamped(a) ==
  att[a].at = "queued" /\ att[a].gw = job.slot.host /\ att[a].inst = job.slot.inst

SlotYoung == Slotted /\ Waiting(job.slot.host) => job.slot.fresh
UnsentInHand ==
  \A a \in Attempts : OfInstant(a) /\ att[a].at \in Unsent => NotSent(att[a].inst)
Distinct ==
  \A a, b \in Attempts : OfInstant(a) /\ OfInstant(b) /\ a # b => att[a].inst # att[b].inst
TickIsNew ==
  tick.at # "none" =>
    /\ NotSent(tick.inst)
    /\ \A a \in Attempts : OfInstant(a) => att[a].inst # tick.inst
InOrder ==
  Scheduled =>
    /\ \A a \in Attempts : OfInstant(a) =>
         att[a].inst < job.next /\ (Slotted => att[a].inst < job.slot.inst \/ Stamped(a))
    /\ tick.at # "none" /\ Slotted => job.slot.inst = tick.inst /\ job.slot.host = tick.gw
    /\ tick.at = "advanced" => tick.inst < job.next
FutureUnsent ==
  Scheduled =>
    \A i \in 1 .. MaxTime :
      job.next <= i \/ (Slotted /\ job.slot.inst <= i) => sent[i] = 0 \/ i \in completed
OncePerInstant ==
  ~Backlog /\ Recurring =>
    SlotYoung /\ UnsentInHand /\ Distinct /\ TickIsNew /\ InOrder /\ FutureUnsent

\* A one-shot: as long as nobody rearms it over a dispatch that waits (Hasty), what waits is
\* for the instant it is armed for, and the run that owns the claim has spent the budget of
\* that instant before it sends.
BudgetSpent == job.state = "completed" => job.done = 1
Armed ==
  Scheduled =>
    /\ tick.at # "none" => tick.inst = job.next
    /\ \A a \in Attempts :
         /\ att[a].at = "queued" => att[a].inst = job.next
         /\ att[a].at = "marked" /\ att[a].inst # 0 => att[a].inst < job.next
Unspent == Scheduled /\ job.done = 0 => job.next \in completed \/ NotSent(job.next)
OwnerSpends ==
  \A a \in Attempts : Mine(a) /\ Runs(a) /\ att[a].inst # 0 =>
    /\ Scheduled => att[a].inst = job.next /\ job.next \notin completed
    /\ att[a].at \in {"started", "ran", "saved"} => job.done = 1 /\ NotSent(att[a].inst)
OncePerArming ==
  ~Hasty /\ ~Recurring => BudgetSpent /\ Armed /\ Unspent /\ OwnerSpends

\* The inductive invariant.
Inv ==
  /\ TypeOK /\ FenceHeld /\ FencedDelivery /\ Hosted /\ Ticking /\ ClaimsCleared /\ RunKept
  /\ Dated /\ Ahead /\ OncePerInstant /\ OncePerArming

\* An occurrence reaches its recipient at most once, as a result or as a failure
\* notice, over crashes, restarts, takeovers and workers that outlive their gateway.
SentOnce == \A i \in 1 .. MaxTime : sent[i] <= 1

\* Nothing is lost on the way from the schedule to a run: the schedule of a recurring
\* job has moved past an instant only when a run was claimed or recorded since, or
\* the pending slot or the execution ledger still names it.
PassedIsCovered ==
  Recurring /\ Scheduled /\ job.slot = NoSlot =>
    job.next <= covered + 1 \/ job.next - 1 \in completed

\* An occurrence that was taken off the schedule is claimed or given up for a later one, also
\* when the gateway that took it died before its attempt started, as long as submissions
\* do not fail for ever (unclaimed_pending_slot, _restore_unclaimed_slot).
PendingIsClaimed ==
  <>[][\A g \in Gateways : ~SubmitFails(g)]_vars => (job.slot # NoSlot ~> job.slot = NoSlot)

\* A due scan removes the record of a one-shot as wedged only when its run is over, not
\* while it goes on: slow is not stale (_oneshot_dispatch_limit_reached, the run claim).
Dropped(a) ==
  /\ job'.state = "retired" /\ att' = att
  /\ Mine(a) /\ Beating(a) /\ att[a].inst # 0 /\ job.run.host = att[a].gw
SlowIsNotStale == [][\A a \in Attempts : att[a].place = "gateway" => ~Dropped(a)]_vars

\* "neither another process's tick nor this process's own next tick will re-dispatch or
\* stale-remove the job while the run is in flight" (cron/jobs.py, heartbeat_run_claim),
\* of a run in a worker process that outlives its gateway.
WorkerNotDropped == [][\A a \in Attempts : att[a].place = "worker" => ~Dropped(a)]_vars
=============================================================================
