---------------------------- MODULE KanbanBoard ----------------------------
(***************************************************************************)
(* The kanban board (xiuqo_cli/kanban_db.py), its dispatcher               *)
(* (kanban_db_dispatch.py) and the dashboard's drag-and-drop               *)
(* (plugins/kanban/dashboard/plugin_api.py): tasks with parents move       *)
(* through their lifecycle under three kinds of actor that share a SQLite  *)
(* database: the dispatcher's tick (one at a time, under the board's       *)
(* lock), the worker processes it spawns, and operators.  Every write      *)
(* transaction is one action; what a caller read or killed before it is    *)
(* an earlier one.                                                         *)
(***************************************************************************)
EXTENDS Integers, FiniteSets

CONSTANTS
  Tasks,           \* the cards
  Parents,         \* [Tasks -> SUBSET Tasks], the dependency links
  Spawnable,       \* cards assigned to a profile the dispatcher can spawn
  Pullable,        \* cards somebody claims by hand (xiuqo kanban claim)
  Timeboxed,       \* cards with max_runtime_seconds
  Stubborn,        \* cards whose workers may survive SIGTERM and SIGKILL
  Verbs,           \* [Tasks -> what operators do to the card]
  FailureLimit,    \* kanban.failure_limit
  DefaultLimit,    \* DEFAULT_FAILURE_LIMIT
  ViolationLimit,  \* _PROTOCOL_VIOLATION_FAILURE_LIMIT
  MaxRuns,         \* bound: attempts opened on the board
  Nobody           \* no claim lock

RunIds == 1..MaxRuns
NoRun == 0
Lanes == {"ready", "review"}
Statuses == Lanes \cup {"triage", "todo", "running", "blocked", "scheduled", "done", "archived"}
Exits == {"crashed", "clean", "limited"}
Locks == {"dispatcher", "puller"}
AllVerbs == {"complete", "block", "schedule", "unblock", "review", "changes", "promote",
             "reclaim", "archive", "specify", "to_ready", "to_todo", "to_triage"}

ASSUME BoardAssumption ==
  /\ Parents \in [Tasks -> SUBSET Tasks]
  /\ Spawnable \subseteq Tasks /\ Pullable \subseteq Tasks
  /\ Timeboxed \subseteq Tasks /\ Stubborn \subseteq Tasks
  /\ Verbs \in [Tasks -> SUBSET AllVerbs]
  /\ FailureLimit \in Nat \ {0} /\ DefaultLimit \in Nat \ {0}
  /\ ViolationLimit \in Nat \ {0} /\ MaxRuns \in Nat
  /\ Nobody \notin Locks \cup Tasks

VARIABLES
  status,  \* tasks.status
  claim,   \* claim_lock, claim_expires (lapsed), worker_pid, current_run_id
  book,    \* the counters, and what the newest events of a card say
  runs,    \* task_runs, and the worker process of each
  tick,    \* where the dispatcher's tick is, and what it read
  op,      \* the operator's call between its read and its write
  past     \* history: the phase a card is in, and for whom it waits

vars == <<status, claim, book, runs, tick, op, past>>

(***************************************************************************)
(* worker_pid is the run whose process it names.  A process is live while  *)
(* it works on its run, astray once it handed the card off, was never      *)
(* recorded, or had the card taken from it by an operator: it may still    *)
(* run, and nothing tracks it.                                             *)
(***************************************************************************)
Unclaimed == [lock |-> Nobody, lapsed |-> FALSE, pid |-> NoRun, run |-> NoRun]
Unopened == [task |-> Nobody, src |-> "ready", open |-> FALSE, proc |-> "none"]
AtRest == [pc |-> "sweep", why |-> "none", task |-> Nobody, run |-> NoRun, lock |-> Nobody,
           survived |-> FALSE, dead |-> {}]
NoCall == [verb |-> "none", task |-> Nobody, lock |-> Nobody]

Init ==
  /\ status = [t \in Tasks |-> IF Parents[t] = {} THEN "ready" ELSE "todo"]
  /\ claim = [t \in Tasks |-> Unclaimed]
  /\ book = [t \in Tasks |-> [failures |-> 0, streak |-> 0, sticky |-> FALSE, resume |-> "ready",
                              cause |-> "none"]]
  /\ runs = [r \in RunIds |-> Unopened]
  /\ tick = AtRest
  /\ op = NoCall
  /\ past = [t \in Tasks |-> [phase |-> "work", held |-> "no", crossed |-> FALSE]]

-----------------------------------------------------------------------------
(* Reading the board *)

Terminal == {"done", "archived"}
Satisfied(t) == \A p \in Parents[t] : status[p] \in Terminal
Landing(t) == IF Satisfied(t) THEN "ready" ELSE "todo"

Children(t) == {c \in Tasks : t \in Parents[c]}
\* The descendants of a card: the least set with its children and theirs.
Descendants ==
  [t \in Tasks |-> {d \in Tasks : \A S \in SUBSET Tasks :
     (Children(t) \subseteq S /\ \A x \in S : Children(x) \subseteq S) => d \in S}]

Alive(r) == r # NoRun /\ runs[r].proc \in {"live", "astray"}
\* _retry_status_for_run: the lane the current run was claimed from.
Retry(t) == IF claim[t].run # NoRun THEN runs[claim[t].run].src ELSE "ready"

\* Closing a run: what becomes of a process the closer does not kill.  A process that is
\* dead is forgotten with its run, unless the tick has yet to record it.
Shut(r, proc) ==
  [task |-> runs[r].task, src |-> "ready", open |-> FALSE,
   proc |-> IF runs[r].proc = "live" THEN proc
            ELSE IF runs[r].proc \in Exits /\ tick.run # r THEN "none" ELSE runs[r].proc]
Closed(t, proc) == [r \in RunIds |-> IF r = claim[t].run THEN Shut(r, proc) ELSE runs[r]]
\* Closed runs other than protocol violations and quota walls end the streak.
Notes(t) == IF claim[t].run = NoRun /\ book[t].streak > 0 THEN BOOLEAN ELSE {FALSE}
StreakAfter(t, noted) == IF claim[t].run # NoRun \/ noted THEN 0 ELSE book[t].streak

\* Mutant of Recomputed: the failure limit is not looked at.
RecomputedUnlimited(s, b, limit) ==
  [t \in Tasks |->
     IF /\ \/ s[t] = "todo"
           \/ s[t] = "blocked" /\ ~b[t].sticky
        /\ \A p \in Parents[t] : s[p] \in Terminal
       THEN b[t].resume ELSE s[t]]
\* recompute_ready over the rows s with the counters b, and the limit it was given.
Recomputed(s, b, limit) ==
  [t \in Tasks |->
     IF /\ \/ s[t] = "todo"
           \/ s[t] = "blocked" /\ ~b[t].sticky /\ b[t].failures < limit
        /\ \A p \in Parents[t] : s[p] \in Terminal
       THEN b[t].resume ELSE s[t]]

Set(t, s) == [status EXCEPT ![t] = s]
Booked(t, failures, streak, resume) ==
  [book EXCEPT ![t].failures = failures, ![t].streak = streak, ![t].resume = resume]
Freed(t) == [claim EXCEPT ![t] = Unclaimed]
\* An operator, or the worker itself, decided what happens to the card.
Decided(t, phase) == [past EXCEPT ![t].phase = phase, ![t].held = "no"]

-----------------------------------------------------------------------------
(* Claims: the dispatcher's lanes, and a claim by hand *)

Fresh == {r \in RunIds : runs[r].task = Nobody /\ \A q \in 1..(r - 1) : runs[q].task # Nobody}

\* _claim_and_open_run; worker_pid keeps what it held.  The ready lane closes a leaked run.
Open(t, r, who) ==
  /\ status' = Set(t, "running")
  /\ claim' = [claim EXCEPT ![t].lock = who, ![t].lapsed = FALSE, ![t].run = r]
  /\ runs' = [x \in RunIds |->
       IF x = r THEN [task |-> t, src |-> status[t], open |-> TRUE, proc |-> "none"]
       ELSE IF x = claim[t].run /\ status[t] = "ready" THEN [runs[x] EXCEPT !.open = FALSE]
       ELSE runs[x]]

\* A claim re-checks the parents and sends the card back to wait for them.
Demote(t) ==
  /\ ~Satisfied(t)
  /\ status' = Set(t, "todo")
  /\ book' = IF status[t] = "review" THEN [book EXCEPT ![t].resume = "review"] ELSE book
  /\ UNCHANGED <<claim, runs, past>>

Claim(t) ==
  /\ tick.pc = "lanes" /\ t \in Spawnable
  /\ status[t] \in Lanes /\ claim[t].lock = Nobody
  /\ \/ Demote(t) /\ UNCHANGED tick
     \/ /\ Satisfied(t)
        /\ \E r \in Fresh :
             /\ Open(t, r, "dispatcher")
             /\ tick' = [tick EXCEPT !.pc = "claimed", !.task = t, !.run = r]
        /\ UNCHANGED <<book, past>>
  /\ UNCHANGED op

\* claim_task by hand.  On a card that still carries a lock only the leaked run is closed.
Pull(t) ==
  /\ t \in Pullable /\ status[t] = "ready"
  /\ \/ Demote(t)
     \/ /\ Satisfied(t)
        /\ IF claim[t].lock = Nobody
             THEN \E r \in Fresh : Open(t, r, "puller")
             ELSE /\ claim[t].run # NoRun
                  /\ runs' = [runs EXCEPT ![claim[t].run].open = FALSE]
                  /\ UNCHANGED <<status, claim>>
        /\ UNCHANGED <<book, past>>
  /\ UNCHANGED <<tick, op>>

-----------------------------------------------------------------------------
(* The tick: reclaim phase, promotion, spawns *)

\* A worker with the pid; the process it names dies, or survives the kill.
Killed(rs, pid, survived) ==
  IF pid # NoRun /\ rs[pid].proc \in {"live", "astray"} /\ ~survived
    THEN [rs EXCEPT ![pid].proc = "crashed"] ELSE rs
Outcomes(t) == IF t \in Stubborn /\ Alive(claim[t].pid) THEN BOOLEAN ELSE {FALSE}

\* The claim outlived its TTL: the time passes.
Lapse(t) ==
  /\ status[t] = "running" /\ ~claim[t].lapsed
  /\ claim' = [claim EXCEPT ![t].lapsed = TRUE]
  /\ UNCHANGED <<status, book, runs, tick, op, past>>

\* release_stale_claims: the worker lives and was heard of.
ExtendClaim(t) ==
  /\ tick.pc = "sweep" /\ status[t] = "running"
  /\ claim[t].lapsed /\ Alive(claim[t].pid)
  /\ claim' = [claim EXCEPT ![t].lapsed = FALSE]
  /\ UNCHANGED <<status, book, runs, tick, op, past>>

\* The sweeps read the row and kill the worker before they write: a lapsed claim whose
\* worker is gone or silent for an hour, a run without a heartbeat, one over its time.
Sweeps(t, why) ==
  \/ tick.pc = "sweep" /\ why = "expired" /\ claim[t].lapsed
  \/ tick.pc = "sweep" /\ why = "silent"
  \/ tick.pc = "account" /\ tick.dead = {} /\ why = "overtime" /\ t \in Timeboxed /\ claim[t].pid # NoRun

Kill(t, why) ==
  /\ status[t] = "running" /\ Sweeps(t, why)
  /\ \E survived \in Outcomes(t) :
       /\ runs' = Killed(runs, claim[t].pid, survived)
       /\ tick' = [tick EXCEPT !.pc = "kill", !.why = why, !.task = t, !.run = claim[t].pid,
                               !.lock = claim[t].lock, !.survived = survived]
  /\ UNCHANGED <<status, claim, book, op, past>>

\* The row is still the one the sweep read.
Unmoved ==
  /\ status[tick.task] = "running" /\ claim[tick.task].lock = tick.lock
  /\ tick.why = "expired" /\ ~tick.survived => claim[tick.task].lapsed
  /\ tick.why = "overtime" => claim[tick.task].pid = tick.run
\* Mutant of Defers: the claim is released whether or not the worker died.
DefersNever == FALSE
Defers == tick.survived /\ tick.why # "overtime"

\* Mutant of Requeue: the run is left open.
RequeueLeavingRun(t, proc) ==
  /\ status' = Set(t, Retry(t))
  /\ claim' = Freed(t)
  /\ runs' = [r \in RunIds |-> IF r = claim[t].run THEN [Shut(r, proc) EXCEPT !.open = TRUE] ELSE runs[r]]
  /\ book' = Booked(t, book[t].failures, 0, Retry(t))
\* Mutant of Requeue: a released card always goes back to work.
RequeueToReady(t, proc) ==
  /\ status' = Set(t, "ready")
  /\ claim' = Freed(t)
  /\ runs' = Closed(t, proc)
  /\ book' = Booked(t, book[t].failures, 0, "ready")
\* Back to the lane the run was claimed from, without counting a failure.
Requeue(t, proc) ==
  /\ status' = Set(t, Retry(t))
  /\ claim' = Freed(t)
  /\ runs' = Closed(t, proc)
  /\ book' = Booked(t, book[t].failures, 0, Retry(t))

\* An enforced maximum runtime gives the claim up whether or not the worker died.
ReleaseMode == IF tick.run = claim[tick.task].run /\ tick.why # "overtime" THEN "live" ELSE "astray"
Release ==
  /\ tick.pc = "kill"
  /\ LET t == tick.task IN
       \/ /\ Unmoved /\ Defers
          /\ claim' = [claim EXCEPT ![t].lapsed = FALSE]
          /\ UNCHANGED <<status, book, runs>>
       \/ Unmoved /\ ~Defers /\ Requeue(t, ReleaseMode)
       \/ ~Unmoved /\ UNCHANGED <<status, claim, book, runs>>
  /\ tick' = IF tick.why = "overtime"
               THEN [AtRest EXCEPT !.pc = "account",
                       !.dead = IF Unmoved THEN {[task |-> tick.task, violation |-> FALSE]} ELSE {}]
               ELSE AtRest
  /\ UNCHANGED <<op, past>>

\* _reclaim_dead_workers: one transaction over every card whose worker is dead.
Dead == {t \in Tasks : status[t] = "running" /\ claim[t].pid # NoRun /\ ~Alive(claim[t].pid)}
Exit(t) == runs[claim[t].pid].proc
CrashSweep ==
  /\ tick.pc = "sweep"
  /\ status' = [t \in Tasks |-> IF t \in Dead THEN Retry(t) ELSE status[t]]
  /\ claim' = [t \in Tasks |-> IF t \in Dead THEN Unclaimed ELSE claim[t]]
  /\ runs' = [r \in RunIds |->
       IF \E t \in Dead : claim[t].run = r THEN Shut(r, "astray") ELSE runs[r]]
  /\ book' = [t \in Tasks |->
       IF t \notin Dead THEN book[t]
       ELSE CASE Exit(t) = "clean" -> [book[t] EXCEPT !.streak = @ + 1]
              [] Exit(t) = "limited" -> [book[t] EXCEPT !.resume = Retry(t)]
              [] OTHER -> [book[t] EXCEPT !.streak = 0, !.resume = Retry(t)]]
  /\ tick' = [AtRest EXCEPT !.pc = "account",
       !.dead = {[task |-> t, violation |-> Exit(t) = "clean"] : t \in {u \in Dead : Exit(u) # "limited"}}]
  /\ UNCHANGED <<op, past>>

\* _record_task_failure after a crash or a timeout: the row may have moved since it was
\* released, to a claim by hand too, which a trip then blocks with its lock in place.
Trippable(t) == status[t] \in {"running", "ready", "review"}
Reason(failures, limit) == IF failures >= limit THEN "budget" ELSE "streak"
Trip(t, limit) ==
  LET lane == IF status[t] = "review" THEN "review" ELSE "ready"
      failures == book[t].failures + 1 IN
  IF Trippable(t)
    THEN /\ status' = Set(t, "blocked")
         /\ book' = Booked(t, failures, book[t].streak, lane)
         /\ past' = [past EXCEPT ![t].held = Reason(failures, limit),
                                 ![t].crossed = @ \/ status[t] = "running"]
    ELSE /\ book' = [book EXCEPT ![t].resume = lane]
         /\ past' = [past EXCEPT ![t].crossed = TRUE]
         /\ UNCHANGED status

Account(d) ==
  /\ tick.pc = "account" /\ d \in tick.dead
  /\ LET t == d.task IN
       IF d.violation
         THEN IF book[t].streak < ViolationLimit
                THEN UNCHANGED <<status, book, past>>
                ELSE Trip(t, DefaultLimit)
         ELSE IF book[t].failures + 1 < DefaultLimit
                THEN /\ book' = [book EXCEPT ![t].failures = @ + 1]
                     /\ UNCHANGED <<status, past>>
                ELSE Trip(t, DefaultLimit)
  /\ tick' = [tick EXCEPT !.dead = @ \ {d}]
  /\ UNCHANGED <<claim, runs, op>>

Promote ==
  /\ tick.pc = "account" /\ tick.dead = {}
  /\ status' = Recomputed(status, book, FailureLimit)
  /\ tick' = [AtRest EXCEPT !.pc = "lanes"]
  /\ UNCHANGED <<claim, book, runs, op, past>>

\* The worker starts, for the run the tick claimed, whatever became of the run.
Spawn ==
  /\ tick.pc = "claimed"
  /\ runs' = [runs EXCEPT ![tick.run].proc = IF runs[tick.run].open THEN "live" ELSE "astray"]
  /\ tick' = [tick EXCEPT !.pc = "spawned"]
  /\ UNCHANGED <<status, claim, book, op, past>>

\* _set_worker_pid writes to the row, whatever run the row is on now.
RecordPid ==
  /\ tick.pc = "spawned"
  /\ claim' = [claim EXCEPT ![tick.task].pid = tick.run]
  /\ tick' = [AtRest EXCEPT !.pc = "lanes"]
  /\ UNCHANGED <<status, book, runs, op, past>>

\* _record_task_failure of a spawn: the workspace or the process could not be had, or the
\* pid could not be written and the worker that did start is left to itself.
SpawnFailed ==
  /\ tick.pc \in {"claimed", "spawned"}
  /\ LET t == tick.task
         lane == Retry(t)
         failures == book[t].failures + 1
         trips == failures >= FailureLimit
         moves == IF trips THEN Trippable(t) ELSE status[t] = "running" IN
       /\ status' = IF moves THEN Set(t, IF trips THEN "blocked" ELSE lane) ELSE status
       /\ claim' = IF moves THEN Freed(t) ELSE [claim EXCEPT ![t].run = NoRun]
       /\ runs' = Closed(t, "astray")
       /\ book' = Booked(t, IF moves THEN failures ELSE book[t].failures, StreakAfter(t, FALSE), lane)
       /\ past' = [past EXCEPT ![t].held = IF moves /\ trips THEN "budget" ELSE @,
                               ![t].crossed = @ \/ status[t] # "running" \/ claim[t].run # tick.run]
  /\ tick' = [AtRest EXCEPT !.pc = "lanes"]
  /\ UNCHANGED op

EndTick ==
  /\ tick.pc = "lanes"
  /\ tick' = AtRest
  /\ UNCHANGED <<status, claim, book, runs, op, past>>

\* The dispatcher's process dies; the next one starts with nothing but the database.
TickDies ==
  /\ tick.pc # "sweep"
  /\ tick' = AtRest
  /\ UNCHANGED <<status, claim, book, runs, op, past>>

-----------------------------------------------------------------------------
(* What workers and operators do to a card: t, and whether a summary makes *)
(* a closed run of a call that has none to close (noted).                   *)

Active(t) == status[t] \in {"running", "ready"}

\* complete_task, with its clearing of the counter and its recompute_ready.
Complete(t, noted) ==
  /\ Satisfied(t)
  /\ status[t] \in {"running", "ready", "blocked", "review"}
  /\ book' = [Booked(t, 0, StreakAfter(t, noted), book[t].resume)
                EXCEPT ![t].cause = "none"]
  /\ status' = Recomputed(Set(t, "done"), book', DefaultLimit)
  /\ claim' = Freed(t)
  /\ runs' = Closed(t, "astray")
  /\ past' = Decided(t, "work")

\* block_task and _route_block: a dependency waits in todo; the second block for one cause
\* (BLOCK_RECURRENCE_LIMIT = 2) goes to triage; any other waits for an operator.  cause is
\* the stored block_kind when it has a recurrence to its count.
Block(t, kind, noted) ==
  LET source == IF status[t] = "running" THEN Retry(t) ELSE "ready"
      to == IF kind = "dependency" THEN "todo"
            ELSE IF kind = book[t].cause THEN "triage" ELSE "blocked" IN
  /\ Active(t)
  /\ status' = Set(t, to)
  /\ claim' = Freed(t)
  /\ runs' = Closed(t, "astray")
  /\ book' = [Booked(t, book[t].failures, StreakAfter(t, noted), source)
                EXCEPT ![t].cause = IF kind = "dependency" THEN "none" ELSE kind,
                       ![t].sticky = @ \/ to = "blocked"]
  /\ past' = IF to = "todo" THEN past ELSE [past EXCEPT ![t].held = "asked"]

RequestReview(t, noted) ==
  /\ Satisfied(t) /\ Active(t)
  /\ status' = Set(t, "review")
  /\ claim' = Freed(t)
  /\ runs' = Closed(t, "astray")
  /\ book' = [book EXCEPT ![t].streak = StreakAfter(t, noted)]
  /\ past' = Decided(t, "review")

RequestChanges(t) ==
  /\ status[t] = "running" /\ Retry(t) = "review"
  /\ status' = Set(t, Landing(t))
  /\ claim' = Freed(t)
  /\ runs' = Closed(t, "astray")
  /\ book' = Booked(t, book[t].failures, 0, "ready")
  /\ past' = Decided(t, "work")

-----------------------------------------------------------------------------
(* Workers: their calls carry the run they were spawned for *)

Works(r) == runs[r].proc = "live" /\ claim[runs[r].task].run = r
Kinds == {"untyped", "dependency"}

WorkerCompletes(r) == Works(r) /\ Complete(runs[r].task, TRUE) /\ UNCHANGED <<tick, op>>
WorkerBlocks(r) == Works(r) /\ (\E k \in Kinds : Block(runs[r].task, k, TRUE)) /\ UNCHANGED <<tick, op>>
WorkerAsksReview(r) == Works(r) /\ RequestReview(runs[r].task, TRUE) /\ UNCHANGED <<tick, op>>
WorkerAsksChanges(r) == Works(r) /\ RequestChanges(runs[r].task) /\ UNCHANGED <<tick, op>>

\* heartbeat_claim knows the claim by its lock, which names the dispatcher and not the run.
Heartbeat(r) ==
  /\ Alive(r)
  /\ LET t == runs[r].task IN
       /\ status[t] = "running" /\ claim[t].lock = "dispatcher" /\ claim[t].lapsed
       /\ claim' = [claim EXCEPT ![t].lapsed = FALSE]
  /\ UNCHANGED <<status, book, runs, tick, op, past>>

\* The process of a worker ends.  An end nobody can look at makes no difference.
Watched(r) == runs[r].proc = "live" \/ tick.run = r \/ \E t \in Tasks : claim[t].pid = r
WorkerExits(r) ==
  /\ Alive(r) /\ Watched(r)
  /\ \E how \in Exits : runs' = [runs EXCEPT ![r].proc = how]
  /\ UNCHANGED <<status, claim, book, tick, op, past>>

-----------------------------------------------------------------------------
(* Operators *)

May(t, verb) == verb \in Verbs[t]
Aside == UNCHANGED <<tick, op>>

Completed(t) == May(t, "complete") /\ (\E n \in Notes(t) : Complete(t, n)) /\ Aside
Blocked(t) == May(t, "block") /\ (\E k \in Kinds, n \in Notes(t) : Block(t, k, n)) /\ Aside
ReviewForced(t) == May(t, "review") /\ (\E n \in Notes(t) : RequestReview(t, n)) /\ Aside
ChangesAsked(t) == May(t, "changes") /\ RequestChanges(t) /\ Aside

Schedule(t) ==
  /\ May(t, "schedule")
  /\ status[t] \in {"todo", "ready", "running", "blocked"}
  /\ status' = Set(t, "scheduled")
  /\ claim' = Freed(t)
  /\ runs' = Closed(t, "astray")
  /\ \E noted \in Notes(t) : book' = [book EXCEPT ![t].streak = StreakAfter(t, noted)]
  /\ past' = Decided(t, "work")
  /\ Aside

\* unblock_task: a leaked run is closed, the lock and the pid stay as they are.
Unblock(t) ==
  LET resume == IF status[t] = "blocked" THEN book[t].resume ELSE "ready" IN
  /\ status[t] \in {"blocked", "scheduled"}
  /\ status' = Set(t, IF Landing(t) = "ready" THEN resume ELSE "todo")
  /\ claim' = [claim EXCEPT ![t].run = NoRun]
  /\ runs' = Closed(t, "astray")
  /\ book' = [Booked(t, 0, StreakAfter(t, FALSE), resume) EXCEPT ![t].sticky = FALSE]
  /\ past' = [past EXCEPT ![t].held = "no"]
Unblocked(t) == May(t, "unblock") /\ Unblock(t) /\ Aside

ReopenReview(t) ==
  /\ status[t] = "review"
  /\ status' = Set(t, Landing(t))
  /\ claim' = Freed(t)
  /\ runs' = Closed(t, "astray")
  /\ book' = Booked(t, book[t].failures, StreakAfter(t, FALSE), "ready")
  /\ past' = Decided(t, "work")

\* promote_task checks, and then writes in a transaction of its own.
PromoteCheck(t) ==
  /\ May(t, "promote") /\ op = NoCall
  /\ status[t] \in {"todo", "blocked"} /\ Satisfied(t)
  /\ op' = [NoCall EXCEPT !.verb = "promote", !.task = t]
  /\ UNCHANGED <<status, claim, book, runs, tick, past>>
PromoteWrite ==
  /\ op.verb = "promote"
  /\ LET t == op.task IN
       IF status[t] \in {"todo", "blocked"}
         THEN status' = Set(t, "ready") /\ past' = Decided(t, "work")
         ELSE UNCHANGED <<status, past>>
  /\ op' = NoCall
  /\ UNCHANGED <<claim, book, runs, tick>>

\* reclaim_task reads the claim and kills its worker, then writes if the lock is still the same.
ReclaimKill(t) ==
  /\ May(t, "reclaim") /\ op = NoCall
  /\ status[t] = "running" \/ claim[t].lock # Nobody
  /\ \E survived \in Outcomes(t) : runs' = Killed(runs, claim[t].pid, survived)
  /\ op' = [verb |-> "reclaim", task |-> t, lock |-> claim[t].lock]
  /\ UNCHANGED <<status, claim, book, tick, past>>
ReclaimWrite ==
  /\ op.verb = "reclaim"
  /\ LET t == op.task IN
       IF status[t] \in {"running", "ready", "blocked"} /\ claim[t].lock = op.lock
         THEN /\ status' = Set(t, Retry(t))
              /\ claim' = Freed(t)
              /\ runs' = Closed(t, "astray")
              /\ book' = Booked(t, 0, StreakAfter(t, FALSE), Retry(t))
              /\ past' = [past EXCEPT ![t].held = "no"]
         ELSE UNCHANGED <<status, claim, book, runs, past>>
  /\ op' = NoCall
  /\ UNCHANGED tick

\* archive_task, with the kill that follows its commit and its recompute_ready.
Archive(t) ==
  /\ May(t, "archive") /\ status[t] # "archived"
  /\ status' = Recomputed(Set(t, "archived"), book, DefaultLimit)
  /\ claim' = Freed(t)
  /\ \E survived \in Outcomes(t) :
       runs' = Killed(Closed(t, "astray"), IF status[t] = "running" THEN claim[t].pid ELSE NoRun, survived)
  /\ book' = [book EXCEPT ![t].streak = StreakAfter(t, FALSE)]
  /\ past' = Decided(t, "work")
  /\ Aside

\* specify_triage_task, with its recompute_ready.
Specify(t) ==
  /\ May(t, "specify") /\ status[t] = "triage"
  /\ status' = Recomputed(Set(t, "todo"), book, DefaultLimit)
  /\ past' = [past EXCEPT ![t].held = "no"]
  /\ UNCHANGED <<claim, book, runs>>
  /\ Aside

(***************************************************************************)
(* _set_status_direct, with the invalidation of the descendants of a card  *)
(* that was finished, the kills after the commit and recompute_ready.      *)
(***************************************************************************)
Effective(t, to) ==
  IF status[t] = "running" /\ to = "ready" /\ Retry(t) = "review"
    THEN IF Satisfied(t) THEN "review" ELSE "todo" ELSE to
\* Mutant of Invalidated: the children are taken back, and not theirs.
InvalidatedChildren(t) ==
  IF status[t] \notin Terminal THEN {}
  ELSE {d \in Children(t) : status[d] \in {"ready", "review", "running", "done"}}
Invalidated(t) ==
  IF status[t] \notin Terminal THEN {}
  ELSE {d \in Descendants[t] : status[d] \in {"ready", "review", "running", "done"}}
Resumes(d) == IF status[d] = "review" THEN "review" ELSE IF status[d] = "running" THEN Retry(d) ELSE "ready"

SetStatusDirect(t, to) ==
  LET s == Effective(t, to)
      D == Invalidated(t)
      Ended == {u \in D \cup {t} : status[u] = "running"}
      moved == [u \in Tasks |-> IF u \in D THEN "todo" ELSE IF u = t THEN s ELSE status[u]] IN
  /\ s = "ready" => Satisfied(t)
  /\ book' = [u \in Tasks |->
       IF u \in D
         THEN [book[u] EXCEPT !.failures = 0, !.resume = Resumes(u),
                              !.streak = IF u \in Ended THEN 0 ELSE @]
       ELSE IF u = t THEN [book[u] EXCEPT !.resume = "ready", !.streak = IF u \in Ended THEN 0 ELSE @]
       ELSE book[u]]
  /\ status' = IF s \in {"done", "ready", "review"} THEN Recomputed(moved, book', DefaultLimit) ELSE moved
  /\ claim' = [u \in Tasks |->
       IF u \in D \cup Ended THEN Unclaimed
       ELSE IF u = t THEN [Unclaimed EXCEPT !.run = claim[u].run] ELSE claim[u]]
  /\ \E survivors \in SUBSET {u \in Ended : TRUE \in Outcomes(u)} :
       runs' = [r \in RunIds |->
         LET hit == \E u \in Ended \ survivors : claim[u].pid = r
             now == IF \E u \in Ended : claim[u].run = r THEN Shut(r, "astray") ELSE runs[r] IN
         IF hit /\ Alive(r) THEN [now EXCEPT !.proc = "crashed"] ELSE now]
  /\ past' = [u \in Tasks |->
       IF u \in D THEN [past[u] EXCEPT !.held = "no"]
       ELSE IF u = t THEN [past[u] EXCEPT !.held = "no", !.phase = IF s = "review" THEN @ ELSE "work"]
       ELSE past[u]]

Targets(t) == {to \in {"ready", "todo", "triage"} :
                 May(t, CASE to = "ready" -> "to_ready" [] to = "todo" -> "to_todo" [] OTHER -> "to_triage")}
Drag(t) ==
  /\ \E to \in Targets(t) :
       CASE to = "ready" /\ status[t] \in {"blocked", "scheduled"} -> Unblock(t)
         [] to # "triage" /\ status[t] = "review" -> ReopenReview(t)
         [] OTHER -> SetStatusDirect(t, to)
  /\ Aside

-----------------------------------------------------------------------------
TickStep ==
  \/ \E t \in Tasks : Claim(t) \/ ExtendClaim(t)
  \/ \E t \in Tasks, why \in {"expired", "silent", "overtime"} : Kill(t, why)
  \/ \E d \in tick.dead : Account(d)
  \/ Release \/ CrashSweep \/ Promote \/ Spawn \/ RecordPid \/ SpawnFailed \/ EndTick \/ TickDies

WorkerStep ==
  \E r \in RunIds : \/ WorkerCompletes(r) \/ WorkerBlocks(r) \/ WorkerAsksReview(r)
                    \/ WorkerAsksChanges(r) \/ Heartbeat(r) \/ WorkerExits(r)

OperatorStep ==
  \/ \E t \in Tasks : \/ Completed(t) \/ Blocked(t) \/ ReviewForced(t) \/ ChangesAsked(t)
                      \/ Schedule(t) \/ Unblocked(t) \/ PromoteCheck(t) \/ ReclaimKill(t)
                      \/ Archive(t) \/ Specify(t) \/ Drag(t) \/ Pull(t)
  \/ PromoteWrite \/ ReclaimWrite

Next == TickStep \/ WorkerStep \/ OperatorStep \/ \E t \in Tasks : Lapse(t)
Spec == Init /\ [][Next]_vars

-----------------------------------------------------------------------------
StatusOK == status \in [Tasks -> Statuses]
ClaimOK ==
  claim \in [Tasks -> [lock : Locks \cup {Nobody}, lapsed : BOOLEAN,
                       pid : RunIds \cup {NoRun}, run : RunIds \cup {NoRun}]]
BookOK ==
  book \in [Tasks -> [failures : Nat, streak : Nat, sticky : BOOLEAN, resume : Lanes,
                      cause : {"none"} \cup Kinds]]
RunsOK ==
  runs \in [RunIds -> [task : Tasks \cup {Nobody}, src : Lanes, open : BOOLEAN,
                       proc : Exits \cup {"none", "live", "astray"}]]
TickOK ==
  /\ tick \in [pc : {"sweep", "kill", "account", "lanes", "claimed", "spawned"},
               why : {"none", "expired", "silent", "overtime"},
               task : Tasks \cup {Nobody}, run : RunIds \cup {NoRun},
               lock : Locks \cup {Nobody}, survived : BOOLEAN,
               dead : SUBSET [task : Tasks, violation : BOOLEAN]]
  /\ tick.pc \in {"kill", "claimed", "spawned"} => tick.task \in Tasks
  /\ tick.pc \in {"claimed", "spawned"} => tick.run \in RunIds
  /\ tick.dead # {} => tick.pc = "account"
OpOK ==
  /\ op \in [verb : {"none", "promote", "reclaim"}, task : Tasks \cup {Nobody},
             lock : Locks \cup {Nobody}]
  /\ op.verb # "none" => op.task \in Tasks
PastOK ==
  past \in [Tasks -> [phase : {"work", "review"}, held : {"no", "asked", "budget", "streak"},
                      crossed : BOOLEAN]]
\* Every column, counter and event of the board is one the code writes, and a tick or a call
\* between two of its steps knows its card.
TypeOK == StatusOK /\ ClaimOK /\ BookOK /\ RunsOK /\ TickOK /\ OpOK /\ PastOK

\* A running card has a claim and a run, and only it has, unless the dispatcher recorded a
\* failure on a card that had moved on; a run in hand is the card's own; no run is left open
\* once its card lost it (_end_run goes with every release of current_run_id).
Bookkeeping ==
  /\ \A t \in Tasks :
       /\ status[t] = "running" => claim[t].lock # Nobody /\ claim[t].run # NoRun
       /\ status[t] # "running" /\ (claim[t].lock # Nobody \/ claim[t].run # NoRun) => past[t].crossed
  /\ \A t \in Tasks : claim[t].run # NoRun => runs[claim[t].run].task = t
  /\ \A r \in RunIds : runs[r].open =>
       /\ runs[r].task \in Tasks
       /\ claim[runs[r].task].run = r \/ past[runs[r].task].crossed
\* The run a card keeps although it is not running, and the one it got before the failure of
\* its last run was counted, was claimed by hand, so from the ready lane.
HandClaims ==
  /\ \A t \in Tasks : status[t] # "running" /\ claim[t].run # NoRun => Retry(t) = "ready"
  /\ \A d \in tick.dead : status[d.task] = "running" => Retry(d.task) = "ready"
\* A worker the board tracks is on the current run of a running card, and so is the run the
\* tick is about to spawn for, unless it was closed meanwhile.  None is live after a kill it
\* did not survive, nor on a card claimed by hand before its last failure was counted.
Tracked ==
  /\ \A r \in RunIds : runs[r].proc # "none" => runs[r].task \in Tasks
  /\ \A r \in RunIds : runs[r].proc = "live" =>
       status[runs[r].task] = "running" /\ claim[runs[r].task].run = r
  /\ tick.pc \in {"claimed", "spawned"} =>
       /\ runs[tick.run].task = tick.task
       /\ runs[tick.run].open => status[tick.task] = "running" /\ claim[tick.task].run = tick.run
  /\ tick.pc = "kill" /\ ~tick.survived /\ tick.run # NoRun => runs[tick.run].proc # "live"
  /\ \A d \in tick.dead : status[d.task] = "running" => runs[claim[d.task].run].proc # "live"
\* The board's rows agree: columns, claims, runs and processes.
Inv == TypeOK /\ Bookkeeping /\ HandClaims /\ Tracked

\* No card is worked on, under review or finished while a parent is not: the gate of every
\* claim, and the invalidation of all descendants when a finished card is reopened.
ParentsGate ==
  \A t \in Tasks : status[t] \in {"running", "review", "done"} => Satisfied(t)

\* A card that waits for an operator, blocked on request or out of failures, does not come
\* back by itself, whatever ticks, workers and calls on other cards do.
HeldStays ==
  \A t \in Tasks : past[t].held \in {"asked", "budget"} => status[t] \notin {"ready", "review", "running"}

\* A card under review stays under review over crashes, lapsed claims, blocks, unblocks,
\* reclaims and reopened parents, until somebody decides otherwise; a late failure record
\* may overwrite what it resumes to (crossed).
PhaseKept ==
  \A t \in Tasks :
    (status[t] = "ready" \/ (status[t] = "running" /\ runs[claim[t].run].src = "ready"))
      => past[t].phase = "work" \/ past[t].crossed

\* A card never has two tracked workers: no release of a claim lets a second worker start
\* beside one that survived its kill (_defer_reclaim_for_live_worker).
OneWorker ==
  \A t \in Tasks : Cardinality({r \in RunIds : runs[r].task = t /\ runs[r].proc = "live"}) <= 1
=============================================================================
