--------------------------- MODULE CronExecutions ---------------------------
(***************************************************************************)
(* The execution ledger of the cron scheduler (cron/executions.py) and the *)
(* hand-over of a claimed attempt to a restart-safe worker process         *)
(* (cron/scheduler.py, run_one_job and the external worker functions).     *)
(*                                                                         *)
(* A dispatcher, one incarnation of a scheduler process, records an        *)
(* attempt as claimed.  It then runs the job itself, or fences the row for *)
(* a hand-over, spawns a worker and waits for its acknowledgement.  The    *)
(* worker owns the attempt from the moment it adopts the row.  Dispatchers *)
(* and workers die at any point; a surviving dispatcher writes attempts    *)
(* off as unknown when it takes their owner for dead.                      *)
(***************************************************************************)
EXTENDS Naturals, FiniteSets

CONSTANTS
  Executions,   \* attempt ids; the worker spawned for an attempt goes by its id
  Dispatchers,  \* scheduler process incarnations
  Steady,       \* the incarnations that do not crash
  Opaque,       \* processes whose start time other processes cannot read
  Detached,     \* attempts of managed gateways, whose jobs go to workers
  Faulty,       \* attempts in which a step may raise
  None,
  MaxTerminal   \* MAX_TERMINAL_EXECUTIONS

ASSUME ConstantsAssumption ==
  /\ Steady \subseteq Dispatchers /\ Opaque \subseteq Dispatchers \cup Executions
  /\ Detached \subseteq Executions /\ Faulty \subseteq Executions
  /\ Dispatchers \cap Executions = {} /\ None \notin Dispatchers \cup Executions
  /\ MaxTerminal \in Nat

Processes == Dispatchers \cup Executions
Terminal == {"completed", "failed", "unknown"}
Live == {"claimed", "running"}

\* handoff abstracts handoff_pending with the age of handoff_started_at:
\* within the adoption grace ("fresh") or past it ("stale").
Row == [status : {"absent"} \cup Live \cup Terminal, owner : Processes \cup {None},
        handoff : {"no", "fresh", "stale"}, finished : Nat]
NoRow == [status |-> "absent", owner |-> None, handoff |-> "no", finished |-> 0]
NoProbe == [id |-> None, row |-> NoRow]

VARIABLES
  ledger,    \* the executions table
  clock,     \* wall clock behind finished_at
  life,      \* dispatchers: "new", "up" or "dead"
  by,        \* the dispatcher whose thread handles the attempt
  at,        \* where that thread stands
  worker,    \* the worker process of the attempt
  ack,       \* whether its acknowledgement file exists
  probe,     \* the row a recovery has judged abandoned
  fireClaim, \* whether the attempt holds its job's fire claim
  jobStatus, \* what mark_job_run recorded in the job store
  starts,    \* history: how often the job's side effects were started
  cut        \* history: whether a run was cut short between its mark and its finish

store == <<ledger, clock>>
desk == <<by, at>>
job == <<fireClaim, jobStatus>>
history == <<starts, cut>>
vars == <<store, life, desk, worker, ack, probe, job, history>>

TypeOK ==
  /\ ledger \in [Executions -> Row]
  /\ clock \in Nat
  /\ life \in [Dispatchers -> {"new", "up", "dead"}]
  /\ by \in [Executions -> Dispatchers \cup {None}]
  /\ at \in [Executions -> {"none", "created", "fired", "running", "marked", "spawning",
                            "awaiting", "polling", "waiting", "undispatched", "closing", "done",
                            "lost", "gone"}]
  /\ worker \in [Executions ->
       {"none", "spawned", "adopted", "acked", "running", "marked", "closing", "exited"}]
  /\ ack \in [Executions -> BOOLEAN]
  /\ probe \in [Dispatchers -> [id : Executions \cup {None}, row : Row]]
  /\ fireClaim \in [Executions -> BOOLEAN]
  /\ jobStatus \in [Executions -> {"none", "ok", "error", "dispatch_failed"}]
  /\ starts \in [Executions -> Nat]
  /\ cut \in [Executions -> BOOLEAN]

Init ==
  /\ ledger = [e \in Executions |-> NoRow]
  /\ clock = 0
  /\ life = [d \in Dispatchers |-> "new"]
  /\ by = [e \in Executions |-> None]
  /\ at = [e \in Executions |-> "none"]
  /\ worker = [e \in Executions |-> "none"]
  /\ ack = [e \in Executions |-> FALSE]
  /\ probe = [d \in Dispatchers |-> NoProbe]
  /\ fireClaim = [e \in Executions |-> FALSE]
  /\ jobStatus = [e \in Executions |-> "none"]
  /\ starts = [e \in Executions |-> 0]
  /\ cut = [e \in Executions |-> FALSE]

(***************************************************************************)
(* Rows                                                                    *)
(***************************************************************************)
Ended(table) == {e \in Executions : table[e].status \in Terminal}

Excess(table) ==
  {e \in Ended(table) :
     Cardinality({f \in Ended(table) : table[f].finished > table[e].finished}) >= MaxTerminal}

\* _prune_unlocked: the newest MaxTerminal terminal rows stay.
Prune(table) == [e \in Executions |-> IF e \in Excess(table) THEN NoRow ELSE table[e]]

\* The row of an open attempt, as an INSERT or an UPDATE leaves it.
Updated(e, status, owner, handoff) ==
  [status |-> status, owner |-> owner, handoff |-> handoff, finished |-> ledger[e].finished]

Settle(e, status) ==
  /\ ledger' = Prune([ledger EXCEPT ![e] =
       [status |-> status, owner |-> ledger[e].owner, handoff |-> "no", finished |-> clock + 1]])
  /\ clock' = clock + 1

\* Mutants: the UPDATE names only the row's id, or only its id and status.
FinishAnyRow(e, p, status) ==
  IF ledger[e].status # "absent" THEN Settle(e, status) ELSE UNCHANGED store
FinishAnyOwner(e, p, status) ==
  IF ledger[e].status \in Live THEN Settle(e, status) ELSE UNCHANGED store

\* finish_execution by process p: only the owner settles a row, and only a live one.
FinishExecution(e, p, status) ==
  IF ledger[e].status \in Live /\ ledger[e].owner = p
    THEN Settle(e, status) ELSE UNCHANGED store

IsTerminal(e) == ledger[e].status \in Terminal

(***************************************************************************)
(* Processes                                                               *)
(***************************************************************************)
WorkerUp(e) == worker[e] \notin {"none", "exited"}

Alive(p) == IF p \in Dispatchers THEN life[p] = "up" ELSE WorkerUp(p)

\* _owner_is_live, asked by another process: an owner whose start time is not
\* readable is not taken for live.
OwnerIsLive(p) == Alive(p) /\ p \notin Opaque

Launch(d) ==
  /\ life[d] = "new"
  /\ life' = [life EXCEPT ![d] = "up"]
  /\ UNCHANGED <<store, desk, worker, ack, probe, job, history>>

Crash(d) ==
  /\ life[d] = "up" /\ d \notin Steady
  /\ life' = [life EXCEPT ![d] = "dead"]
  /\ at' = [e \in Executions |->
       IF by[e] = d /\ at[e] # "done" THEN "gone" ELSE at[e]]
  /\ probe' = [probe EXCEPT ![d] = NoProbe]
  /\ UNCHANGED <<store, by, worker, ack, job, history>>

(***************************************************************************)
(* The dispatching thread                                                  *)
(***************************************************************************)
Goto(e, place) == at' = [at EXCEPT ![e] = place] /\ UNCHANGED by

Thread(e, place) == at[e] = place

\* create_execution
Create(d, e) ==
  /\ life[d] = "up" /\ at[e] = "none"
  /\ ledger' = [ledger EXCEPT ![e] = Updated(e, "claimed", d, "no")]
  /\ by' = [by EXCEPT ![e] = d]
  /\ at' = [at EXCEPT ![e] = "created"]
  /\ UNCHANGED <<clock, life, worker, ack, probe, job, history>>

\* The pool refuses the job, its fire claim went to somebody else or cannot be
\* kept alive, or its dispatch limit is reached.
Refuse(e) ==
  /\ Thread(e, "created") \/ Thread(e, "fired")
  /\ FinishExecution(e, by[e], "failed")
  /\ Goto(e, "done")
  /\ UNCHANGED <<life, worker, ack, probe, job, history>>

\* claim_job_for_fire succeeds.
Fire(e) ==
  /\ Thread(e, "created")
  /\ fireClaim' = [fireClaim EXCEPT ![e] = TRUE]
  /\ Goto(e, "fired")
  /\ UNCHANGED <<store, life, worker, ack, probe, jobStatus, history>>

\* In-process path: mark_execution_running guards the first side effect.
RunHere(e) ==
  /\ e \notin Detached /\ Thread(e, "fired")
  /\ IF ledger[e].status = "claimed" /\ ledger[e].handoff = "no" /\ ledger[e].owner = by[e]
       THEN /\ ledger' = [ledger EXCEPT ![e] = Updated(e, "running", by[e], "no")]
            /\ starts' = [starts EXCEPT ![e] = @ + 1]
            /\ Goto(e, "running")
       ELSE UNCHANGED <<ledger, starts>> /\ Goto(e, "done")
  /\ UNCHANGED <<clock, life, worker, ack, probe, job, cut>>

\* mark_job_run, fenced by the fire claim; a rejected mark fails the attempt.
MarkJob(e, verdict) ==
  /\ fireClaim' = [fireClaim EXCEPT ![e] = FALSE]
  /\ jobStatus' = [jobStatus EXCEPT ![e] = IF fireClaim[e] THEN verdict ELSE @]

Verdicts == {"ok", "error"}
\* Mutant: the attempt is closed without asking what the job store accepted.
RecordedBlindly(e) == "completed"

Recorded(e) == IF jobStatus[e] = "ok" THEN "completed" ELSE "failed"

MarkHere(e) ==
  /\ Thread(e, "running")
  /\ \E v \in Verdicts : MarkJob(e, v)
  /\ Goto(e, "marked")
  /\ UNCHANGED <<store, life, worker, ack, probe, history>>

FinishHere(e) ==
  /\ Thread(e, "marked")
  /\ FinishExecution(e, by[e], Recorded(e))
  /\ Goto(e, "done")
  /\ UNCHANGED <<life, worker, ack, probe, job, history>>

\* A mark in an exception handler: one that raises is logged, or passed on, and the
\* handler goes on to the ledger row.
MarkOrRaise(e, verdict) == MarkJob(e, verdict) \/ (e \in Faulty /\ UNCHANGED job)

\* Anything in the body may raise, or an interrupt may land: in the run, in a mark, in
\* finish_execution, which then leaves the row as it was.  The body's handler records the
\* job as failed, which the job store rejects once the fire claim is spent.
RunRaises(e) ==
  /\ e \in Faulty
  /\ at[e] \in {"running", "marked"} \/ (Thread(e, "fired") /\ e \notin Detached)
  /\ MarkOrRaise(e, "error")
  /\ cut' = [cut EXCEPT ![e] = at[e] = "marked"]
  /\ Goto(e, "closing")
  /\ UNCHANGED <<store, life, worker, ack, probe, starts>>

\* External path: mark_execution_handoff_pending.
HandOff(e) ==
  /\ e \in Detached /\ Thread(e, "fired")
  /\ IF ledger[e].status = "claimed" /\ ledger[e].owner = by[e]
       THEN /\ ledger' = [ledger EXCEPT ![e] = Updated(e, "claimed", by[e], "fresh")]
            /\ Goto(e, "spawning")
       ELSE UNCHANGED ledger /\ Goto(e, "undispatched")
  /\ UNCHANGED <<clock, life, worker, ack, probe, job, history>>

\* Writing the payload and starting the process.
Spawn(e) ==
  /\ Thread(e, "spawning")
  /\ worker' = [worker EXCEPT ![e] = "spawned"]
  /\ Goto(e, "awaiting")
  /\ UNCHANGED <<store, life, ack, probe, job, history>>

SpawnFails(e) ==
  /\ Thread(e, "spawning")
  /\ Goto(e, "undispatched")
  /\ UNCHANGED <<store, life, worker, ack, probe, job, history>>

\* Fencing the row, or reading the ledger while the worker is at work, may raise: to
\* the caller that is a dispatch that failed.
DispatchRaises(e) ==
  /\ e \in Detached \cap Faulty
  /\ at[e] \in {"fired", "awaiting", "polling", "waiting"}
  /\ Goto(e, "undispatched")
  /\ UNCHANGED <<store, life, worker, ack, probe, job, history>>

\* One turn of the acknowledgement loop: look for the file, and consume it ...
LookForAck(e) ==
  /\ Thread(e, "awaiting")
  /\ Goto(e, IF ack[e] THEN "waiting" ELSE "polling")
  /\ ack' = [ack EXCEPT ![e] = FALSE]
  /\ UNCHANGED <<store, life, worker, probe, job, history>>

\* ... then ask whether the process is still there; 5 s later give up asking.
PollExit(e) ==
  /\ Thread(e, "polling")
  /\ IF worker[e] = "exited" THEN Goto(e, "undispatched")
     ELSE Goto(e, "awaiting") \/ Goto(e, "waiting")
  /\ UNCHANGED <<store, life, worker, ack, probe, job, history>>

\* run_one_job's handler of a failed dispatch: the job first, then the ledger.
MarkUndispatched(e) ==
  /\ Thread(e, "undispatched")
  /\ MarkOrRaise(e, "dispatch_failed")
  /\ Goto(e, "closing")
  /\ UNCHANGED <<store, life, worker, ack, probe, history>>

\* Both handlers end with the ledger row ...
Close(e) ==
  /\ Thread(e, "closing")
  /\ FinishExecution(e, by[e], "failed")
  /\ Goto(e, "done")
  /\ UNCHANGED <<life, worker, ack, probe, job, history>>

\* ... and when that write raises as well, or something raised where no handler watches,
\* the thread is over and nobody in this process looks at the row again.
GiveUp(e) ==
  /\ e \in Faulty
  /\ at[e] \in {"created", "fired", "closing"}
  /\ Goto(e, "lost")
  /\ UNCHANGED <<store, life, worker, ack, probe, job, history>>

(***************************************************************************)
(* Recovery                                                                *)
(***************************************************************************)
\* Mutant: no end to the adoption grace.
AbandonedUnlessHandedOff(d, e) ==
  /\ ledger[e].status \in Live
  /\ ledger[e].owner # d
  /\ ~OwnerIsLive(ledger[e].owner)
  /\ ledger[e].handoff = "no"

\* recover_interrupted_executions, up to the UPDATE of one row.
Abandoned(d, e) ==
  /\ ledger[e].status \in Live
  /\ ledger[e].owner # d
  /\ ~OwnerIsLive(ledger[e].owner)
  /\ ledger[e].handoff # "fresh"

Judge(d, e) ==
  /\ life[d] = "up" /\ probe[d] = NoProbe
  /\ Abandoned(d, e)
  /\ probe' = [probe EXCEPT ![d] = [id |-> e, row |-> ledger[e]]]
  /\ UNCHANGED <<store, life, desk, worker, ack, job, history>>

\* Mutant: the UPDATE does not compare the row with the one judged.
WriteOffUnguarded(d) ==
  /\ life[d] = "up" /\ probe[d] # NoProbe
  /\ IF ledger[probe[d].id].status \in Live
       THEN Settle(probe[d].id, "unknown") ELSE UNCHANGED store
  /\ probe' = [probe EXCEPT ![d] = NoProbe]
  /\ UNCHANGED <<life, desk, worker, ack, job, history>>

\* The UPDATE: the row must still be the one that was judged.
WriteOff(d) ==
  /\ life[d] = "up" /\ probe[d] # NoProbe
  /\ IF ledger[probe[d].id] = probe[d].row
       THEN Settle(probe[d].id, "unknown") ELSE UNCHANGED store
  /\ probe' = [probe EXCEPT ![d] = NoProbe]
  /\ UNCHANGED <<life, desk, worker, ack, job, history>>

\* HANDOFF_ADOPTION_GRACE_SECONDS pass.
GraceEnds(e) ==
  /\ ledger[e].handoff = "fresh"
  /\ ledger' = [ledger EXCEPT ![e] = Updated(e, ledger[e].status, ledger[e].owner, "stale")]
  /\ UNCHANGED <<clock, life, desk, worker, ack, probe, job, history>>

\* _wait_for_external_cron_worker_body: the row is terminal, or the worker is
\* gone and its row is recovered; a row that stays open is a failed dispatch.  What the
\* hand-over left behind is removed.
WaitEnds(e) ==
  /\ Thread(e, "waiting")
  /\ IsTerminal(e) \/ worker[e] = "exited"
  /\ IF ~IsTerminal(e) /\ Abandoned(by[e], e)
       THEN Settle(e, "unknown") ELSE UNCHANGED store
  /\ Goto(e, IF IsTerminal(e) \/ Abandoned(by[e], e) THEN "done" ELSE "undispatched")
  /\ ack' = [ack EXCEPT ![e] = FALSE]
  /\ UNCHANGED <<life, worker, probe, job, history>>

(***************************************************************************)
(* The worker process                                                      *)
(***************************************************************************)
Become(e, place) == worker' = [worker EXCEPT ![e] = place]

\* The payload cannot be loaded, the acknowledgement cannot be published, or
\* the process is killed.
WorkerExits(e) ==
  /\ WorkerUp(e)
  /\ Become(e, "exited")
  /\ UNCHANGED <<store, life, desk, ack, probe, job, history>>

\* Mutant: the worker goes on without having adopted the row.
AdoptUnchecked(e) ==
  /\ worker[e] = "spawned"
  /\ IF ledger[e].status = "claimed" /\ ledger[e].handoff # "no"
       THEN ledger' = [ledger EXCEPT ![e] = Updated(e, "running", e, "no")]
       ELSE UNCHANGED ledger
  /\ Become(e, "adopted")
  /\ UNCHANGED <<clock, life, desk, ack, probe, job, history>>

\* adopt_claimed_execution
Adopt(e) ==
  /\ worker[e] = "spawned"
  /\ IF ledger[e].status = "claimed" /\ ledger[e].handoff # "no"
       THEN /\ ledger' = [ledger EXCEPT ![e] = Updated(e, "running", e, "no")]
            /\ Become(e, "adopted")
       ELSE UNCHANGED ledger /\ Become(e, "exited")
  /\ UNCHANGED <<clock, life, desk, ack, probe, job, history>>

Acknowledge(e) ==
  /\ worker[e] = "adopted"
  /\ ack' = [ack EXCEPT ![e] = TRUE]
  /\ Become(e, "acked")
  /\ UNCHANGED <<store, life, desk, probe, job, history>>

\* run_one_job in the worker: claim_dispatch may reject the run before it starts.
WorkerRefuses(e) ==
  /\ worker[e] = "acked"
  /\ FinishExecution(e, e, "failed")
  /\ Become(e, "exited")
  /\ UNCHANGED <<life, desk, ack, probe, job, history>>

WorkerRuns(e) ==
  /\ worker[e] = "acked"
  /\ starts' = [starts EXCEPT ![e] = @ + 1]
  /\ Become(e, "running")
  /\ UNCHANGED <<store, life, desk, ack, probe, job, cut>>

WorkerMarks(e) ==
  /\ worker[e] = "running"
  /\ \E v \in Verdicts : MarkJob(e, v)
  /\ Become(e, "marked")
  /\ UNCHANGED <<store, life, desk, ack, probe, history>>

WorkerFinishes(e) ==
  /\ worker[e] = "marked"
  /\ FinishExecution(e, e, Recorded(e))
  /\ Become(e, "exited")
  /\ UNCHANGED <<life, desk, ack, probe, job, history>>

\* The same handler in the worker; a last write that raises ends it as a kill does.
WorkerRaises(e) ==
  /\ e \in Faulty
  /\ worker[e] \in {"acked", "running", "marked"}
  /\ MarkOrRaise(e, "error")
  /\ cut' = [cut EXCEPT ![e] = worker[e] = "marked"]
  /\ Become(e, "closing")
  /\ UNCHANGED <<store, life, desk, ack, probe, starts>>

WorkerCloses(e) ==
  /\ worker[e] = "closing"
  /\ FinishExecution(e, e, "failed")
  /\ Become(e, "exited")
  /\ UNCHANGED <<life, desk, ack, probe, job, history>>

-----------------------------------------------------------------------------
ThreadStep(e) ==
  \/ Refuse(e) \/ Fire(e) \/ RunHere(e) \/ MarkHere(e) \/ FinishHere(e)
  \/ HandOff(e) \/ Spawn(e) \/ SpawnFails(e) \/ LookForAck(e) \/ PollExit(e)
  \/ MarkUndispatched(e) \/ RunRaises(e) \/ DispatchRaises(e) \/ Close(e) \/ GiveUp(e)
  \/ WaitEnds(e)

WorkerStep(e) ==
  \/ Adopt(e) \/ Acknowledge(e) \/ WorkerRefuses(e) \/ WorkerRuns(e)
  \/ WorkerMarks(e) \/ WorkerFinishes(e)
  \/ WorkerRaises(e) \/ WorkerCloses(e)

Recovery(d) == WriteOff(d) \/ \E e \in Executions : Judge(d, e)

Next ==
  \/ \E d \in Dispatchers :
       Launch(d) \/ Crash(d) \/ Recovery(d) \/ \E e \in Executions : Create(d, e)
  \/ \E e \in Executions :
       ThreadStep(e) \/ WorkerStep(e) \/ WorkerExits(e) \/ GraceEnds(e)

Spec == Init /\ [][Next]_vars

\* Processes that are up make progress, jobs end (run_job has timeouts), and a steady
\* scheduler reaps dead owners every few minutes.  All but the polling of a thread happens
\* finitely often, so one condition for it is as strong as one for each actor.
Fairness ==
  /\ WF_vars(\/ \E d \in Steady : Launch(d) \/ Recovery(d)
             \/ \E e \in Executions : WorkerStep(e) \/ GraceEnds(e))
  /\ \A e \in Executions : WF_vars(ThreadStep(e))

FairSpec == Spec /\ Fairness

(***************************************************************************)
(* Properties                                                              *)
(***************************************************************************)
RunningIn(e, p) ==
  IF p \in Dispatchers
    THEN by[e] = p /\ at[e] \in {"running", "marked"}
    ELSE p = e /\ worker[e] \in {"running", "marked"}

\* A process inside the job's side effects is the owner on record of a running
\* row: no recovery, no failed dispatch and no second process has taken the
\* attempt away from it.
SideEffectsOwned ==
  \A e \in Executions, p \in Processes :
    RunningIn(e, p) => ledger[e].status = "running" /\ ledger[e].owner = p

\* "Interrupted attempts become unknown only after their exact owner process is
\* proved gone" (module docstring, lines 3-4).
UnknownOwnerGone ==
  \A e \in Executions : ledger[e].status = "unknown" => ~Alive(ledger[e].owner)

\* The ledger and the job store tell the same story: an attempt completes in the
\* ledger only if its job was recorded ok and its side effects started once, and a job
\* recorded ok by an attempt has that attempt on record as failed only if its run was
\* cut short between the two writes (mark_job_run, finish_execution and the handler).
LedgerAgreesWithJob ==
  \A e \in Executions :
    /\ ledger[e].status = "completed" => jobStatus[e] = "ok" /\ starts[e] = 1
    /\ jobStatus[e] = "ok" /\ ledger[e].status = "failed" => cut[e]

\* What makes these inductive.  A row belongs to a dispatcher or to the attempt's
\* own worker, and to a process that has started; only a claimed row is handed over.
RowOwned ==
  \A e \in Executions :
    /\ ledger[e].status # "absent" =>
         \/ ledger[e].owner \in Dispatchers /\ life[ledger[e].owner] # "new"
         \/ ledger[e].owner = e /\ worker[e] \notin {"none", "spawned"}
    /\ ledger[e].handoff # "no" => ledger[e].status = "claimed"

\* A worker between its adoption and its exit owns a running row.
WorkerOwns ==
  \A e \in Executions :
    worker[e] \in {"adopted", "acked", "running", "marked", "closing"} =>
      ledger[e].status = "running" /\ ledger[e].owner = e

\* A row judged abandoned had an owner that is dead for good.
ProbedIsDead ==
  \A d \in Dispatchers : probe[d] # NoProbe =>
    /\ probe[d].id \in Executions /\ probe[d].row.status \in Live
    /\ \/ probe[d].row.owner \in Dispatchers /\ life[probe[d].row.owner] = "dead"
       \/ probe[d].row.owner = probe[d].id /\ worker[probe[d].id] = "exited"

\* Where a thread stands bounds what can have happened to its attempt: nothing
\* before it is created, no mark before the run has ended, no worker before it is handed
\* over, and a running row of a dispatcher has its thread inside the run or its handler.
Staged ==
  \A e \in Executions :
    /\ at[e] = "none" => ledger[e] = NoRow /\ starts[e] = 0
    /\ at[e] # "none" => by[e] \in Dispatchers /\ life[by[e]] # "new"
    /\ at[e] \notin {"none", "done", "gone"} => life[by[e]] = "up"
    /\ at[e] \in {"none", "created", "fired", "running"} => jobStatus[e] = "none"
    /\ at[e] \in {"none", "created", "fired", "running", "marked", "spawning"} =>
         worker[e] = "none"
    /\ ledger[e].status = "running" /\ ledger[e].owner \in Dispatchers =>
         /\ ledger[e].owner = by[e]
         /\ at[e] \in {"running", "marked", "closing", "lost", "gone"}

\* Side effects start once, from a claimed or a freshly adopted row.
StartedOnce ==
  \A e \in Executions :
    /\ ledger[e].status = "claimed" \/ worker[e] \in {"adopted", "acked"} =>
         starts[e] = 0 /\ jobStatus[e] # "ok"
    /\ at[e] \in {"running", "marked"} \/ worker[e] \in {"running", "marked"} =>
         starts[e] = 1
    /\ worker[e] = "running" => jobStatus[e] # "ok"

\* A handler that finds its job recorded ok was entered after the mark.
CutAfterMark ==
  \A e \in Executions :
    /\ ledger[e].status = "running" /\ jobStatus[e] = "ok"
    /\ worker[e] = "closing" \/ (ledger[e].owner = by[e] /\ at[e] = "closing")
    => cut[e]

\* The fire claim is spent by the first mark.
ClaimSpentOnce == \A e \in Executions : fireClaim[e] => jobStatus[e] = "none"

Inv ==
  /\ TypeOK /\ RowOwned /\ WorkerOwns /\ ProbedIsDead /\ Staged /\ StartedOnce
  /\ ClaimSpentOnce /\ CutAfterMark /\ SideEffectsOwned /\ UnknownOwnerGone /\ LedgerAgreesWithJob

\* "Terminal states are immutable": a terminal row is only ever pruned, and the
\* attempt's id does not come back.
TerminalIsFinal ==
  [][\A e \in Executions :
       /\ IsTerminal(e) => ledger'[e] \in {ledger[e], NoRow}
       /\ ledger[e] = NoRow /\ at[e] # "none" => ledger'[e] = NoRow]_vars

\* An attempt that is settled, or settled and pruned, starts no side effects:
\* not in a worker that was spawned but had not adopted the row yet, nor in one
\* whose row was written off.
SettledStartsNothing ==
  [][\A e \in Executions :
       ledger[e].status \notin Live => starts'[e] = starts[e]]_vars

\* A job recorded as never dispatched has not started: the handler of a failed
\* dispatch must not "falsely assert that no side effect could have happened".
DispatchFailedNotStarted ==
  \A e \in Executions : jobStatus[e] = "dispatch_failed" => starts[e] = 0

\* While one scheduler stays up no attempt stays claimed or running for ever,
\* whoever dies on the way: from some point on none is (each is created once), but for
\* one whose thread could not write its end and whose process lives on.
AttemptsEnd ==
  <>[](\A e \in Executions : ledger[e].status \in Live => at[e] = "lost")
=============================================================================
