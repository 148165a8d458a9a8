---------------------------- MODULE CronDelivery ----------------------------
(***************************************************************************)
(* The durable delivery queue of restart-safe cron workers                 *)
(* (cron/delivery_queue.py).  A worker process that ran a job cannot own a *)
(* gateway's chat adapters, so it inserts its message as a row of an       *)
(* SQLite table and waits; whichever gateway process is up claims the row, *)
(* sends it and records the outcome.  Gateways crash at any point, a       *)
(* worker gives up waiting at any point, and old outcomes are compacted to *)
(* tombstones.                                                             *)
(*                                                                         *)
(* A gateway process is one incarnation: after a crash another element of  *)
(* Gateways starts in its place.  It has one housekeeping thread, so one   *)
(* drain at a time.  sqlite3 opens its write transaction at the first      *)
(* INSERT/UPDATE, so a SELECT before it is a step of its own; only enqueue *)
(* takes the write lock first.                                             *)
(***************************************************************************)
EXTENDS Naturals, FiniteSets

CONSTANTS
  Executions,   \* cron execution ids, the keys of the queue
  Gateways,     \* gateway process incarnations
  Steady,       \* the incarnations that do not crash
  Opaque,       \* incarnations whose start time other processes cannot read
  NoOwner, NoItem,
  MaxTerminal,  \* MAX_TERMINAL_DELIVERIES
  DrainLimit,   \* the limit argument of drain
  MaxCalls      \* bound: calls of enqueue_and_wait per execution

ASSUME ConstantsAssumption ==
  /\ Steady \subseteq Gateways /\ Opaque \subseteq Gateways
  /\ NoOwner \notin Gateways /\ NoItem \notin Executions
  /\ MaxTerminal \in Nat /\ DrainLimit \in Nat /\ MaxCalls \in Nat

Terminal == {"delivered", "failed", "unknown"}

Row == [status : {"absent", "pending", "delivering"} \cup Terminal,
        owner : Gateways \cup {NoOwner}, created : Nat, finished : Nat]
NoRow == [status |-> "absent", owner |-> NoOwner, created |-> 0, finished |-> 0]

VARIABLES
  deliveries,  \* the deliveries table
  tombstones,  \* the delivery_tombstones table: a terminal status or "none"
  clock,       \* wall clock behind created_at and finished_at
  life,        \* "new", "up" or "dead"
  phase,       \* where the incarnation's drain stands
  scan,        \* the rows recover_abandoned selected
  item,        \* the execution the drain selected or claimed
  error,       \* what the transport said of the send in hand
  processed,   \* rows this drain has finished
  caller,      \* the worker's place in enqueue_and_wait
  calls,       \* calls of enqueue_and_wait so far
  report,      \* what the last call returned: "none" (no return yet), "ok" or "error"
  sends,       \* history: how often each message was handed to a transport
  arrived      \* history: whether it reached its recipient

queue == <<deliveries, tombstones, clock>>
drains == <<phase, scan, item, error, processed>>
workers == <<caller, calls, report>>
world == <<sends, arrived>>
vars == <<queue, life, drains, workers, world>>

TypeOK ==
  /\ deliveries \in [Executions -> Row]
  /\ tombstones \in [Executions -> Terminal \cup {"none"}]
  /\ clock \in Nat
  /\ life \in [Gateways -> {"new", "up", "dead"}]
  /\ phase \in [Gateways -> {"idle", "recovering", "claiming", "selected", "claimed", "sent"}]
  /\ scan \in [Gateways -> SUBSET Executions]
  /\ item \in [Gateways -> Executions \cup {NoItem}]
  /\ error \in [Gateways -> BOOLEAN]
  /\ processed \in [Gateways -> Nat]
  /\ caller \in [Executions -> {"idle", "waiting", "fencing", "gone"}]
  /\ calls \in [Executions -> Nat]
  /\ report \in [Executions -> {"none", "ok", "error"}]
  /\ sends \in [Executions -> Nat]
  /\ arrived \in [Executions -> BOOLEAN]

Init ==
  /\ deliveries = [e \in Executions |-> NoRow]
  /\ tombstones = [e \in Executions |-> "none"]
  /\ clock = 0
  /\ life = [g \in Gateways |-> "new"]
  /\ phase = [g \in Gateways |-> "idle"]
  /\ scan = [g \in Gateways |-> {}]
  /\ item = [g \in Gateways |-> NoItem]
  /\ error = [g \in Gateways |-> FALSE]
  /\ processed = [g \in Gateways |-> 0]
  /\ caller = [e \in Executions |-> "idle"]
  /\ calls = [e \in Executions |-> 0]
  /\ report = [e \in Executions |-> "none"]
  /\ sends = [e \in Executions |-> 0]
  /\ arrived = [e \in Executions |-> FALSE]

(***************************************************************************)
(* Rows                                                                    *)
(***************************************************************************)
StatusOf(e) == deliveries[e].status

\* What get_status answers: the row if there is one, else the tombstone.
Outcome(e) ==
  IF StatusOf(e) # "absent" \/ tombstones[e] = "none"
    THEN StatusOf(e) ELSE tombstones[e]

Older(table, f, e) ==
  \/ table[f].finished < table[e].finished
  \/ table[f].finished = table[e].finished /\ table[f].created < table[e].created

Settled(table) == {e \in Executions : table[e].status \in Terminal}

\* The terminal rows beyond the newest MaxTerminal.
Excess(table) ==
  {e \in Settled(table) :
     Cardinality({f \in Settled(table) : Older(table, e, f)}) >= MaxTerminal}

\* Mutant: old rows are deleted without a tombstone.
PruneForgets(table) ==
  /\ deliveries' = [e \in Executions |-> IF e \in Excess(table) THEN NoRow ELSE table[e]]
  /\ UNCHANGED tombstones

\* _prune_terminal_unlocked, at the end of the transaction that leaves `table`.
Prune(table) ==
  /\ deliveries' = [e \in Executions |-> IF e \in Excess(table) THEN NoRow ELSE table[e]]
  /\ tombstones' = [e \in Executions |->
       IF e \in Excess(table) /\ tombstones[e] = "none"
         THEN table[e].status ELSE tombstones[e]]

\* The table after the rows in S get a terminal status.
Stamped(row, status) ==
  [status |-> status, owner |-> row.owner, created |-> row.created, finished |-> clock + 1]

Settle(S, status) ==
  [e \in Executions |-> IF e \in S THEN Stamped(deliveries[e], status) ELSE deliveries[e]]

\* One transaction that settles the rows in S and prunes.
SettleAndPrune(S, status) ==
  /\ Prune(Settle(S, status))
  /\ clock' = IF S = {} THEN clock ELSE clock + 1

(***************************************************************************)
(* Gateway processes                                                       *)
(***************************************************************************)
Start(g) ==
  /\ life[g] = "new"
  /\ life' = [life EXCEPT ![g] = "up"]
  /\ UNCHANGED <<queue, drains, workers, world>>

\* The drain is over and its local variables are gone.
Rest(g) ==
  /\ phase' = [phase EXCEPT ![g] = "idle"]
  /\ scan' = [scan EXCEPT ![g] = {}]
  /\ item' = [item EXCEPT ![g] = NoItem]
  /\ error' = [error EXCEPT ![g] = FALSE]
  /\ processed' = [processed EXCEPT ![g] = 0]

Crash(g) ==
  /\ life[g] = "up" /\ g \notin Steady
  /\ life' = [life EXCEPT ![g] = "dead"]
  /\ Rest(g)
  /\ UNCHANGED <<queue, workers, world>>

\* _owner_is_live: a pid whose start time cannot be read counts as another process.
OwnerIsLive(owner) == life[owner] = "up" /\ owner \notin Opaque

\* recover_abandoned, its SELECT.
RecoverScan(g) ==
  /\ life[g] = "up" /\ phase[g] = "idle"
  /\ scan' = [scan EXCEPT ![g] = {e \in Executions : StatusOf(e) = "delivering"}]
  /\ phase' = [phase EXCEPT ![g] = "recovering"]
  /\ UNCHANGED <<queue, life, item, error, processed, workers, world>>

\* Mutant: only the process's own rows are recovered.
AbandonedByMe(g) ==
  {e \in scan[g] : StatusOf(e) = "delivering" /\ deliveries[e].owner = g}

\* recover_abandoned, its guarded UPDATEs.  A row of this very process is
\* abandoned too: with no send in hand, the process failed to record the outcome.
Abandoned(g) ==
  {e \in scan[g] : /\ StatusOf(e) = "delivering"
                   /\ deliveries[e].owner = g \/ ~OwnerIsLive(deliveries[e].owner)}

\* Mutant: a lost claim goes back to the queue.
RecoverRequeues(g) ==
  /\ life[g] = "up" /\ phase[g] = "recovering"
  /\ deliveries' = [e \in Executions |->
       IF e \in Abandoned(g)
         THEN [deliveries[e] EXCEPT !.status = "pending", !.owner = NoOwner]
         ELSE deliveries[e]]
  /\ phase' = [phase EXCEPT ![g] = "claiming"]
  /\ scan' = [scan EXCEPT ![g] = {}]
  /\ UNCHANGED <<tombstones, clock, life, item, error, processed, workers, world>>

RecoverFence(g) ==
  /\ life[g] = "up" /\ phase[g] = "recovering"
  /\ SettleAndPrune(Abandoned(g), "unknown")
  /\ phase' = [phase EXCEPT ![g] = "claiming"]
  /\ scan' = [scan EXCEPT ![g] = {}]
  /\ UNCHANGED <<life, item, error, processed, workers, world>>

Pending == {e \in Executions : StatusOf(e) = "pending"}

\* claim_next, its SELECT: the oldest pending row.
Select(g) ==
  /\ life[g] = "up" /\ phase[g] = "claiming" /\ processed[g] < DrainLimit
  /\ \E e \in Pending :
       /\ \A f \in Pending : deliveries[e].created <= deliveries[f].created
       /\ item' = [item EXCEPT ![g] = e]
  /\ phase' = [phase EXCEPT ![g] = "selected"]
  /\ UNCHANGED <<queue, life, scan, error, processed, workers, world>>

\* drain returns: nothing pending, or its limit is reached.
DrainEnds(g) ==
  /\ life[g] = "up" /\ phase[g] = "claiming"
  /\ Pending = {} \/ processed[g] >= DrainLimit
  /\ Rest(g)
  /\ UNCHANGED <<queue, life, workers, world>>

\* Mutant: the UPDATE does not ask whether the row is still pending.
ClaimUnguarded(g) ==
  /\ life[g] = "up" /\ phase[g] = "selected"
  /\ deliveries' = [deliveries EXCEPT ![item[g]] =
       [status |-> "delivering", owner |-> g,
        created |-> @.created, finished |-> @.finished]]
  /\ phase' = [phase EXCEPT ![g] = "claimed"]
  /\ UNCHANGED <<tombstones, clock, life, scan, item, error, processed, workers, world>>

\* claim_next, its guarded UPDATE: a row lost to another gateway ends the drain.
Claim(g) ==
  /\ life[g] = "up" /\ phase[g] = "selected"
  /\ IF StatusOf(item[g]) = "pending"
       THEN /\ deliveries' = [deliveries EXCEPT ![item[g]] =
                 [status |-> "delivering", owner |-> g,
                  created |-> @.created, finished |-> @.finished]]
            /\ phase' = [phase EXCEPT ![g] = "claimed"]
            /\ UNCHANGED <<scan, item, error, processed>>
       ELSE Rest(g) /\ UNCHANGED deliveries
  /\ UNCHANGED <<tombstones, clock, life, workers, world>>

\* The send callback.  A transport may fail after the message went out.
Send(g) ==
  /\ life[g] = "up" /\ phase[g] = "claimed"
  /\ \E failed, got \in BOOLEAN :
       /\ ~failed => got
       /\ error' = [error EXCEPT ![g] = failed]
       /\ arrived' = [arrived EXCEPT ![item[g]] = arrived[item[g]] \/ got]
  /\ sends' = [sends EXCEPT ![item[g]] = @ + 1]
  /\ phase' = [phase EXCEPT ![g] = "sent"]
  /\ UNCHANGED <<queue, life, scan, item, processed, workers>>

\* Mutant: the UPDATE settles the row whatever has become of it.
FinishUnguarded(g) ==
  /\ life[g] = "up" /\ phase[g] = "sent"
  /\ SettleAndPrune({e \in {item[g]} : StatusOf(e) # "absent"},
                    IF error[g] THEN "failed" ELSE "delivered")
  /\ phase' = [phase EXCEPT ![g] = "claiming"]
  /\ item' = [item EXCEPT ![g] = NoItem]
  /\ error' = [error EXCEPT ![g] = FALSE]
  /\ processed' = [processed EXCEPT ![g] = @ + 1]
  /\ UNCHANGED <<life, scan, workers, world>>

\* _finish: only the claim's owner settles it, and only while it is delivering.
Finish(g) ==
  /\ life[g] = "up" /\ phase[g] = "sent"
  /\ LET mine == {e \in {item[g]} : /\ StatusOf(e) = "delivering"
                                    /\ deliveries[e].owner = g}
     IN  SettleAndPrune(mine, IF error[g] THEN "failed" ELSE "delivered")
  /\ phase' = [phase EXCEPT ![g] = "claiming"]
  /\ item' = [item EXCEPT ![g] = NoItem]
  /\ error' = [error EXCEPT ![g] = FALSE]
  /\ processed' = [processed EXCEPT ![g] = @ + 1]
  /\ UNCHANGED <<life, scan, workers, world>>

\* _finish raises (the database is unavailable): drain is left with the row delivering.
FinishRaises(g) ==
  /\ life[g] = "up" /\ phase[g] = "sent"
  /\ Rest(g)
  /\ UNCHANGED <<queue, life, workers, world>>

(***************************************************************************)
(* Workers                                                                 *)
(***************************************************************************)
Return(e, verdict) ==
  /\ report' = [report EXCEPT ![e] = verdict]
  /\ caller' = [caller EXCEPT ![e] = "idle"]

Verdict(status) == IF status = "delivered" THEN "ok" ELSE "error"

\* Mutant: tombstones are not consulted.
EnqueueIgnoresTombstones(e) ==
  /\ caller[e] = "idle" /\ calls[e] < MaxCalls
  /\ calls' = [calls EXCEPT ![e] = @ + 1]
  /\ IF StatusOf(e) = "absent"
       THEN /\ deliveries' = [deliveries EXCEPT ![e] =
                 [status |-> "pending", owner |-> NoOwner,
                  created |-> clock + 1, finished |-> 0]]
            /\ clock' = clock + 1
       ELSE UNCHANGED <<deliveries, clock>>
  /\ IF StatusOf(e) \in Terminal
       THEN Return(e, Verdict(StatusOf(e)))
       ELSE /\ caller' = [caller EXCEPT ![e] = "waiting"]
            /\ report' = [report EXCEPT ![e] = "none"]
  /\ UNCHANGED <<tombstones, life, drains, world>>

\* enqueue, one immediate transaction, and enqueue_and_wait's early return.
Enqueue(e) ==
  /\ caller[e] = "idle" /\ calls[e] < MaxCalls
  /\ calls' = [calls EXCEPT ![e] = @ + 1]
  /\ IF Outcome(e) = "absent"
       THEN /\ deliveries' = [deliveries EXCEPT ![e] =
                 [status |-> "pending", owner |-> NoOwner,
                  created |-> clock + 1, finished |-> 0]]
            /\ clock' = clock + 1
       ELSE UNCHANGED <<deliveries, clock>>
  /\ IF Outcome(e) \in Terminal
       THEN Return(e, Verdict(Outcome(e)))
       ELSE /\ caller' = [caller EXCEPT ![e] = "waiting"]
            /\ report' = [report EXCEPT ![e] = "none"]
  /\ UNCHANGED <<tombstones, life, drains, world>>

\* One poll of get_status that finds a terminal status.
Poll(e) ==
  /\ caller[e] = "waiting" /\ Outcome(e) \in Terminal
  /\ Return(e, Verdict(Outcome(e)))
  /\ UNCHANGED <<queue, life, drains, calls, world>>

\* Mutant: a send in flight is taken for a row left in the queue.
WaitTimesOutHopeful(e) ==
  /\ caller[e] = "waiting"
  /\ IF StatusOf(e) \in {"pending", "delivering"}
       THEN Return(e, "ok")
       ELSE /\ caller' = [caller EXCEPT ![e] = "fencing"]
            /\ UNCHANGED report
  /\ UNCHANGED <<queue, life, drains, calls, world>>

\* _terminalize_wait_timeout, its first SELECT: a pending row stays queued.
WaitTimesOut(e) ==
  /\ caller[e] = "waiting"
  /\ IF StatusOf(e) = "pending"
       THEN Return(e, "ok")
       ELSE /\ caller' = [caller EXCEPT ![e] = "fencing"]
            /\ UNCHANGED report
  /\ UNCHANGED <<queue, life, drains, calls, world>>

\* Mutant: the UPDATE overwrites an outcome recorded since the SELECT.
FenceUnguarded(e) ==
  /\ caller[e] = "fencing"
  /\ LET hung == {x \in {e} : StatusOf(x) # "absent"}
     IN  /\ Return(e, Verdict(Settle(hung, "unknown")[e].status))
         /\ SettleAndPrune(hung, "unknown")
  /\ UNCHANGED <<life, drains, calls, world>>

\* _terminalize_wait_timeout, its guarded UPDATE and last SELECT, which does
\* not look at the tombstones.
Fence(e) ==
  /\ caller[e] = "fencing"
  /\ LET hung == {x \in {e} : StatusOf(x) = "delivering"}
     IN  /\ Return(e, Verdict(Settle(hung, "unknown")[e].status))
         /\ SettleAndPrune(hung, "unknown")
  /\ UNCHANGED <<life, drains, calls, world>>

WorkerDies(e) ==
  /\ caller[e] \in {"waiting", "fencing"}
  /\ caller' = [caller EXCEPT ![e] = "gone"]
  /\ UNCHANGED <<queue, life, drains, calls, report, world>>

-----------------------------------------------------------------------------
GatewayStep(g) ==
  \/ RecoverScan(g) \/ RecoverFence(g) \/ Select(g) \/ DrainEnds(g)
  \/ Claim(g) \/ Send(g) \/ Finish(g) \/ FinishRaises(g)

WorkerStep(e) ==
  Enqueue(e) \/ Poll(e) \/ WaitTimesOut(e) \/ Fence(e) \/ WorkerDies(e)

Next ==
  \/ \E g \in Gateways : Start(g) \/ Crash(g) \/ GatewayStep(g)
  \/ \E e \in Executions : WorkerStep(e)

Spec == Init /\ [][Next]_vars

\* A gateway that is up keeps running its housekeeping thread, whose sends all
\* have timeouts, and a gateway that does not crash is started in the end.
Fairness ==
  /\ \A g \in Gateways : WF_vars(GatewayStep(g))
  /\ \A g \in Steady : WF_vars(Start(g))

FairSpec == Spec /\ Fairness

(***************************************************************************)
(* Properties                                                              *)
(***************************************************************************)
\* No message is handed to a transport twice, whatever crashes, times out, is
\* compacted to a tombstone or is requested again (module docstring, lines 3-7).
AtMostOnce == \A e \in Executions : sends[e] <= 1

\* A row still pending "was provably never attempted" (_terminalize_wait_timeout),
\* which is what lets a worker that gives up leave it for the next gateway.
PendingUntouched ==
  \A e \in Executions : StatusOf(e) = "pending" => sends[e] = 0 /\ ~arrived[e]

\* A message on record as delivered, in its row or in its tombstone, has arrived.
DeliveredArrived ==
  \A e \in Executions : Outcome(e) = "delivered" => arrived[e]

\* What get_status answers never changes once it is terminal: not by a second
\* writer, not by a late _finish, not by the move to a tombstone.
OutcomeIsFinal ==
  [][\A e \in Executions : Outcome(e) \in Terminal => Outcome(e)' = Outcome(e)]_vars

\* A worker told "ok" leaves a message that was delivered or is still queued
\* for a gateway to send; never one that was lost.
OkIsDeliveredOrQueued ==
  [][\A e \in Executions :
       report[e] # "ok" /\ report'[e] = "ok"
         => Outcome(e)' \in {"delivered", "pending"}]_vars

\* What makes the above inductive.  A gateway between its claim and its send is
\* the only one there for its message and its owner on record, unless the message
\* was written off; nobody has sent it.  A message on offer has not been sent.
HeldItem ==
  \A g \in Gateways : phase[g] \in {"selected", "claimed", "sent"} => item[g] \in Executions
OneRecord == \A e \in Executions : tombstones[e] # "none" => StatusOf(e) = "absent"
ClaimedUnsent ==
  \A g \in Gateways : phase[g] = "claimed" =>
    /\ sends[item[g]] = 0 /\ ~arrived[item[g]]
    /\ Outcome(item[g]) \in {"delivering", "unknown"}
ClaimOwned ==
  \A g \in Gateways :
    phase[g] = "claimed" /\ StatusOf(item[g]) = "delivering" => deliveries[item[g]].owner = g
OneClaimant ==
  \A g, h \in Gateways :
    phase[g] = "claimed" /\ phase[h] = "claimed" /\ item[g] = item[h] => g = h
Untouched ==
  \A e \in Executions : Outcome(e) \in {"absent", "pending"} => sends[e] = 0 /\ ~arrived[e]
SentArrived ==
  \A g \in Gateways : phase[g] = "sent" /\ ~error[g] => arrived[item[g]]

Inv ==
  /\ TypeOK /\ HeldItem /\ OneRecord /\ ClaimedUnsent /\ ClaimOwned /\ OneClaimant
  /\ Untouched /\ SentArrived /\ DeliveredArrived /\ AtMostOnce

\* The queue implements the promise.
Promise == INSTANCE AtMostOnceSend WITH outcome <- [e \in Executions |-> Outcome(e)]
PromiseSpec == Promise!Spec

\* While a gateway stays up every requested message reaches an outcome, also
\* one whose worker is gone and one a crashed gateway had claimed.
EventuallySettled ==
  \A e \in Executions :
    Outcome(e) \in {"pending", "delivering"} ~> Outcome(e) \in Terminal
=============================================================================
