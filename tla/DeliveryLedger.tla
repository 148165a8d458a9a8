--------------------------- MODULE DeliveryLedger ---------------------------
(***************************************************************************)
(* The gateway's ledger of owed final replies (gateway/delivery_ledger.py) *)
(* with its callers: the turn that produced the reply (platforms/base.py), *)
(* and the boot sweep, the reconnect sweep and the flood timer             *)
(* (run_startup.py) that send what an earlier attempt did not.             *)
(*                                                                         *)
(* One adapter identity (platform and bot profile) is modelled.  A gateway *)
(* process is one incarnation; its turns, its boot task, its timer and its *)
(* reconnect watcher are coroutines of one event loop, and every ledger    *)
(* call and every send is awaited, so another coroutine or another process *)
(* may run in between.  A claimed row is an in-memory hand of the path     *)
(* that claimed it.                                                        *)
(***************************************************************************)
EXTENDS Naturals, FiniteSets

CONSTANTS
  Replies,      \* obligation ids
  Gateways,     \* gateway process incarnations
  Steady,       \* the incarnations that do not crash
  NoOwner,
  MaxAttempts,  \* MAX_ATTEMPTS
  MaxRows,      \* _MAX_ROWS
  WritesFail    \* whether a ledger write may raise

ASSUME ConstantsAssumption ==
  /\ Steady \subseteq Gateways /\ NoOwner \notin Gateways
  /\ MaxAttempts \in Nat /\ MaxRows \in Nat /\ WritesFail \in BOOLEAN

Errors == {"none", "flood", "degraded", "other"}
Open == {"pending", "attempting", "failed"}
Closed == {"delivered", "abandoned"}

\* waiting: the platform's flood penalty is not over (flood_not_before is to come);
\* stale: older than STALE_AFTER_SECONDS.
Row == [state : {"none"} \cup Open \cup Closed, owner : Gateways \cup {NoOwner},
        attempts : Nat, error : Errors, waiting : BOOLEAN, stale : BOOLEAN]
NoRow == [state |-> "none", owner |-> NoOwner, attempts |-> 0,
          error |-> "none", waiting |-> FALSE, stale |-> FALSE]

Sweeps == {"boot", "reconnect", "timer"}
Paths == Sweeps \cup {"turn"}

\* What a path holds of a reply: whether it is recorded, due to be sent, or sent
\* with this result; whether a marker precedes it; the error it was claimed with.
Hand == [place : {"none", "recorded", "due", "loose", "sent"}, marker : BOOLEAN,
         prior : Errors, result : {"success"} \cup Errors]
Empty == [place |-> "none", marker |-> FALSE, prior |-> "none", result |-> "none"]

VARIABLES
  row,     \* the delivery_obligations table
  life,    \* "new", "up" or "dead"
  hand,    \* hand[g][p][r]
  batch,   \* batch[g][p]: where the sweep of path p stands
  seen,    \* the rows the boot sweep's SELECT returned and it has still to judge
  held,    \* history: which of them belonged to a running process at the SELECT
  timer,   \* the flood redelivery worker
  wake,    \* its asyncio.Event
  found,   \* whether its last SELECT returned a deadline
  owed,    \* history: replies recorded so far
  plain,   \* history: sends without a marker
  marked,  \* history: sends with one
  arrived, \* history: whether the recipient has the reply
  late     \* history: what a boot sweep claimed though a running process held it at the SELECT

flood == <<timer, wake, found>>
sight == <<seen, held>>
world == <<owed, plain, marked, arrived, late>>
vars == <<row, life, hand, batch, sight, flood, world>>

TypeOK ==
  /\ row \in [Replies -> Row]
  /\ \A r \in Replies : row[r].state # "none" => row[r].owner \in Gateways
  /\ life \in [Gateways -> {"new", "up", "dead"}]
  /\ hand \in [Gateways -> [Paths -> [Replies -> Hand]]]
  /\ batch \in [Gateways -> [Sweeps -> {"idle", "scanned", "sending", "done"}]]
  /\ seen \in [Gateways -> [Replies -> Row]]
  /\ held \in [Gateways -> SUBSET Replies]
  /\ timer \in [Gateways -> {"none", "head", "reading", "read", "sleeping", "sweeping"}]
  /\ wake \in [Gateways -> BOOLEAN]
  /\ found \in [Gateways -> BOOLEAN]
  /\ owed \in [Replies -> BOOLEAN]
  /\ plain \in [Replies -> Nat]
  /\ marked \in [Replies -> Nat]
  /\ arrived \in [Replies -> BOOLEAN]
  /\ late \in [Gateways -> SUBSET Replies]

NoHands == [p \in Paths |-> [r \in Replies |-> Empty]]
NoBatch == [p \in Sweeps |-> "idle"]
NothingSeen == [r \in Replies |-> NoRow]

Init ==
  /\ row = [r \in Replies |-> NoRow]
  /\ life = [g \in Gateways |-> "new"]
  /\ hand = [g \in Gateways |-> NoHands]
  /\ batch = [g \in Gateways |-> NoBatch]
  /\ seen = [g \in Gateways |-> NothingSeen]
  /\ held = [g \in Gateways |-> {}]
  /\ timer = [g \in Gateways |-> "none"]
  /\ wake = [g \in Gateways |-> FALSE]
  /\ found = [g \in Gateways |-> FALSE]
  /\ owed = [r \in Replies |-> FALSE]
  /\ plain = [r \in Replies |-> 0]
  /\ marked = [r \in Replies |-> 0]
  /\ arrived = [r \in Replies |-> FALSE]
  /\ late = [g \in Gateways |-> {}]

(***************************************************************************)
(* Processes                                                               *)
(***************************************************************************)
Start(g) ==
  /\ life[g] = "new"
  /\ life' = [life EXCEPT ![g] = "up"]
  /\ UNCHANGED <<row, hand, batch, sight, flood, world>>

Crash(g) ==
  /\ life[g] = "up" /\ g \notin Steady
  /\ life' = [life EXCEPT ![g] = "dead"]
  /\ hand' = [hand EXCEPT ![g] = NoHands]
  /\ batch' = [batch EXCEPT ![g] = NoBatch]
  /\ seen' = [seen EXCEPT ![g] = NothingSeen]
  /\ held' = [held EXCEPT ![g] = {}]
  /\ timer' = [timer EXCEPT ![g] = "none"]
  /\ wake' = [wake EXCEPT ![g] = FALSE]
  /\ found' = [found EXCEPT ![g] = FALSE]
  /\ UNCHANGED <<row, world>>

\* _owner_alive: a pid whose start time cannot be read counts as alive.
OwnerAlive(owner) == owner # NoOwner /\ life[owner] = "up"

(***************************************************************************)
(* Rows                                                                    *)
(***************************************************************************)
Rows(table) == {r \in Replies : table[r].state # "none"}
ClosedRows(table) == {r \in Replies : table[r].state \in Closed}

\* _prune: any closed rows may have passed the retention, and rows beyond
\* MaxRows go, delivered ones first, then abandoned ones.  Which rows of a class
\* go (the code: the least recently updated) is left open.
\* Mutant: closed rows go no earlier than open ones.
RankByAgeOnly(table, r) == 0

Rank(table, r) ==
  CASE table[r].state = "delivered" -> 0 [] table[r].state = "abandoned" -> 1 [] OTHER -> 2

Excess(kept) == IF Cardinality(kept) > MaxRows THEN Cardinality(kept) - MaxRows ELSE 0

Prune(table) ==
  \E old \in SUBSET ClosedRows(table) :
    \E gone \in SUBSET (Rows(table) \ old) :
      /\ Cardinality(gone) = Excess(Rows(table) \ old)
      /\ \A r \in gone, q \in (Rows(table) \ old) \ gone : Rank(table, r) <= Rank(table, q)
      /\ row' = [r \in Replies |-> IF r \in old \cup gone THEN NoRow ELSE table[r]]

\* _update_state: an UPDATE by id alone; mark_failed starts the flood wait.
Updated(r, state, error) ==
  IF row[r].state = "none" THEN NoRow
  ELSE [state |-> state, owner |-> row[r].owner, attempts |-> row[r].attempts,
        error |-> error, waiting |-> error = "flood", stale |-> row[r].stale]

Exhausted(x) == x.attempts >= MaxAttempts \/ x.stale

\* What pending_flood_retries returns to process g.
FloodRows(g) ==
  {r \in Replies : /\ row[r].state = "failed" /\ row[r].owner = g
                   /\ row[r].error = "flood" /\ ~Exhausted(row[r])}

\* Time: flood_not_before, and created_at + STALE_AFTER_SECONDS, are reached.
WaitPasses(r) ==
  /\ row[r].waiting
  /\ row' = [row EXCEPT ![r].waiting = FALSE]
  /\ UNCHANGED <<life, hand, batch, sight, flood, world>>

Age(r) ==
  /\ row[r].state # "none" /\ ~row[r].stale
  /\ row' = [row EXCEPT ![r].stale = TRUE]
  /\ UNCHANGED <<life, hand, batch, sight, flood, world>>

(***************************************************************************)
(* The flood redelivery worker of a process                                *)
(***************************************************************************)
\* _schedule_flood_redelivery: start the worker, or tell the running one.
Schedule(g) ==
  IF timer[g] = "none"
    THEN timer' = [timer EXCEPT ![g] = "head"] /\ UNCHANGED <<wake, found>>
    ELSE wake' = [wake EXCEPT ![g] = TRUE] /\ UNCHANGED <<timer, found>>

TimerClears(g) ==
  /\ timer[g] = "head"
  /\ wake' = [wake EXCEPT ![g] = FALSE]
  /\ timer' = [timer EXCEPT ![g] = "reading"]
  /\ UNCHANGED <<row, life, hand, batch, sight, found, world>>

\* The SELECT runs in a thread, so the loop goes on meanwhile.
TimerReads(g) ==
  /\ timer[g] = "reading"
  /\ found' = [found EXCEPT ![g] = FloodRows(g) # {}]
  /\ timer' = [timer EXCEPT ![g] = "read"]
  /\ UNCHANGED <<row, life, hand, batch, sight, wake, world>>

\* Mutant: the worker retires on an empty answer without looking at its wake event.
TimerDecidesDeaf(g) ==
  /\ timer[g] = "read"
  /\ timer' = [timer EXCEPT ![g] = IF found[g] THEN "sleeping" ELSE "none"]
  /\ found' = [found EXCEPT ![g] = FALSE]
  /\ UNCHANGED <<row, life, hand, batch, sight, wake, world>>

TimerDecides(g) ==
  /\ timer[g] = "read"
  /\ timer' = [timer EXCEPT ![g] =
       IF found[g] THEN "sleeping" ELSE IF wake[g] THEN "head" ELSE "none"]
  /\ found' = [found EXCEPT ![g] = FALSE]
  /\ UNCHANGED <<row, life, hand, batch, sight, wake, world>>

TimerIsWoken(g) ==
  /\ timer[g] = "sleeping" /\ wake[g]
  /\ timer' = [timer EXCEPT ![g] = "head"]
  /\ UNCHANGED <<row, life, hand, batch, sight, wake, found, world>>

(***************************************************************************)
(* Sweeps: claiming                                                        *)
(***************************************************************************)
\* Mutant: only a recorded error calls for a marker.
ClaimedAfterError(marker, prior) ==
  [place |-> "due", marker |-> prior # "none", prior |-> prior, result |-> "none"]

Claimed(marker, prior) ==
  [place |-> "due", marker |-> marker, prior |-> prior, result |-> "none"]

\* sweep_recoverable, its SELECT; a process runs it once, when it comes up.  It returns
\* every open row; whether its owner lives is asked later, row by row, and of the
\* process's own rows the answer is known.
BootScan(g) ==
  /\ life[g] = "up" /\ batch[g]["boot"] = "idle"
  /\ seen' = [seen EXCEPT ![g] =
       [r \in Replies |-> IF row[r].state \in Open /\ row[r].owner # g THEN row[r] ELSE NoRow]]
  /\ held' = [held EXCEPT ![g] =
       {r \in Replies : row[r].state \in Open /\ row[r].owner # g /\ OwnerAlive(row[r].owner)}]
  /\ batch' = [batch EXCEPT ![g]["boot"] = "scanned"]
  /\ UNCHANGED <<row, life, hand, flood, world>>

\* "A live gateway still owns this row": the row is passed over.
BootSkips(g, r) ==
  /\ batch[g]["boot"] = "scanned"
  /\ seen[g][r].state # "none" /\ OwnerAlive(seen[g][r].owner)
  /\ seen' = [seen EXCEPT ![g][r] = NoRow]
  /\ held' = [held EXCEPT ![g] = @ \ {r}]
  /\ UNCHANGED <<row, life, hand, batch, flood, world>>

\* Mutant: the UPDATE is not guarded by the owner stamp.
UnchangedUnchecked(g, r) == TRUE

Unchanged(g, r) == row[r].owner = seen[g][r].owner

\* Its UPDATEs, one transaction, when the owners of the rows that are left are gone.
\* State, attempts and error are judged as the SELECT returned them.  Exhausted rows
\* are abandoned, rows whose adapter is not connected are left, a flood row still
\* waiting is adopted, the others are claimed; only a flood row changes its state.
\* The guard is the owner stamp.
BootClaim(g) ==
  /\ batch[g]["boot"] = "scanned"
  /\ \A r \in Replies : ~OwnerAlive(seen[g][r].owner)
  /\ \E connected \in BOOLEAN :
       LET open == {r \in Replies : seen[g][r].state \in Open}
           spent == {r \in open : Exhausted(seen[g][r])}
           mine == {r \in open \ spent : connected /\ Unchanged(g, r) /\ row[r].state # "none"}
           isFlood(r) == seen[g][r].state = "failed" /\ seen[g][r].error = "flood"
           adopted == {r \in mine : isFlood(r) /\ seen[g][r].waiting}
           claimed == mine \ adopted
       IN  /\ row' = [r \in Replies |->
                CASE r \in spent /\ row[r].state # "none" -> [row[r] EXCEPT !.state = "abandoned"]
                  [] r \in adopted -> [row[r] EXCEPT !.owner = g]
                  [] r \in claimed ->
                       [state |-> IF isFlood(r) THEN "attempting" ELSE row[r].state,
                        owner |-> g, attempts |-> row[r].attempts + 1,
                        error |-> IF isFlood(r) THEN "none" ELSE row[r].error,
                        waiting |-> row[r].waiting /\ ~isFlood(r), stale |-> row[r].stale]
                  [] OTHER -> row[r]]
           /\ hand' = [hand EXCEPT ![g]["boot"] = [r \in Replies |->
                IF r \in claimed
                  THEN Claimed(seen[g][r].state # "pending", seen[g][r].error) ELSE Empty]]
           /\ late' = [late EXCEPT ![g] = @ \cup (claimed \cap held[g])]
  /\ batch' = [batch EXCEPT ![g]["boot"] = "sending"]
  /\ seen' = [seen EXCEPT ![g] = NothingSeen]
  /\ held' = [held EXCEPT ![g] = {}]
  /\ UNCHANGED <<life, flood, owed, plain, marked, arrived>>

\* Mutant: a runtime claim spends no attempt.
RuntimeClaimFree(g, p) ==
  LET mine == {r \in Replies : /\ row[r].state = "failed" /\ row[r].owner = g
                               /\ row[r].error \in {"flood", "degraded"}}
      spent == {r \in mine : Exhausted(row[r])}
      claimed == {r \in mine \ spent : ~(row[r].error = "flood" /\ row[r].waiting)}
  IN  /\ row' = [r \in Replies |->
           CASE r \in spent -> [row[r] EXCEPT !.state = "abandoned"]
             [] r \in claimed -> [row[r] EXCEPT !.state = "attempting", !.error = "none"]
             [] OTHER -> row[r]]
      /\ hand' = [hand EXCEPT ![g][p] = [r \in Replies |->
           IF r \in claimed THEN Claimed(TRUE, row[r].error) ELSE Empty]]
      /\ batch' = [batch EXCEPT ![g][p] = IF claimed = {} THEN "idle" ELSE "sending"]

\* sweep_failed_for_runtime: one transaction, serialised with the process's own
\* other ledger calls, on rows no other process touches while this one is up.
RuntimeClaim(g, p) ==
  LET mine == {r \in Replies : /\ row[r].state = "failed" /\ row[r].owner = g
                               /\ row[r].error \in {"flood", "degraded"}}
      spent == {r \in mine : Exhausted(row[r])}
      claimed == {r \in mine \ spent : ~(row[r].error = "flood" /\ row[r].waiting)}
  IN  /\ row' = [r \in Replies |->
           CASE r \in spent -> [row[r] EXCEPT !.state = "abandoned"]
             [] r \in claimed ->
                  [state |-> "attempting", owner |-> g, attempts |-> row[r].attempts + 1,
                   error |-> "none", waiting |-> FALSE, stale |-> row[r].stale]
             [] OTHER -> row[r]]
      /\ hand' = [hand EXCEPT ![g][p] = [r \in Replies |->
           IF r \in claimed THEN Claimed(TRUE, row[r].error) ELSE Empty]]
      /\ batch' = [batch EXCEPT ![g][p] = IF claimed = {} THEN "idle" ELSE "sending"]

\* The adapter has reconnected, or was replaced under a turn's send.
Reconnect(g) ==
  /\ life[g] = "up" /\ batch[g]["reconnect"] = "idle"
  /\ RuntimeClaim(g, "reconnect")
  /\ UNCHANGED <<life, sight, flood, world>>

TimerFires(g) ==
  /\ timer[g] = "sleeping"
  /\ RuntimeClaim(g, "timer")
  /\ timer' = [timer EXCEPT ![g] = "sweeping"]
  /\ UNCHANGED <<life, sight, wake, found, world>>

(***************************************************************************)
(* Sending                                                                 *)
(***************************************************************************)
Put(g, p, r, h) == hand' = [hand EXCEPT ![g][p][r] = h]

\* The turn's final reply: record_obligation with its prune, then mark_attempting.
Record(g, r) ==
  /\ life[g] = "up" /\ ~owed[r]
  /\ owed' = [owed EXCEPT ![r] = TRUE]
  /\ Prune([row EXCEPT ![r] = [NoRow EXCEPT !.state = "pending", !.owner = g]])
  /\ Put(g, "turn", r, [Empty EXCEPT !.place = "recorded"])
  /\ UNCHANGED <<life, batch, sight, flood, plain, marked, arrived, late>>

MarkAttempting(g, r) ==
  /\ hand[g]["turn"][r].place = "recorded"
  /\ row' = [row EXCEPT ![r] = Updated(r, "attempting", "none")]
  /\ Put(g, "turn", r, Claimed(FALSE, "none"))
  /\ UNCHANGED <<life, batch, sight, flood, world>>

\* mark_attempting raises: the reply goes out with no obligation attached.
MarkAttemptingRaises(g, r) ==
  /\ WritesFail /\ hand[g]["turn"][r].place = "recorded"
  /\ Put(g, "turn", r, [Empty EXCEPT !.place = "loose"])
  /\ UNCHANGED <<row, life, batch, sight, flood, world>>

\* A platform may have taken a reply, or its first chunks, and still report a failure.
Transmit(r, marker, result) ==
  /\ plain' = [plain EXCEPT ![r] = IF marker THEN @ ELSE @ + 1]
  /\ marked' = [marked EXCEPT ![r] = IF marker THEN @ + 1 ELSE @]
  /\ \E got \in BOOLEAN :
       /\ result = "success" => got
       /\ arrived' = [arrived EXCEPT ![r] = @ \/ got]
  /\ UNCHANGED <<owed, late>>

InFlight(g, p) == \E r \in Replies : hand[g][p][r].place = "sent"

\* adapter.send; a sweep sends its rows one after the other.
Send(g, p, r) ==
  /\ hand[g][p][r].place = "due" /\ (p \in Sweeps => ~InFlight(g, p))
  /\ \E result \in {"success", "flood", "degraded", "other"} :
       /\ Transmit(r, hand[g][p][r].marker, result)
       /\ Put(g, p, r, [hand[g][p][r] EXCEPT !.place = "sent", !.result = result])
  /\ UNCHANGED <<row, life, batch, sight, flood>>

SendLoose(g, r) ==
  /\ hand[g]["turn"][r].place = "loose"
  /\ \E result \in {"success", "other"} : Transmit(r, FALSE, result)
  /\ Put(g, "turn", r, Empty)
  /\ UNCHANGED <<row, life, batch, sight, flood>>

\* mark_delivered or mark_failed; a turn refused by flood control arms the timer.
Settle(g, p, r) ==
  /\ hand[g][p][r].place = "sent"
  /\ LET result == hand[g][p][r].result
     IN  /\ row' = [row EXCEPT ![r] = IF result = "success"
                      THEN Updated(r, "delivered", "none") ELSE Updated(r, "failed", result)]
         /\ IF p = "turn" /\ result = "flood" THEN Schedule(g) ELSE UNCHANGED flood
  /\ Put(g, p, r, Empty)
  /\ UNCHANGED <<life, batch, sight, world>>

\* The ledger write raises and is logged.
SettleRaises(g, p, r) ==
  /\ WritesFail /\ hand[g][p][r].place = "sent"
  /\ Put(g, p, r, Empty)
  /\ UNCHANGED <<row, life, batch, sight, flood, world>>

\* release_runtime_claim gives the attempt back.
GivenBack(r, prior) ==
  [state |-> "failed", owner |-> row[r].owner,
   attempts |-> IF row[r].attempts > 0 THEN row[r].attempts - 1 ELSE 0,
   error |-> prior, waiting |-> prior = "flood", stale |-> row[r].stale]

\* The resume flag could not be cleared or the adapter is gone again: a runtime
\* claim is given back, a boot claim is just dropped.
Release(g, p, r) ==
  /\ p \in Sweeps /\ hand[g][p][r].place = "due" /\ ~InFlight(g, p)
  /\ row' = [row EXCEPT ![r] =
       IF p # "boot" /\ row[r].state = "attempting" /\ row[r].owner = g
         THEN GivenBack(r, hand[g][p][r].prior) ELSE row[r]]
  /\ Put(g, p, r, Empty)
  /\ UNCHANGED <<life, batch, sight, flood, world>>

\* A sweep's rows are done: _arm_flood_timers_for_waiting_rows.
BatchEnds(g, p) ==
  /\ batch[g][p] = "sending"
  /\ \A r \in Replies : hand[g][p][r].place = "none"
  /\ batch' = [batch EXCEPT ![g][p] = IF p = "boot" THEN "done" ELSE "idle"]
  /\ IF FloodRows(g) # {} THEN Schedule(g) ELSE UNCHANGED flood
  /\ UNCHANGED <<row, life, hand, sight, world>>

TimerSwept(g) ==
  /\ timer[g] = "sweeping" /\ batch[g]["timer"] = "idle"
  /\ timer' = [timer EXCEPT ![g] = "head"]
  /\ UNCHANGED <<row, life, hand, batch, sight, wake, found, world>>

-----------------------------------------------------------------------------
TimerStep(g) ==
  \/ TimerClears(g) \/ TimerReads(g) \/ TimerDecides(g) \/ TimerIsWoken(g)
  \/ TimerFires(g) \/ TimerSwept(g)

HandStep(g, p, r) == Send(g, p, r) \/ Settle(g, p, r) \/ SettleRaises(g, p, r) \/ Release(g, p, r)

TurnStep(g, r) == MarkAttempting(g, r) \/ MarkAttemptingRaises(g, r) \/ SendLoose(g, r)

BootStep(g) == BootScan(g) \/ BootClaim(g) \/ \E r \in Replies : BootSkips(g, r)

Next ==
  \/ \E g \in Gateways :
       \/ Start(g) \/ Crash(g) \/ BootStep(g) \/ Reconnect(g) \/ TimerStep(g)
       \/ \E p \in Sweeps : BatchEnds(g, p)
       \/ \E r \in Replies :
            \/ Record(g, r) \/ TurnStep(g, r)
            \/ \E p \in Paths : HandStep(g, p, r)
  \/ \E r \in Replies : WaitPasses(r) \/ Age(r)

Spec == Init /\ [][Next]_vars

\* The event loop of a running gateway runs every ready coroutine, sends have
\* timeouts, and penalties end.
Fairness ==
  /\ \A g \in Steady :
       /\ WF_vars(BootStep(g)) /\ WF_vars(TimerStep(g))
       /\ \A p \in Sweeps : WF_vars(BatchEnds(g, p))
       /\ \A p \in Paths, r \in Replies : WF_vars(HandStep(g, p, r))
  /\ \A r \in Replies : WF_vars(WaitPasses(r))

FairSpec == Spec /\ Fairness
(***************************************************************************)
(* Properties                                                              *)
(***************************************************************************)
Holds(g, p, r) == hand[g][p][r].place \in {"due", "sent"}

\* "A live gateway still owns this row": two running gateways never both hold a
\* reply for sending, however their boot sweeps race.
OneGatewaySends ==
  \A r \in Replies, g, h \in Gateways :
    (\E p \in Paths : Holds(g, p, r)) /\ (\E p \in Paths : Holds(h, p, r)) => g = h

\* A reply on record as delivered has reached the recipient.
DeliveredArrived == \A r \in Replies : row[r].state = "delivered" => arrived[r]

\* A reply whose row says that an attempt began, failed or succeeded is only in hand for
\* a resend with a visible marker, unless its owner was still up when the boot sweep that
\* claimed it ran its SELECT: such a row may have moved on before its owner died.
MarkedUnlessPending ==
  \A g \in Gateways, p \in Sweeps, r \in Replies :
    hand[g][p][r].place = "due" /\ ~hand[g][p][r].marker /\ r \notin late[g]
      => row[r].state \in {"pending", "none", "abandoned"}

\* The attempts cap: a reply is sent once by its turn and at most MaxAttempts
\* times after that, over all crashes, reconnects and released claims; once more if a
\* boot sweep claimed it by a count its owner had still added to.
LateClaims(r) == IF \E g \in Gateways : r \in late[g] THEN 1 ELSE 0
BoundedSends == \A r \in Replies : plain[r] + marked[r] <= MaxAttempts + 1 + LateClaims(r)

\* What makes the above inductive.  A row was recorded by a process that has been up;
\* what is not owed yet is nowhere.
Recorded ==
  /\ \A r \in Replies : row[r].state # "none" => owed[r] /\ life[row[r].owner] # "new"
  /\ \A g \in Gateways, p \in Paths, r \in Replies : hand[g][p][r].place # "none" => owed[r]
  /\ \A r \in Replies : ~owed[r] => plain[r] + marked[r] = 0

\* Only a running process sweeps and has a flood worker.
Running ==
  \A g \in Gateways : life[g] # "up" => timer[g] = "none" /\ \A p \in Sweeps : batch[g][p] = "idle"

\* Only a running process has replies in hand, one process has each, and it owns the row.
Has(g, r) == \E p \in Paths : hand[g][p][r].place # "none"
InHand ==
  \A g \in Gateways, r \in Replies : Has(g, r) =>
    /\ life[g] = "up"
    /\ row[r].state # "none" => row[r].owner = g
OneHolder == \A g, h \in Gateways, r \in Replies : Has(g, r) /\ Has(h, r) => g = h

\* What a boot scan has seen.  While the owner it saw lives the row is with that owner,
\* and a row it saw with a dead owner is as it was, or abandoned, as long as that owner is
\* on it; a row seen below the cap is no further than the cap.
SeenWasOpen ==
  \A g \in Gateways, r \in Replies :
    LET then == seen[g][r]
    IN  then.state # "none" =>
          /\ then.state \in Open /\ then.owner \in Gateways /\ life[then.owner] # "new"
          /\ owed[r]
          /\ r \notin held[g] => life[then.owner] = "dead"
          /\ row[r].state # "none" /\ life[then.owner] = "up" => row[r].owner = then.owner
          /\ row[r].state # "none" /\ row[r].owner = then.owner =>
               /\ then.attempts < MaxAttempts => row[r].attempts <= MaxAttempts
               /\ r \notin held[g] =>
                    /\ row[r].state \in {then.state, "abandoned"}
                    /\ row[r].attempts = then.attempts

\* An unmarked resend is a boot sweep's, and but for a late claim the only thing its
\* process has in hand of a reply.
PlainIsAlone ==
  \A g \in Gateways, p \in Sweeps, r \in Replies :
    hand[g][p][r].place = "due" /\ ~hand[g][p][r].marker =>
      /\ p = "boot"
      /\ r \notin late[g] =>
           /\ \A q \in Paths \ {p} : hand[g][q][r].place = "none"
           /\ row[r].state \in {"pending", "none", "abandoned"}

SuccessArrived ==
  \A g \in Gateways, p \in Paths, r \in Replies :
    hand[g][p][r].place = "sent" /\ hand[g][p][r].result = "success" => arrived[r]

\* The sends made and the sends in hand are covered by the attempts on record, or by the
\* cap once the row is gone.
InTurn(r) ==
  {x \in Gateways \X Paths : hand[x[1]][x[2]][r].place \in {"recorded", "due", "loose"}}
Cap(r) == MaxAttempts + LateClaims(r)
Budget(r) == IF row[r].state = "none" THEN Cap(r) ELSE row[r].attempts
Covered ==
  \A r \in Replies :
    /\ row[r].state # "none" => row[r].attempts <= Cap(r)
    /\ IsFiniteSet(InTurn(r))
    /\ plain[r] + marked[r] + Cardinality(InTurn(r)) <= Budget(r) + 1

Inv ==
  /\ TypeOK /\ Recorded /\ Running /\ InHand /\ OneHolder /\ SeenWasOpen
  /\ DeliveredArrived /\ SuccessArrived /\ PlainIsAlone /\ Covered

\* An open obligation, also the one whose recording overflows the table, is dropped
\* only when no delivered or abandoned one is left.
OverflowDropsClosedFirst ==
  [][\A r \in Replies :
       (row[r].state \in Open \/ owed'[r] # owed[r]) /\ row'[r].state = "none"
         => ClosedRows(row') = {}]_vars

\* "Two reconnect paths cannot send the same row": not so after a boot claim, which no
\* run therefore asks for (README, section 4).
OneSendAtATime ==
  \A r \in Replies, g \in Gateways, p, q \in Paths :
    Holds(g, p, r) /\ Holds(g, q, r) => p = q

\* "Never silently resend an ambiguous send": at most one send goes out plain.
NoSilentResend == \A r \in Replies : plain[r] <= 1

\* "No flood-refused reply waits for the next restart": while its gateway runs, a
\* refused reply is tried again unless its attempts are spent or it is stale.
FloodRepliesRetried ==
  \A g \in Steady, r \in Replies : r \in FloodRows(g) ~> r \notin FloodRows(g)
=============================================================================
