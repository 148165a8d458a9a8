------------------------------- MODULE TurnLease -------------------------------
(***************************************************************************)
(* The per-session turn lease of the messaging gateway                     *)
(* (gateway/turn_lease.py, with its callers in gateway/run_turn.py,        *)
(* run_agent_cache.py and run_inbound.py).                                 *)
(*                                                                         *)
(* Several routing keys may resolve to one session id, and each turn loads *)
(* the transcript, runs and writes it back.  A registry of locks, one per  *)
(* session id, serialises those turns.  What makes it delicate is that the *)
(* lock of asyncio is free for a moment between a release and the wake-up  *)
(* of the next waiter, that idle locks are evicted, and that a turn whose  *)
(* session id rotates re-registers its lock under the new id.              *)
(*                                                                         *)
(* Everything runs on one event loop, so an action is what happens between *)
(* two awaits.  A lease object is named after the turn whose acquire()     *)
(* created it: a turn acquires once.                                       *)
(***************************************************************************)
EXTENDS Integers, FiniteSets

CONSTANTS
    Turns,       \* turns, one per (routing key, run generation)
    Sessions,    \* session ids
    MaxEntries,  \* SessionTurnLeaseRegistry._max_entries
    NoLease      \* absent registry entry, holder or lease

ASSUME TurnsFinite == IsFiniteSet(Turns)
ASSUME SessionsFinite == IsFiniteSet(Sessions)
ASSUME MaxEntriesPositive == MaxEntries \in Nat \ {0}
ASSUME NoLeaseIsNoTurn == NoLease \notin Turns

VARIABLES
    registry,  \* session id -> lease
    locked,    \* lease -> lock.locked()
    holder,    \* lease -> the turn whose token is lease.holder
    pending,   \* lease -> pending_acquires
    stage,     \* turn -> where its acquire / turn / release is
    session,   \* turn -> token.session_id
    lease,     \* turn -> token.lease
    ahead      \* turn -> the turns in the lock's waiter deque when it joined

vars == <<registry, locked, holder, pending, stage, session, lease, ahead>>

(***************************************************************************)
(* Stages: "asked" has called acquire() but the lock's coroutine has not   *)
(* run; "queued", "woken", "cancelled" and "doomed" (woken, then           *)
(* cancelled) are in the deque; "granted" has the lock but has not         *)
(* published its token; "displaced" runs on after its slot was taken away. *)
(***************************************************************************)
InDeque == {"queued", "woken", "cancelled", "doomed"}
Acquiring == InDeque \cup {"asked", "granted"}
Stages == Acquiring \cup {"new", "running", "displaced", "refused", "done"}

Waiting(l) == {t \in Turns : lease[t] = l /\ stage[t] \in InDeque}

Init ==
    /\ registry = [s \in Sessions |-> NoLease]
    /\ locked = [l \in Turns |-> FALSE]
    /\ holder = [l \in Turns |-> NoLease]
    /\ pending = [l \in Turns |-> 0]
    /\ stage = [t \in Turns |-> "new"]
    /\ session \in [Turns -> Sessions]
    /\ lease = [t \in Turns |-> NoLease]
    /\ ahead = [t \in Turns |-> {}]

(***************************************************************************)
(* The registry                                                            *)
(***************************************************************************)

\* A bug: idle looks at the lock and its holder only.
IdleByLock(l) == holder[l] = NoLease /\ ~locked[l]

\* _SessionLease.idle
Idle(l) == holder[l] = NoLease /\ ~locked[l] /\ pending[l] = 0

Registered == {s \in Sessions : registry[s] # NoLease}
IdleSessions == {s \in Registered : Idle(registry[s])}
Overflow == Cardinality(Registered) - MaxEntries + 1

\* A bug: the entry about to be added is not counted.
EvictionsOneShort ==
    {gone \in SUBSET IdleSessions :
        \/ Cardinality(gone) = Overflow - 1
        \/ Overflow <= 1 /\ gone = {}
        \/ Cardinality(gone) < Overflow - 1 /\ gone = IdleSessions}

\* _evict_idle drops `Overflow` idle entries, or all when there are fewer.
\* Which ones are oldest is left open.
Evictions ==
    {gone \in SUBSET IdleSessions :
        \/ Cardinality(gone) = Overflow
        \/ Overflow <= 0 /\ gone = {}
        \/ Cardinality(gone) < Overflow /\ gone = IdleSessions}

\* acquire() up to its await: find or create the lease, count the attempt.
Enter(t, l) ==
    /\ lease' = [lease EXCEPT ![t] = l]
    /\ pending' = [pending EXCEPT ![l] = @ + 1]
    /\ stage' = [stage EXCEPT ![t] = "asked"]
    /\ UNCHANGED <<locked, holder, session, ahead>>

AskKnown(t) ==
    /\ stage[t] = "new"
    /\ registry[session[t]] # NoLease
    /\ Enter(t, registry[session[t]])
    /\ UNCHANGED registry

AskNew(t) ==
    /\ stage[t] = "new"
    /\ registry[session[t]] = NoLease
    /\ \E gone \in Evictions :
          registry' = [s \in Sessions |-> IF s = session[t] THEN t
                                          ELSE IF s \in gone THEN NoLease
                                          ELSE registry[s]]
    /\ Enter(t, t)

(***************************************************************************)
(* asyncio.Lock under asyncio.wait_for                                     *)
(***************************************************************************)

\* The first waiter once `gone` have left.
First(t, l, gone) ==
    /\ t \in Waiting(l) \ gone
    /\ ahead[t] \cap (Waiting(l) \ gone) = {}

\* _wake_up_first() while t moves to stage `to`: the first waiter is woken,
\* unless its future is already done.
WakeFirst(t, to) ==
    stage' = [u \in Turns |->
                 IF u = t THEN to
                 ELSE IF First(u, lease[t], {t}) /\ stage[u] = "queued" THEN "woken"
                 ELSE stage[u]]

\* The lock's coroutine runs: it takes a free lock nobody is waiting for, or
\* joins the deque.
TryLock(t) ==
    /\ stage[t] = "asked"
    /\ IF ~locked[lease[t]] /\ \A u \in Waiting(lease[t]) : stage[u] = "cancelled"
          THEN /\ locked' = [locked EXCEPT ![lease[t]] = TRUE]
               /\ stage' = [stage EXCEPT ![t] = "granted"]
               /\ UNCHANGED ahead
          ELSE /\ stage' = [stage EXCEPT ![t] = "queued"]
               /\ ahead' = [ahead EXCEPT ![t] = Waiting(lease[t])]
               /\ UNCHANGED locked
    /\ UNCHANGED <<registry, holder, pending, session, lease>>

\* A woken waiter resumes and takes the lock.
Resume(t) ==
    /\ stage[t] = "woken"
    /\ locked' = [locked EXCEPT ![lease[t]] = TRUE]
    /\ stage' = [stage EXCEPT ![t] = "granted"]
    /\ UNCHANGED <<registry, holder, pending, session, lease, ahead>>

\* The wait budget runs out, or the task is cancelled: the future is
\* cancelled, or the wake-up already on its way will raise.
WaitExpires(t) ==
    /\ \/ stage[t] = "queued" /\ stage' = [stage EXCEPT ![t] = "cancelled"]
       \/ stage[t] = "woken" /\ stage' = [stage EXCEPT ![t] = "doomed"]
    /\ UNCHANGED <<registry, locked, holder, pending, session, lease, ahead>>

(***************************************************************************)
(* acquire() after its await                                               *)
(***************************************************************************)

\* The finally of acquire().
Uncount(l) == pending' = [pending EXCEPT ![l] = @ - 1]

\* The budget runs out before the lock's coroutine ran.
RefusedEarly(t) ==
    /\ stage[t] = "asked"
    /\ stage' = [stage EXCEPT ![t] = "refused"]
    /\ Uncount(lease[t])
    /\ UNCHANGED <<registry, locked, holder, session, lease, ahead>>

\* A bug: an acquire that fails stays counted.
RefusedPinned(t) ==
    /\ stage[t] \in {"cancelled", "doomed"}
    /\ IF locked[lease[t]] THEN stage' = [stage EXCEPT ![t] = "refused"]
                           ELSE WakeFirst(t, "refused")
    /\ UNCHANGED <<registry, locked, holder, pending, session, lease, ahead>>

\* The cancellation is delivered: the waiter leaves the deque, passes the
\* wake-up on when the lock is free, and acquire() fails closed.
Refused(t) ==
    /\ stage[t] \in {"cancelled", "doomed"}
    /\ IF locked[lease[t]] THEN stage' = [stage EXCEPT ![t] = "refused"]
                           ELSE WakeFirst(t, "refused")
    /\ Uncount(lease[t])
    /\ UNCHANGED <<registry, locked, holder, session, lease, ahead>>

\* acquire() returns: the token is published and the turn runs.
Publish(t) ==
    /\ stage[t] = "granted"
    /\ holder' = [holder EXCEPT ![lease[t]] = t]
    /\ stage' = [stage EXCEPT ![t] = "running"]
    /\ Uncount(lease[t])
    /\ UNCHANGED <<registry, locked, session, lease, ahead>>

(***************************************************************************)
(* The turn                                                                *)
(***************************************************************************)

\* A bug: rebind() minds the holder of the new id's lease only.
BlockedByHolder(l, s) == registry[s] \notin {NoLease, l} /\ holder[registry[s]] # NoLease

\* rebind() refuses an id whose own lease is live.
Blocked(l, s) == registry[s] \notin {NoLease, l} /\ ~Idle(registry[s])

\* Compression rotates the session id in mid-turn: rebind() registers the
\* same lease under the new id, and leaves the old entry.
Rebind(t, s) ==
    /\ stage[t] = "running"
    /\ s # session[t]
    /\ ~Blocked(lease[t], s)
    /\ registry' = [registry EXCEPT ![s] = lease[t]]
    /\ session' = [session EXCEPT ![t] = s]
    /\ UNCHANGED <<locked, holder, pending, stage, lease, ahead>>

\* A bug: release() clears the holder but skips the lock.
FreeHolderOnly(t, to) ==
    /\ holder' = [holder EXCEPT ![lease[t]] = NoLease]
    /\ stage' = [stage EXCEPT ![t] = to]
    /\ UNCHANGED <<registry, locked, pending, session, lease, ahead>>

\* The lease of t is freed, and t moves to stage `to`.
Free(t, to) ==
    /\ holder' = [holder EXCEPT ![lease[t]] = NoLease]
    /\ locked' = [locked EXCEPT ![lease[t]] = FALSE]
    /\ IF locked[lease[t]] THEN WakeFirst(t, to)
                           ELSE stage' = [stage EXCEPT ![t] = to]
    /\ UNCHANGED <<registry, pending, session, lease, ahead>>

\* release(): a token that is not the current holder frees nothing.
Release(t, to) ==
    IF holder[lease[t]] = t
       THEN Free(t, to)
       ELSE /\ stage' = [stage EXCEPT ![t] = to]
            /\ UNCHANGED <<registry, locked, holder, pending, session, lease, ahead>>

\* _drop_turn_slot() sweeps the token of a turn that was evicted or stopped
\* but has not unwound.
Displace(t) ==
    /\ stage[t] = "running"
    /\ Release(t, "displaced")

\* A bug: the unwinding turn frees the lease whoever holds it.
UnwindAnyway(t) ==
    /\ stage[t] \in {"running", "displaced"}
    /\ Free(t, "done")

\* The finally of the dispatch: the token is popped and released, unless the
\* sweep popped it before.
Unwind(t) ==
    \/ stage[t] = "running" /\ Release(t, "done")
    \/ /\ stage[t] = "displaced"
       /\ stage' = [stage EXCEPT ![t] = "done"]
       /\ UNCHANGED <<registry, locked, holder, pending, session, lease, ahead>>

LoopStep(t) == TryLock(t) \/ Resume(t) \/ Refused(t) \/ Publish(t) \/ Unwind(t)

Next ==
    \E t \in Turns :
        \/ AskKnown(t) \/ AskNew(t)
        \/ TryLock(t) \/ Resume(t) \/ WaitExpires(t)
        \/ RefusedEarly(t) \/ Refused(t) \/ Publish(t)
        \/ \E s \in Sessions : Rebind(t, s)
        \/ Displace(t) \/ Unwind(t)

Spec == Init /\ [][Next]_vars

\* The event loop runs what is ready, and a turn ends.  Nothing is assumed of
\* timeouts, of displacement or of rotation.
FairSpec == Spec /\ \A t \in Turns : WF_vars(LoopStep(t))

(***************************************************************************)
(* Properties                                                              *)
(***************************************************************************)

TypeOK ==
    /\ registry \in [Sessions -> Turns \cup {NoLease}]
    /\ locked \in [Turns -> BOOLEAN]
    /\ holder \in [Turns -> Turns \cup {NoLease}]
    /\ pending \in [Turns -> Nat]
    /\ stage \in [Turns -> Stages]
    /\ session \in [Turns -> Sessions]
    /\ lease \in [Turns -> Turns \cup {NoLease}]
    /\ ahead \in [Turns -> SUBSET Turns]

\* Two turns never run on one session id at once: whatever evictions,
\* rotations, timeouts and evicted turns came before, and although two routing
\* keys resolve to that id (turn_lease.py: the lease serialises per resolved
\* session id).  A displaced turn has lost its claim and is not counted.
MutualExclusion ==
    \A t, u \in Turns :
        (t # u /\ stage[t] = "running" /\ stage[u] = "running") => session[t] # session[u]

\* A lease nobody is acquiring or holding can be evicted: a wait that timed
\* out or was cancelled, and a turn that was displaced, leave nothing behind
\* that would pin it (acquire()'s finally, _drop_turn_slot()).
NotPinned ==
    \A l \in Turns :
        Idle(l) \/ \E t \in Turns : lease[t] = l /\ stage[t] \in Acquiring \cup {"running"}

\* Creating an entry brings the registry back to its cap, rotations
\* included, unless every other entry is in use (_evict_idle).
CapRestored ==
    [][\A t \in Turns :
          AskNew(t) => \/ Cardinality(Registered') <= MaxEntries
                       \/ \A s \in Registered' \ {session[t]} : ~Idle(registry[s])]_vars

\* A turn that asks for the lease gets it or is refused, also when no timeout
\* ever fires: no wake-up is lost between a release, the cancellation of the
\* waiter it woke, and the next waiter (acquire(), release()).
AskersServed ==
    \A t \in Turns : stage[t] = "asked" ~> stage[t] \in {"running", "displaced", "refused", "done"}

(***************************************************************************)
(* An inductive invariant, for the proofs                                  *)
(***************************************************************************)

Users(l) == {t \in Turns : lease[t] = l /\ stage[t] \in Acquiring}

Counted == \A l \in Turns : pending[l] = Cardinality(Users(l))

\* The lease of a live acquire or turn is the one registered for its session.
Linked ==
    \A t \in Turns : stage[t] \in Acquiring \cup {"running"} =>
        lease[t] \in Turns /\ registry[session[t]] = lease[t]

HolderRuns ==
    \A l, t \in Turns : holder[l] = t <=> stage[t] = "running" /\ lease[t] = l

LockTaken ==
    \A t \in Turns : stage[t] \in {"granted", "running"} => locked[lease[t]]

LockOwned ==
    \A l \in Turns : locked[l] =>
        \E t \in Turns : lease[t] = l /\ stage[t] \in {"granted", "running"}

OneOwner ==
    \A t, u \in Turns :
        (t # u /\ stage[t] \in {"granted", "running"} /\ stage[u] \in {"granted", "running"})
            => lease[t] # lease[u]

\* A waiter that was woken is first in the deque of a free lock.
WokenIsFirst ==
    \A t \in Turns : stage[t] \in {"woken", "doomed"} =>
        ~locked[lease[t]] /\ ahead[t] \cap Waiting(lease[t]) = {}

\* Of two waiters, one came first; who has not waited yet is ahead of nobody.
Ordered ==
    /\ \A t, u \in Turns :
          (t # u /\ lease[t] = lease[u] /\ stage[t] \in InDeque /\ stage[u] \in InDeque)
              => t \in ahead[u] \/ u \in ahead[t]
    /\ \A t, u \in Turns : stage[t] \in {"new", "asked"} => t \notin ahead[u]

Fresh ==
    \A t \in Turns : stage[t] = "new" =>
        /\ ~locked[t]
        /\ lease[t] = NoLease
        /\ \A u \in Turns : lease[u] # t
        /\ \A s \in Sessions : registry[s] # t

\* The lease is coherent: registry, counter, lock, holder and waiters agree.
\* This is what makes MutualExclusion inductive.
Inv ==
    TypeOK /\ Counted /\ Linked /\ HolderRuns /\ LockTaken /\ LockOwned
           /\ OneOwner /\ WokenIsFirst /\ Ordered /\ Fresh
=============================================================================
