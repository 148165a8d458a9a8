-------------------------- MODULE SessionTranscript --------------------------
(***************************************************************************)
(* The transcript of one conversation in state.db: the turn lease that     *)
(* admits one process at a time (agent/turn_facade_lease.py), the flush of *)
(* a turn's own rows under it, and compaction under a lock of its own,     *)
(* which archives the rows up to a watermark in place or rotates the       *)
(* session to a child, while unfenced writers append.  Every action is a   *)
(* write transaction, or the reads that lead up to one.                    *)
(*                                                                         *)
(* A row stands for a set of messages: one of its own, or those that a     *)
(* summary covers.  A turn has one message to store.                       *)
(***************************************************************************)
EXTENDS Naturals, FiniteSets

CONSTANTS
  Turns,      \* turns, each in a process of its own; also their messages
  Cleaners,   \* in-place compactions that a host starts beside the turns, without the lease
  Notes,      \* messages that are mirrored into the transcript
  Deliveries, \* results of detached work, delivered between turns
  Frail,      \* the actors that may stall or die
  Nobody,
  Seed,       \* the message the conversation starts with
  Modes,      \* how turns are configured to compact: "inplace", "rotate" or either
  MaxSegments, \* bound on the sessions of the conversation
  MaxBeside   \* bound on what happens beside the turns: appends by others, cleaners

Actors == Turns \cup Cleaners
Messages == Turns \cup Notes \cup Deliveries \cup {Seed}
Segments == 1 .. MaxSegments

ASSUME ConstantsAssumption ==
  /\ Frail \subseteq Actors
  /\ Turns \cap Cleaners = {} /\ Nobody \notin Actors
  /\ Seed \notin Turns \cup Notes \cup Deliveries
  /\ Turns \cap (Notes \cup Deliveries) = {} /\ Notes \cap Deliveries = {}
  /\ Modes \subseteq {"inplace", "rotate"}
  /\ MaxSegments \in Nat \ {0} /\ MaxBeside \in Nat

Claim == [by : Actors \cup {Nobody}, fresh : BOOLEAN]
Free == [by |-> Nobody, fresh |-> FALSE]
Row == [id : Nat, of : SUBSET Messages]

\* end is the end_reason of the session, lock the claim of its compression lock.
Session ==
  [end : {"unused", "open", "automatic", "deliberate", "compression"}, parent : Segments \cup {0},
   rows : SUBSET Row, lock : Claim]

\* sid is agent.session_id, held the session of its compression lock, mem how many
\* messages the agent has in memory and what they cover, owed whether the turn's own
\* message is unflushed, mark and ceil the watermarks, stalled whether refreshing has stopped.
Stages == {"idle", "loaded", "waiting", "served", "admitted", "running", "locked", "captured",
           "summary", "rotating", "ceiled", "publishing", "closing", "compacted", "over", "dead"}
Actor ==
  [at : Stages, sid : Segments, held : Segments, mem : [len : Nat, of : SUBSET Messages],
   owed : BOOLEAN, mark : Nat, ceil : Nat, stalled : BOOLEAN]

VARIABLES
  ses,      \* the sessions of the conversation, with their active rows and compression locks
  lastId,   \* the row id given out last
  lease,    \* session_turn_leases, by conversation
  act,      \* the turns and the cleaners
  latest,   \* history: the turn admitted last, unless something was delivered since
  appended, \* history: the messages that were appended
  tail,     \* history: what was appended since the watermark of a compaction under way
  reread    \* history: what a rotation took over from behind its watermark

vars == <<ses, lastId, lease, act, latest, appended, tail, reread>>

TypeOK ==
  /\ ses \in [Segments -> Session]
  /\ lastId \in Nat
  /\ lease \in [Segments -> Claim]
  /\ act \in [Actors -> Actor]
  /\ latest \in Turns \cup {Nobody}
  /\ appended \in SUBSET Messages
  /\ tail \in [Actors -> SUBSET Messages]
  /\ reread \in SUBSET Messages

Unused == [end |-> "unused", parent |-> 0, rows |-> {}, lock |-> Free]
Opened == [end |-> "open", parent |-> 0, rows |-> {[id |-> 1, of |-> {Seed}]}, lock |-> Free]
New == [at |-> "idle", sid |-> 1, held |-> 1, mem |-> [len |-> 0, of |-> {}], owed |-> FALSE,
        mark |-> 0, ceil |-> 0, stalled |-> FALSE]

Init ==
  /\ ses = [s \in Segments |-> IF s = 1 THEN Opened ELSE Unused]
  /\ lastId = 1
  /\ lease = [s \in Segments |-> Free]
  /\ act = [a \in Actors |-> New]
  /\ latest = Nobody
  /\ appended = {Seed}
  /\ tail = [a \in Actors |-> {}]
  /\ reread = {}

(***************************************************************************)
(* Sessions, rows and claims                                               *)
(***************************************************************************)
Used(s) == ses[s].end # "unused"
Rotated(s) == ses[s].end = "compression"

\* Mutant: the lease is keyed by the session and not by the conversation.
RootItself(s) == s

\* _session_turn_lease_key_on_conn: every segment of a conversation has the lease of its root.
Root(s) ==
  LET root[x \in Segments] ==
        IF ses[x].parent # 0 /\ Rotated(ses[x].parent) THEN root[ses[x].parent] ELSE x
  IN  root[s]

\* get_compression_tip: the end of the chain of continuations.
Continuations(s) == {k \in Segments : Used(k) /\ ses[k].parent = s}
Newest(S) == CHOOSE k \in S : \A j \in S : j <= k
Tip(s) ==
  LET tip[x \in Segments] ==
        IF Rotated(x) /\ Continuations(x) # {} THEN tip[Newest(Continuations(x))] ELSE x
  IN  tip[s]

\* Only a continuation that is still live is adopted.
Adoptable(s) == Rotated(s) /\ Tip(s) # s /\ ses[Tip(s)].end = "open"
Adopted(s) == IF Adoptable(s) THEN Tip(s) ELSE s

Covers(rows) == UNION {r.of : r \in rows}
Covered(s) == Covers(ses[s].rows)
Watermark(s) == Newest({0} \cup {r.id : r \in ses[s].rows})
Loaded(s) == [len |-> Cardinality(ses[s].rows), of |-> Covers(ses[s].rows)]

\* _claim_lease_row: expired, or held by a process that is dead.
Stale(c) == c.by # Nobody /\ (~c.fresh \/ act[c.by].at = "dead")
Claimable(c) == c.by = Nobody \/ Stale(c)
HeldBy(a) == [by |-> a, fresh |-> TRUE]

Leases(a, s) == lease[Root(s)].by = a
Locks(a) == ses[act[a].held].lock.by = a

(***************************************************************************)
(* Updates                                                                 *)
(***************************************************************************)
Becomes(a, r) == act' = [act EXCEPT ![a] = r]
Moves(a, stage) == Becomes(a, [act[a] EXCEPT !.at = stage])
Leaves(a, stage) == Becomes(a, [New EXCEPT !.at = stage])
At(a, stages) == act[a].at \in stages
SessionIs(s, r) == ses' = [ses EXCEPT ![s] = r]
LeaseIs(s, c) == lease' = [lease EXCEPT ![Root(s)] = c]

\* Appending to s: a row behind the watermark of the compactions of s under way.
Own(m) == [id |-> lastId + 1, of |-> {m}]
Behind(s, m) ==
  [a \in Actors |->
     IF At(a, {"captured", "summary", "rotating"}) /\ act[a].held = s THEN tail[a] \cup {m} ELSE tail[a]]

Appends(s, m) ==
  /\ SessionIs(s, [ses[s] EXCEPT !.rows = ses[s].rows \cup {Own(m)}])
  /\ lastId' = lastId + 1
  /\ appended' = appended \cup {m}
  /\ tail' = Behind(s, m)

\* What happens beside the turns is bounded.
Beside == (appended \ (Turns \cup {Seed})) \cup {c \in Cleaners : ~At(c, {"idle"})}
Ended == {s \in Segments : ses[s].end \in {"automatic", "deliberate"}}
Quiet == Cardinality(Beside) + Cardinality(Ended) < MaxBeside

(***************************************************************************)
(* Admission and the turn (turn_facade_lease.py, turn_context.py)          *)
(***************************************************************************)
\* The host has the conversation's history before it starts the turn.
Load(t) ==
  /\ At(t, {"idle"}) /\ ses[Tip(1)].end # "deliberate"
  /\ Becomes(t, [act[t] EXCEPT !.at = "loaded", !.sid = Tip(1), !.mem = Loaded(Tip(1))])
  /\ UNCHANGED <<ses, lastId, lease, latest, appended, tail, reread>>

\* acquire_session_turn_lease, the first attempt and the polls.
Admit(t) ==
  /\ At(t, {"loaded"}) /\ Claimable(lease[Root(act[t].sid)])
  /\ LeaseIs(act[t].sid, HeldBy(t)) /\ latest' = t
  /\ Moves(t, "admitted")
  /\ UNCHANGED <<ses, lastId, appended, tail, reread>>

Waits(t) ==
  /\ At(t, {"loaded"}) /\ ~Claimable(lease[Root(act[t].sid)])
  /\ Moves(t, "waiting")
  /\ UNCHANGED <<ses, lastId, lease, latest, appended, tail, reread>>

Serve(t) ==
  /\ At(t, {"waiting"}) /\ Claimable(lease[Root(act[t].sid)])
  /\ LeaseIs(act[t].sid, HeldBy(t)) /\ latest' = t
  /\ Moves(t, "served")
  /\ UNCHANGED <<ses, lastId, appended, tail, reread>>

\* The wait is over or interrupted.
GivesUp(t) ==
  /\ At(t, {"waiting"})
  /\ Leaves(t, "over")
  /\ UNCHANGED <<ses, lastId, lease, latest, appended, tail, reread>>

\* Only a turn that had to wait loads the history again.
Reload(t) ==
  /\ At(t, {"served"})
  /\ Becomes(t, [act[t] EXCEPT !.at = "admitted", !.sid = Tip(act[t].sid),
                               !.mem = Loaded(Tip(act[t].sid))])
  /\ UNCHANGED <<ses, lastId, lease, latest, appended, tail, reread>>

\* recover_rotated_compression_session; then the message of the turn is added.
Begun(t, m) == [len |-> m.len + 1, of |-> m.of \cup {t}]
Begin(t) ==
  /\ At(t, {"admitted"})
  /\ Becomes(t, [act[t] EXCEPT !.at = "running", !.sid = Adopted(act[t].sid), !.owed = TRUE,
                  !.mem = Begun(t, IF Adoptable(act[t].sid) THEN Loaded(Tip(act[t].sid)) ELSE act[t].mem)])
  /\ UNCHANGED <<ses, lastId, lease, latest, appended, tail, reread>>

\* Mutant: the append does not check the holder of the lease.
LandsUnfenced(t) == act[t].owed /\ ~Rotated(Adopted(act[t].sid))

\* _flush_messages_to_session_db: only the holder of the lease appends, and renews it; a
\* session that was rotated away is left for its live continuation.
Lands(t) ==
  /\ act[t].owed /\ Leases(t, act[t].sid) /\ ~Rotated(Adopted(act[t].sid))

Flushed(t) == [act[t] EXCEPT !.sid = Adopted(act[t].sid), !.owed = FALSE]

Flush(t) ==
  /\ At(t, {"running", "compacted"}) /\ Lands(t)
  /\ Appends(Adopted(act[t].sid), t) /\ Becomes(t, Flushed(t))
  /\ LeaseIs(act[t].sid, HeldBy(t))
  /\ UNCHANGED <<latest, reread>>

\* The turn ends, with its message stored or not, and releases what it holds.
Finish(t) ==
  /\ At(t, {"running", "compacted"})
  /\ Leaves(t, "over")
  /\ IF Leases(t, act[t].sid) THEN LeaseIs(act[t].sid, Free) ELSE UNCHANGED lease
  /\ UNCHANGED <<ses, lastId, latest, appended, tail, reread>>

(***************************************************************************)
(* Compaction (conversation_compression.py)                                *)
(***************************************************************************)
\* A host starts a compaction with the history it has.
Clean(c) ==
  /\ At(c, {"idle"}) /\ Quiet /\ ses[Tip(1)].end # "deliberate"
  /\ Becomes(c, [act[c] EXCEPT !.at = "running", !.sid = Tip(1), !.mem = Loaded(Tip(1))])
  /\ UNCHANGED <<ses, lastId, lease, latest, appended, tail, reread>>

TakeLock(a) ==
  /\ At(a, {"running"}) /\ Claimable(ses[act[a].sid].lock)
  /\ SessionIs(act[a].sid, [ses[act[a].sid] EXCEPT !.lock = HeldBy(a)])
  /\ Becomes(a, [act[a] EXCEPT !.at = "locked", !.held = act[a].sid])
  /\ UNCHANGED <<lastId, lease, latest, appended, tail, reread>>

SitOut(a) ==
  /\ At(a, {"running"}) /\ ~Claimable(ses[act[a].sid].lock)
  /\ Moves(a, "compacted")
  /\ UNCHANGED <<ses, lastId, lease, latest, appended, tail, reread>>

Capture(a) ==
  /\ At(a, {"locked"})
  /\ Becomes(a, [act[a] EXCEPT !.at = "captured", !.mark = Watermark(act[a].sid)])
  /\ tail' = [tail EXCEPT ![a] = {}]
  /\ UNCHANGED <<ses, lastId, lease, latest, appended, reread>>

\* _adopt_if_parent_rotated: the transcript of the live continuation replaces the memory.
AdoptRotated(a) ==
  /\ At(a, {"captured"}) /\ Rotated(act[a].sid)
  /\ IF Adoptable(act[a].sid)
     THEN Becomes(a, [act[a] EXCEPT !.at = "closing", !.sid = Tip(act[a].sid), !.owed = FALSE,
                                    !.mem = Loaded(Tip(act[a].sid))])
     ELSE Moves(a, "closing")
  /\ UNCHANGED <<ses, lastId, lease, latest, appended, tail, reread>>

StartInPlace(a) ==
  /\ At(a, {"captured"}) /\ ~Rotated(act[a].sid) /\ (a \in Turns => "inplace" \in Modes)
  /\ Moves(a, "summary")
  /\ UNCHANGED <<ses, lastId, lease, latest, appended, tail, reread>>

MayRotate(t) == At(t, {"captured"}) /\ ~Rotated(act[t].sid) /\ "rotate" \in Modes
Outgrown(t) == Cardinality(ses[act[t].sid].rows) > act[t].mem.len

StartRotation(t) ==
  /\ MayRotate(t) /\ (Outgrown(t) => act[t].owed /\ ~Lands(t))
  /\ Moves(t, "rotating")
  /\ UNCHANGED <<ses, lastId, lease, latest, appended, tail, reread>>

\* _adopt_grown_durable_parent: the turn's own message is flushed and the session read again.
ReadAgain(t, s) ==
  Becomes(t, [Flushed(t) EXCEPT !.at = "rotating", !.mem = [len |-> Cardinality(ses'[s].rows),
                                                           of |-> Covers(ses'[s].rows)]])

AdoptGrown(t) ==
  /\ MayRotate(t) /\ Outgrown(t) /\ (act[t].owed => Lands(t))
  /\ IF act[t].owed
     THEN Appends(act[t].sid, t) /\ LeaseIs(act[t].sid, HeldBy(t))
     ELSE UNCHANGED <<ses, lastId, lease, appended, tail>>
  /\ ReadAgain(t, act[t].sid)
  /\ reread' = reread \cup Covers({r \in ses'[act[t].sid].rows : r.id > act[t].mark})
  /\ UNCHANGED latest

\* The summary is cancelled or fails, or its commit is refused.
Abort(a) ==
  /\ At(a, {"summary", "rotating", "ceiled", "publishing"})
  /\ Moves(a, "closing")
  /\ UNCHANGED <<ses, lastId, lease, latest, appended, tail, reread>>

\* Copies of rows, in their order, with ids behind base.
Clones(rows, base) ==
  {[id |-> base + Cardinality({q \in rows : q.id <= r.id}), of |-> r.of] : r \in rows}
Summary(a) == [id |-> lastId + 1, of |-> act[a].mem.of]
Compacted(a, s) ==
  [act[a] EXCEPT !.at = "closing", !.sid = s, !.owed = FALSE,
                 !.mem = [len |-> 1, of |-> act[a].mem.of]]

\* Mutant: the watermark is off by one.
ForeignLate(a) == {r \in ses[act[a].held].rows : r.id > act[a].mark + 1}

\* What was appended behind the watermark.
Foreign(a) == {r \in ses[act[a].held].rows : r.id > act[a].mark}

\* Mutant: the lock is not verified in the transaction.
CommitUnlocked(a) ==
  /\ At(a, {"summary"})
  /\ SessionIs(act[a].held, [ses[act[a].held] EXCEPT
                               !.rows = {Summary(a)} \cup Clones(Foreign(a), lastId + 1)])
  /\ lastId' = lastId + 1 + Cardinality(Foreign(a))
  /\ Becomes(a, Compacted(a, act[a].sid))
  /\ UNCHANGED <<lease, latest, appended, tail, reread>>

\* archive_and_compact.
CommitInPlace(a) ==
  /\ At(a, {"summary"}) /\ Locks(a) /\ ses[act[a].held].lock.fresh
  /\ SessionIs(act[a].held, [ses[act[a].held] EXCEPT
                               !.rows = {Summary(a)} \cup Clones(Foreign(a), lastId + 1)])
  /\ lastId' = lastId + 1 + Cardinality(Foreign(a))
  /\ Becomes(a, Compacted(a, act[a].sid))
  /\ UNCHANGED <<lease, latest, appended, tail, reread>>

\* _publish_rotated_compaction: the ceiling of the foreign tail, the flush of what is still
\* the turn's own, and publish_compression_child.
Ceiling(t) ==
  /\ At(t, {"rotating"}) /\ ses[act[t].sid].end \in {"open", "automatic"}
  /\ Becomes(t, [act[t] EXCEPT !.at = "ceiled", !.ceil = Watermark(act[t].sid)])
  /\ UNCHANGED <<ses, lastId, lease, latest, appended, tail, reread>>

FlushOwn(t) ==
  /\ At(t, {"ceiled"}) /\ Lands(t)
  /\ Appends(Adopted(act[t].sid), t)
  /\ Becomes(t, [Flushed(t) EXCEPT !.at = "publishing"])
  /\ LeaseIs(act[t].sid, HeldBy(t))
  /\ UNCHANGED <<latest, reread>>

SkipFlush(t) ==
  /\ At(t, {"ceiled"}) /\ ~Lands(t)
  /\ Moves(t, "publishing")
  /\ UNCHANGED <<ses, lastId, lease, latest, appended, tail, reread>>

\* Mutant: the tail has no ceiling.
ForeignTailUnbounded(t) == Foreign(t)

ForeignTail(t) == {r \in Foreign(t) : r.id <= act[t].ceil}
Child(t) ==
  [end |-> "open", parent |-> act[t].held,
   rows |-> {Summary(t)} \cup Clones(ForeignTail(t), lastId + 1), lock |-> Free]

\* Mutant: neither the lock nor the end of the parent is checked.
PublishableAnyway(t) == TRUE

\* The lock is refreshed and checked in the transaction; an automatic end is healed.
Publishable(t) == Locks(t) /\ ses[act[t].held].end \in {"open", "automatic"}
Publish(t) ==
  /\ At(t, {"publishing"}) /\ Publishable(t)
  /\ \E k \in Segments :
       /\ ~Used(k) /\ \A j \in Segments : j < k => Used(j)
       /\ ses' = [ses EXCEPT ![k] = Child(t),
                             ![act[t].held] = [ses[act[t].held] EXCEPT !.end = "compression", !.lock = HeldBy(t)]]
       /\ Becomes(t, Compacted(t, k))
  /\ lastId' = lastId + 1 + Cardinality(ForeignTail(t))
  /\ UNCHANGED <<lease, latest, appended, tail, reread>>

\* _CompressionLease.release, by the holder only.
Unlock(a) ==
  /\ At(a, {"closing"})
  /\ Becomes(a, [act[a] EXCEPT !.at = IF a \in Turns THEN "compacted" ELSE "over",
                               !.held = 1, !.mark = 0, !.ceil = 0])
  /\ IF Locks(a) THEN SessionIs(act[a].held, [ses[act[a].held] EXCEPT !.lock = Free]) ELSE UNCHANGED ses
  /\ tail' = [tail EXCEPT ![a] = {}]
  /\ UNCHANGED <<lastId, lease, latest, appended, reread>>

(***************************************************************************)
(* Other writers, expiry and deaths                                        *)
(***************************************************************************)
\* append_message without a holder (gateway/mirror.py): refused by a rotated session only.
Land(n) ==
  /\ n \notin appended /\ Quiet
  /\ \E s \in Segments : Used(s) /\ ~Rotated(s) /\ Appends(s, n)
  /\ UNCHANGED <<lease, act, latest, reread>>

\* append_delegation_delivery: between turns; a stale lease is removed.
Deliver(d) ==
  /\ d \notin appended /\ Quiet
  /\ \E s \in Segments :
       /\ Used(s) /\ ~Rotated(s) /\ Claimable(lease[Root(s)])
       /\ Appends(s, d) /\ LeaseIs(s, Free)
  /\ latest' = Nobody
  /\ UNCHANGED <<act, reread>>

\* end_session: by a cleanup, or on purpose.
EndSession(s, reason) ==
  /\ ses[s].end = "open" /\ Quiet
  /\ SessionIs(s, [ses[s] EXCEPT !.end = reason])
  /\ UNCHANGED <<lastId, lease, act, latest, appended, tail, reread>>

\* Mutant: the watchdog ends the turn but not the renewal of its lease.
IdleWhenOver(a) == At(a, {"over", "dead"})

\* Only a claim that nobody refreshes ages.
Idle(a) == act[a].stalled \/ At(a, {"over", "dead"})

LeaseExpires(s) ==
  /\ lease[s].fresh /\ Idle(lease[s].by)
  /\ lease' = [lease EXCEPT ![s] = [lease[s] EXCEPT !.fresh = FALSE]]
  /\ UNCHANGED <<ses, lastId, act, latest, appended, tail, reread>>

LockExpires(s) ==
  /\ ses[s].lock.fresh /\ Idle(ses[s].lock.by)
  /\ SessionIs(s, [ses[s] EXCEPT !.lock = [ses[s].lock EXCEPT !.fresh = FALSE]])
  /\ UNCHANGED <<lastId, lease, act, latest, appended, tail, reread>>

\* refresh_compression_lock: the holder revives its lock as long as nobody has taken it.
LockRefreshed(a) ==
  /\ At(a, {"captured", "summary", "rotating", "ceiled", "publishing"})
  /\ Locks(a) /\ ~ses[act[a].held].lock.fresh
  /\ SessionIs(act[a].held, [ses[act[a].held] EXCEPT !.lock = HeldBy(a)])
  /\ UNCHANGED <<lastId, lease, act, latest, appended, tail, reread>>

\* The liveness watchdog gives the turn up (stop_refresher), or its timers starve.
Active(a) == ~At(a, {"idle", "loaded", "over", "dead"})
Stall(a) ==
  /\ a \in Frail /\ Active(a) /\ ~act[a].stalled
  /\ Becomes(a, [act[a] EXCEPT !.stalled = TRUE])
  /\ UNCHANGED <<ses, lastId, lease, latest, appended, tail, reread>>

Crash(a) ==
  /\ a \in Frail /\ Active(a)
  /\ Leaves(a, "dead")
  /\ tail' = [tail EXCEPT ![a] = {}]
  /\ UNCHANGED <<ses, lastId, lease, latest, appended, reread>>

Compaction(a) ==
  \/ TakeLock(a) \/ SitOut(a) \/ Capture(a) \/ AdoptRotated(a) \/ StartInPlace(a)
  \/ Abort(a) \/ CommitInPlace(a) \/ Unlock(a)

Rotation(t) ==
  StartRotation(t) \/ AdoptGrown(t) \/ Ceiling(t) \/ FlushOwn(t) \/ SkipFlush(t) \/ Publish(t)

Turn(t) ==
  Waits(t) \/ Admit(t) \/ Serve(t) \/ Reload(t) \/ Begin(t) \/ Flush(t) \/ Finish(t)

Next ==
  \/ \E t \in Turns : Load(t) \/ GivesUp(t) \/ Turn(t) \/ Rotation(t)
  \/ \E c \in Cleaners : Clean(c)
  \/ \E a \in Actors : Compaction(a) \/ LockRefreshed(a) \/ Stall(a) \/ Crash(a)
  \/ \E n \in Notes : Land(n)
  \/ \E d \in Deliveries : Deliver(d)
  \/ \E s \in Segments : LeaseExpires(s) \/ LockExpires(s)
  \/ \E s \in Segments, reason \in {"automatic", "deliberate"} : EndSession(s, reason)

Spec == Init /\ [][Next]_vars

\* Turns that are not stalled go on and end, and leases nobody refreshes expire.
Progress(t) == ~act[t].stalled /\ (Turn(t) \/ Rotation(t) \/ Compaction(t))
FairSpec ==
  /\ Spec
  /\ \A t \in Turns : WF_vars(Progress(t)) /\ WF_vars(Serve(t))
  /\ \A s \in Segments : WF_vars(LeaseExpires(s))

(***************************************************************************)
(* Properties                                                              *)
(***************************************************************************)
\* A session that was closed by a compaction has one continuation: two compactions of it, one
\* of which lost its lock while its summary was written, do not both publish a child.
OneContinuation == \A s \in Segments : Rotated(s) => Cardinality(Continuations(s)) = 1

\* Every session a rotation opens is keyed by the lease of the conversation.
OneConversation == \A s \in Segments : Used(s) => Root(s) = 1

\* The conversation has one lease, held by the turn that was admitted last.
OneLease == \A s \in Segments \ {1} : lease[s] = Free
LeaseIsLatest == \A s \in Segments : lease[s].by \in {latest, Nobody}

\* Each session but the first was opened by the rotation of the one before it.
Chained ==
  /\ Used(1) /\ ses[1].parent = 0
  /\ \A s \in Segments \ {1} : Used(s) => ses[s].parent = s - 1 /\ Rotated(s - 1)
  /\ \A s \in Segments : Rotated(s) => s + 1 \in Segments /\ Used(s + 1)
  /\ \A s \in Segments : ~Used(s) => ses[s] = Unused

\* Who compacts is in the session whose lock it took, until its own message is flushed.
Seated == {"locked", "captured", "summary", "rotating", "ceiled"}
Sited ==
  \A a \in Actors :
    /\ Used(act[a].sid) /\ Used(act[a].held)
    /\ At(a, Seated) => act[a].sid = act[a].held

\* Rows are numbered in the order of their transactions, and watermarks are old numbers.
Numbered ==
  /\ \A s \in Segments : IsFiniteSet(ses[s].rows) /\ \A r \in ses[s].rows : r.id <= lastId
  /\ \A a \in Actors : act[a].mark <= lastId /\ act[a].ceil <= lastId

\* The message of a turn is in no row, nor in the memory of another actor, as long as it is owed.
Unwritten(t) == act[t].owed \/ At(t, {"idle", "loaded", "waiting", "served", "admitted"})
Known == (appended \ Turns) \cup {t \in Turns : ~Unwritten(t)}
Recorded ==
  /\ \A s \in Segments : Covered(s) \subseteq Known
  /\ \A a \in Actors : act[a].mem.of \subseteq Known \cup ({a} \cap Turns)

\* While a compaction has its lock, what it will copy is what was appended behind its watermark,
\* and nothing of it is in the summary, but for what a rotation read again.
Holding == {"captured", "summary", "rotating", "ceiled", "publishing"}
Copied(a) == IF At(a, {"ceiled", "publishing"}) THEN ForeignTail(a) ELSE Foreign(a)
InHand ==
  \A a \in Actors : At(a, Holding) /\ Locks(a) =>
    /\ tail[a] \subseteq Covers(Copied(a))
    /\ \A r \in Copied(a) : act[a].mem.of \cap r.of \subseteq reread

\* The transcript is a chain of sessions under one lease, held by the latest turn; rows,
\* memories, watermarks and what is still owed agree.
Inv ==
  /\ TypeOK /\ OneContinuation /\ OneConversation /\ OneLease /\ LeaseIsLatest
  /\ Chained /\ Sited /\ Numbered /\ Recorded /\ InHand

\* A turn that lost its lease, because it stalled past the expiry and another turn was
\* admitted or a delivery was written meanwhile, flushes nothing when it resumes.
LateWritesFenced == [][\A t \in Turns : t \in appended' \ appended => t = latest]_vars

\* What is appended behind the watermark of a compaction, while the summary is written, is
\* in the active transcript that the compaction commits, in place or in the child.
Commits(a) == act[a].at \in {"summary", "publishing"} /\ act'[a].at = "closing" /\ lastId' # lastId
TailKept == [][\A a \in Actors : Commits(a) => tail[a] \subseteq Covered(act[a].sid)']_vars

\* No active transcript has a message twice, in a row of its own and in a summary or in two
\* rows, except what a rotation read again from behind its watermark.
NotDoubled ==
  \A s \in Segments : \A q, r \in ses[s].rows : q # r => q.of \cap r.of \subseteq reread

\* A turn that waits for the lease is admitted or gives up, although the holder may have
\* died, or hang for ever with its refresher stopped by the watchdog.
WaitersServed == \A t \in Turns : act[t].at = "waiting" ~> act[t].at # "waiting"
=============================================================================
