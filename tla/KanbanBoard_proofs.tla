------------------------ MODULE KanbanBoard_proofs ------------------------
(***************************************************************************)
(* Machine-checked proofs about KanbanBoard, for any cards and links, any  *)
(* calls of operators, any limits and any number of attempts.  First the   *)
(* inductive invariant of the rows, step by step; then, relative to it,    *)
(* what a card waits for and the lane it comes back to.                    *)
(***************************************************************************)
EXTENDS KanbanBoard, FiniteSetTheorems, TLAPS

LEMMA Setting ==
  /\ Nobody \notin Tasks /\ Nobody \notin Locks
  /\ Parents \in [Tasks -> SUBSET Tasks] /\ NoRun \notin RunIds
  BY BoardAssumption DEF RunIds, NoRun

\* What a card that is worked on, under review or finished has in common.
Gated == {"running", "review", "done"}
Entry == [failures : Nat, streak : Nat, sticky : BOOLEAN, resume : Lanes,
          cause : {"none"} \cup Kinds]
Holding == [lock : Locks \cup {Nobody}, lapsed : BOOLEAN,
            pid : RunIds \cup {NoRun}, run : RunIds \cup {NoRun}]
Attempt == [task : Tasks \cup {Nobody}, src : Lanes, open : BOOLEAN,
            proc : Exits \cup {"none", "live", "astray"}]

(***************************************************************************)
(* What the steps have in common.  Releases: cards keep their claims or    *)
(* lose them, with their runs; none is claimed.  GateStep: no finished     *)
(* card is reopened.                                                       *)
(***************************************************************************)
Releases ==
  /\ \A u \in Tasks : /\ claim'[u].run \in {NoRun, claim[u].run}
                      /\ claim'[u].lock \in {Nobody, claim[u].lock}
                      /\ past[u].crossed => past'[u].crossed
  /\ \A r \in RunIds : runs'[r].task = runs[r].task /\ (runs'[r].open => runs[r].open)
  /\ \A u \in Tasks : claim[u].run # NoRun =>
       IF claim'[u].run = NoRun THEN ~runs'[claim[u].run].open \/ past'[u].crossed
       ELSE runs'[claim[u].run].src = runs[claim[u].run].src
  /\ \A u \in Tasks : status'[u] = "running" =>
       status[u] = "running" /\ claim'[u].run = claim[u].run /\ claim'[u].lock = claim[u].lock
  /\ \A u \in Tasks : status[u] = "running" /\ status'[u] # "running" =>
       \/ claim'[u].run = NoRun /\ claim'[u].lock = Nobody
       \/ past'[u].crossed /\ Retry(u) = "ready"
  /\ \A d \in tick'.dead : status'[d.task] = "running" => d \in tick.dead

\* The tick goes on with the run it claimed, and with the kill it made.
TickGoes ==
  /\ tick'.pc \in {"claimed", "spawned"} =>
       tick.pc \in {"claimed", "spawned"} /\ tick'.run = tick.run /\ tick'.task = tick.task
  /\ tick'.pc = "kill" /\ ~tick'.survived /\ tick'.run # NoRun =>
       tick' = tick \/ runs'[tick'.run].proc # "live"

\* No worker starts, and none stays on a card that stops running.
Tracks ==
  /\ \A r \in RunIds : /\ runs'[r].proc # "none" => runs[r].proc # "none"
                       /\ runs'[r].proc = "live" => runs[r].proc = "live"
  /\ \A u \in Tasks : status[u] = "running" /\ status'[u] # "running" =>
       /\ runs'[claim[u].run].proc # "live"
       /\ runs'[claim[u].run].open => tick.pc = "account"
  /\ TickGoes

GateStep ==
  /\ \A u \in Tasks : status[u] \in Terminal => status'[u] \in Terminal
  /\ \A u \in Tasks : status'[u] \in Gated =>
       status[u] \in Gated \/ Satisfied(u) \/ \A p \in Parents[u] : status'[p] \in Terminal

\* The run of t, if it has one, is closed and no other is touched.
ClosesRun(t) ==
  \A r \in RunIds :
    /\ runs'[r].task = runs[r].task
    /\ runs'[r].open => runs[r].open /\ r # claim[t].run
    /\ r # claim[t].run => runs'[r].src = runs[r].src
    /\ runs'[r].proc # "none" => runs[r].proc # "none"
    /\ runs'[r].proc = "live" => runs[r].proc = "live" /\ r # claim[t].run

\* Only t may stop running, and nothing starts to.
OnlyStops(t) ==
  /\ status'[t] # "running"
  /\ \A u \in Tasks \ {t} : status'[u] = "running" <=> status[u] = "running"

LEMMA ReleasesKeep ==
  ASSUME Inv, TypeOK', Releases
  PROVE  Bookkeeping' /\ HandClaims'
  <1>1. \A t \in Tasks : status'[t] = "running" => claim'[t].lock # Nobody /\ claim'[t].run # NoRun
    BY DEF Inv, Bookkeeping, Releases
  <1>2. ASSUME NEW t \in Tasks, status'[t] # "running", claim'[t].lock # Nobody \/ claim'[t].run # NoRun
        PROVE  past'[t].crossed
    BY <1>2 DEF Inv, Bookkeeping, Releases
  <1>3. ASSUME NEW t \in Tasks, claim'[t].run # NoRun
        PROVE  claim'[t].run = claim[t].run /\ claim[t].run \in RunIds /\ runs'[claim'[t].run].task = t
    BY <1>3 DEF Inv, TypeOK, ClaimOK, Bookkeeping, Releases
  <1>4. ASSUME NEW r \in RunIds, runs'[r].open
        PROVE  /\ runs'[r].task \in Tasks
               /\ claim'[runs'[r].task].run = r \/ past'[runs'[r].task].crossed
    <2>1. runs[r].open /\ runs'[r].task = runs[r].task /\ runs[r].task \in Tasks
      BY <1>4 DEF Inv, Bookkeeping, Releases
    <2>2. CASE past[runs[r].task].crossed
      BY <2>1, <2>2 DEF Releases
    <2>3. CASE claim[runs[r].task].run = r
      BY <1>4, <2>1, <2>3, Setting DEF Releases
    <2> QED BY <2>1, <2>2, <2>3 DEF Inv, Bookkeeping
  <1>5. Bookkeeping'
    BY <1>1, <1>2, <1>3, <1>4 DEF Bookkeeping
  <1>6. ASSUME NEW t \in Tasks, claim'[t].run # NoRun
        PROVE  Retry(t)' = Retry(t)
    BY <1>3, <1>6, Setting DEF Retry, Releases
  <1>7. ASSUME NEW t \in Tasks, status'[t] # "running", claim'[t].run # NoRun
        PROVE  Retry(t)' = "ready"
    <2>1. CASE status[t] = "running"
      BY <1>6, <1>7, <2>1 DEF Releases
    <2>2. CASE status[t] # "running"
      BY <1>3, <1>6, <1>7, <2>2 DEF Inv, HandClaims
    <2> QED BY <2>1, <2>2
  <1>8. ASSUME NEW d \in tick'.dead, status'[d.task] = "running"
        PROVE  Retry(d.task)' = "ready"
    <2>1. d \in tick.dead /\ d.task \in Tasks
      BY <1>8 DEF Releases, Inv, TypeOK, TickOK
    <2>2. status[d.task] = "running" /\ claim'[d.task].run # NoRun
      BY <1>1, <1>8, <2>1 DEF Releases
    <2> QED BY <1>6, <2>1, <2>2 DEF Inv, HandClaims
  <1> QED BY <1>5, <1>7, <1>8 DEF HandClaims

LEMMA TracksKeep ==
  ASSUME Inv, TypeOK', Releases, Tracks
  PROVE  Tracked'
  <1>1. \A u \in Tasks : /\ claim[u].run \in RunIds \cup {NoRun}
                         /\ status'[u] = "running" =>
                              status[u] = "running" /\ claim'[u].run = claim[u].run /\ claim[u].run \in RunIds
    BY DEF Inv, TypeOK, ClaimOK, Bookkeeping, Releases
  <1>2. ASSUME NEW r \in RunIds, runs'[r].proc # "none"
        PROVE  runs'[r].task \in Tasks
    <2>1. runs[r].proc # "none"
      BY <1>2 DEF Tracks
    <2>2. runs'[r].task = runs[r].task
      BY DEF Releases
    <2> QED BY <2>1, <2>2 DEF Inv, Tracked
  <1>3. ASSUME NEW r \in RunIds, runs'[r].proc = "live"
        PROVE  status'[runs'[r].task] = "running" /\ claim'[runs'[r].task].run = r
    <2>1. runs[r].proc = "live" /\ runs'[r].task = runs[r].task
      <3>1. runs[r].proc = "live"
        BY <1>3 DEF Tracks
      <3>2. runs'[r].task = runs[r].task
        BY DEF Releases
      <3> QED BY <3>1, <3>2
    <2>2. runs[r].task \in Tasks /\ status[runs[r].task] = "running" /\ claim[runs[r].task].run = r
      BY <2>1 DEF Inv, Tracked
    <2>3. status'[runs[r].task] = "running"
      BY <1>3, <2>2 DEF Tracks
    <2> QED BY <1>1, <2>1, <2>2, <2>3
  <1>4. ASSUME tick'.pc \in {"claimed", "spawned"}
        PROVE  /\ runs'[tick'.run].task = tick'.task
               /\ runs'[tick'.run].open =>
                    status'[tick'.task] = "running" /\ claim'[tick'.task].run = tick'.run
    <2>1. /\ tick.pc \in {"claimed", "spawned"} /\ tick'.run = tick.run /\ tick'.task = tick.task
          /\ tick.run \in RunIds /\ tick.task \in Tasks
      BY <1>4 DEF Tracks, TickGoes, Inv, TypeOK, TickOK
    <2>2. runs'[tick'.run].task = tick'.task
      BY <2>1 DEF Inv, Tracked, Releases
    <2>3. ASSUME runs'[tick'.run].open
          PROVE  status'[tick'.task] = "running" /\ claim'[tick'.task].run = tick'.run
      <3>1. runs[tick.run].open /\ status[tick.task] = "running" /\ claim[tick.task].run = tick.run
        BY <2>1, <2>3 DEF Inv, Tracked, Releases
      <3>2. status'[tick.task] = "running"
        BY <2>1, <2>3, <3>1 DEF Tracks
      <3> QED BY <1>1, <2>1, <3>1, <3>2
    <2> QED BY <2>2, <2>3
  <1>5. ASSUME tick'.pc = "kill", ~tick'.survived, tick'.run # NoRun
        PROVE  runs'[tick'.run].proc # "live"
    <2>1. tick'.run \in RunIds
      BY <1>5 DEF TypeOK, TickOK
    <2>2. \A r \in RunIds : runs'[r].proc = "live" => runs[r].proc = "live"
      BY DEF Tracks
    <2>3. tick' = tick \/ runs'[tick'.run].proc # "live"
      BY <1>5 DEF Tracks, TickGoes
    <2> QED BY <1>5, <2>1, <2>2, <2>3 DEF Inv, Tracked
  <1>6. ASSUME NEW d \in tick'.dead, status'[d.task] = "running"
        PROVE  runs'[claim'[d.task].run].proc # "live"
    <2>1. d \in tick.dead /\ d.task \in Tasks
      BY <1>6 DEF Releases, Inv, TypeOK, TickOK
    <2>2. /\ status[d.task] = "running" /\ claim'[d.task].run = claim[d.task].run
          /\ claim[d.task].run \in RunIds
      BY <1>1, <1>6, <2>1
    <2>3. runs[claim[d.task].run].proc # "live"
      BY <2>1, <2>2 DEF Inv, Tracked
    <2> QED BY <2>2, <2>3 DEF Tracks
  <1> QED BY <1>2, <1>3, <1>4, <1>5, <1>6 DEF Tracked

LEMMA GateKept ==
  ASSUME StatusOK, ParentsGate, GateStep
  PROVE  ParentsGate'
  <1> SUFFICES ASSUME NEW t \in Tasks, status'[t] \in {"running", "review", "done"}
               PROVE  \A p \in Parents[t] : status'[p] \in Terminal
    BY DEF ParentsGate, Satisfied, Terminal
  <1>1. Satisfied(t) => \A p \in Parents[t] : status'[p] \in Terminal
    BY Setting DEF GateStep, Satisfied
  <1> QED BY <1>1 DEF GateStep, Gated, ParentsGate

\* Two cards never have the same run.
LEMMA RunsApart ==
  ASSUME Bookkeeping, NEW t \in Tasks, NEW u \in Tasks, claim[t].run # NoRun, claim[u].run = claim[t].run
  PROVE  u = t
  BY DEF Bookkeeping

\* t loses its run, and its lock too if it was running.
LEMMA Releasing ==
  ASSUME Inv, NEW t \in Tasks, claim'[t].run = NoRun, ClosesRun(t), OnlyStops(t),
         claim'[t].lock = Nobody \/ (claim'[t].lock = claim[t].lock /\ status[t] # "running"),
         \A u \in Tasks \ {t} : claim'[u] = claim[u],
         \A u \in Tasks : past[u].crossed => past'[u].crossed,
         \A d \in tick'.dead : d \in tick.dead \/ status'[d.task] # "running", TickGoes
  PROVE  Releases /\ Tracks
  <1>1. \A u \in Tasks : claim[u].run # NoRun => claim[u].run \in RunIds
    BY DEF Inv, TypeOK, ClaimOK
  <1>2. ASSUME NEW u \in Tasks, claim[u].run # NoRun
        PROVE  IF claim'[u].run = NoRun THEN ~runs'[claim[u].run].open \/ past'[u].crossed
               ELSE runs'[claim[u].run].src = runs[claim[u].run].src
    <2>1. CASE u = t
      BY <1>1, <1>2, <2>1 DEF ClosesRun
    <2>2. CASE u # t
      <3>1. claim[u].run # claim[t].run
        BY <1>2, <2>2, RunsApart DEF Inv
      <3> QED BY <1>1, <1>2, <2>2, <3>1 DEF ClosesRun
    <2> QED BY <2>1, <2>2
  <1>3. \A u \in Tasks : status'[u] = "running" => u # t /\ status[u] = "running"
    BY DEF OnlyStops
  <1>4. \A u \in Tasks : status[u] = "running" /\ status'[u] # "running" => u = t
    BY DEF OnlyStops
  <1>5. \A u \in Tasks : /\ claim'[u].run \in {NoRun, claim[u].run}
                         /\ claim'[u].lock \in {Nobody, claim[u].lock}
    OBVIOUS
  <1>6. Releases
    BY <1>2, <1>3, <1>4, <1>5 DEF Releases, ClosesRun
  <1>7. status[t] = "running" => claim[t].run \in RunIds
    BY <1>1 DEF Inv, Bookkeeping
  <1>8. Tracks
    BY <1>4, <1>7 DEF Tracks, ClosesRun
  <1> QED BY <1>6, <1>8

\* Claims, runs and columns as they were, but for expiry, pid and process.
LEMMA Untouched ==
  ASSUME Inv, tick'.dead \subseteq tick.dead, status' = status,
         \A u \in Tasks : /\ claim'[u].run = claim[u].run /\ claim'[u].lock = claim[u].lock
                          /\ past[u].crossed => past'[u].crossed,
         \A r \in RunIds : /\ runs'[r].task = runs[r].task /\ runs'[r].open = runs[r].open
                           /\ runs'[r].src = runs[r].src
                           /\ runs'[r].proc # "none" => runs[r].proc # "none"
                           /\ runs'[r].proc = "live" => runs[r].proc = "live",
         TickGoes
  PROVE  Releases /\ Tracks /\ GateStep
  BY DEF Releases, Tracks, GateStep, Inv, TypeOK, ClaimOK

-----------------------------------------------------------------------------
(* The operators the steps are built from *)

LEMMA SetIs ==
  ASSUME StatusOK, NEW t \in Tasks, NEW s \in Statuses
  PROVE  /\ Set(t, s) \in [Tasks -> Statuses]
         /\ Set(t, s)[t] = s /\ \A u \in Tasks \ {t} : Set(t, s)[u] = status[u]
  BY DEF StatusOK, Set

LEMMA FreedIs ==
  ASSUME ClaimOK, NEW t \in Tasks
  PROVE  /\ Freed(t) \in [Tasks -> Holding] /\ Freed(t)[t].run = NoRun /\ Freed(t)[t].lock = Nobody
         /\ \A u \in Tasks \ {t} : Freed(t)[u] = claim[u]
  <1>1. Unclaimed \in Holding /\ Unclaimed.run = NoRun /\ Unclaimed.lock = Nobody
    BY DEF Unclaimed, Holding
  <1> QED BY <1>1 DEF ClaimOK, Freed, Holding

LEMMA BookedIs ==
  ASSUME BookOK, NEW t \in Tasks, NEW f \in Nat, NEW k \in Nat, NEW lane \in Lanes
  PROVE  Booked(t, f, k, lane) \in [Tasks -> Entry]
  BY DEF BookOK, Booked, Entry

LEMMA EntryIs ==
  ASSUME NEW e \in Entry, NEW lane \in Lanes
  PROVE  /\ [e EXCEPT !.streak = @ + 1] \in Entry /\ [e EXCEPT !.resume = lane] \in Entry
         /\ [e EXCEPT !.streak = 0, !.resume = lane] \in Entry
  <1>1. e.streak \in Nat /\ e.streak + 1 \in Nat
    BY DEF Entry
  <1>2. \A k \in Nat : [e EXCEPT !.streak = k] \in Entry
    BY DEF Entry
  <1>3. [e EXCEPT !.resume = lane] \in Entry
    BY DEF Entry
  <1>4. [e EXCEPT !.streak = 0, !.resume = lane] \in Entry
    BY DEF Entry
  <1> QED BY <1>1, <1>2, <1>3, <1>4

LEMMA RetryIs ==
  ASSUME ClaimOK, RunsOK, NEW t \in Tasks
  PROVE  Retry(t) \in Lanes
  BY DEF ClaimOK, RunsOK, Retry, Lanes

LEMMA StreakIs ==
  ASSUME BookOK, NEW t \in Tasks, NEW noted
  PROVE  StreakAfter(t, noted) \in Nat
  BY DEF BookOK, StreakAfter

LEMMA DecidedIs ==
  ASSUME PastOK, NEW t \in Tasks, NEW phase \in {"work", "review"}, past' = Decided(t, phase)
  PROVE  PastOK' /\ \A u \in Tasks : past'[u].crossed = past[u].crossed
  BY DEF PastOK, Decided

LEMMA ShutIs ==
  ASSUME RunsOK, NEW r \in RunIds, NEW proc \in {"live", "astray"}
  PROVE  /\ Shut(r, proc) \in Attempt /\ Shut(r, proc).task = runs[r].task /\ ~Shut(r, proc).open
         /\ Shut(r, proc).proc # "none" => runs[r].proc # "none"
         /\ Shut(r, proc).proc = "live" => runs[r].proc = "live" /\ proc = "live"
  BY DEF RunsOK, Shut, Attempt, Lanes, Exits

LEMMA ClosedIs ==
  ASSUME RunsOK, NEW t \in Tasks, NEW proc \in {"live", "astray"},
         proc = "astray" \/ claim[t].run = NoRun \/ runs[claim[t].run].proc # "live"
  PROVE  /\ Closed(t, proc) \in [RunIds -> Attempt]
         /\ \A r \in RunIds :
              /\ Closed(t, proc)[r].task = runs[r].task
              /\ Closed(t, proc)[r].open => runs[r].open /\ r # claim[t].run
              /\ r # claim[t].run => Closed(t, proc)[r] = runs[r]
              /\ Closed(t, proc)[r].proc # "none" => runs[r].proc # "none"
              /\ Closed(t, proc)[r].proc = "live" => runs[r].proc = "live" /\ r # claim[t].run
  <1>1. \A r \in RunIds : runs[r] \in Attempt
    BY DEF RunsOK, Attempt
  <1>2. Closed(t, proc) \in [RunIds -> Attempt]
    BY <1>1, ShutIs DEF Closed
  <1>3. ASSUME NEW r \in RunIds, r = claim[t].run
        PROVE  Closed(t, proc)[r] = Shut(r, proc) /\ (proc = "astray" \/ runs[r].proc # "live")
    BY <1>3, Setting DEF Closed
  <1>4. \A r \in RunIds : r # claim[t].run => Closed(t, proc)[r] = runs[r]
    BY DEF Closed
  <1> QED BY <1>2, <1>3, <1>4, ShutIs

LEMMA KilledIs ==
  ASSUME NEW rs \in [RunIds -> Attempt], NEW pid, NEW survived
  PROVE  /\ Killed(rs, pid, survived) \in [RunIds -> Attempt]
         /\ \A r \in RunIds : /\ Killed(rs, pid, survived)[r].task = rs[r].task
                              /\ Killed(rs, pid, survived)[r].open = rs[r].open
                              /\ Killed(rs, pid, survived)[r].src = rs[r].src
                              /\ Killed(rs, pid, survived)[r].proc # "none" => rs[r].proc # "none"
                              /\ Killed(rs, pid, survived)[r].proc = "live" => rs[r].proc = "live"
         /\ pid \in RunIds /\ ~survived => Killed(rs, pid, survived)[pid].proc # "live"
  <1>1. "crashed" \in Exits \cup {"none", "live", "astray"}
    BY DEF Exits
  <1> QED BY <1>1, Setting DEF Killed, Attempt

\* recompute_ready only moves cards that wait, and only when their parents are finished.
LEMMA RecomputedIs ==
  ASSUME NEW s \in [Tasks -> Statuses], NEW b \in [Tasks -> Entry], NEW limit
  PROVE  /\ Recomputed(s, b, limit) \in [Tasks -> Statuses]
         /\ \A u \in Tasks :
              \/ Recomputed(s, b, limit)[u] = s[u]
              \/ /\ s[u] \in {"todo", "blocked"} /\ Recomputed(s, b, limit)[u] \in Lanes
                 /\ \A p \in Parents[u] : s[p] \in Terminal
         /\ \A u \in Tasks : s[u] \in Terminal => Recomputed(s, b, limit)[u] = s[u]
         /\ \A u \in Tasks : Recomputed(s, b, limit)[u] = "running" <=> s[u] = "running"
  <1>1. \A u \in Tasks : s[u] \in Statuses /\ b[u].resume \in Lanes
    BY DEF Entry
  <1>2. Recomputed(s, b, limit) \in [Tasks -> Statuses]
    BY <1>1 DEF Recomputed, Statuses
  <1>3. ASSUME NEW u \in Tasks
        PROVE  \/ Recomputed(s, b, limit)[u] = s[u]
               \/ /\ s[u] \in {"todo", "blocked"} /\ Recomputed(s, b, limit)[u] \in Lanes
                  /\ \A p \in Parents[u] : s[p] \in Terminal
    BY <1>1 DEF Recomputed
  <1> QED BY <1>2, <1>3 DEF Terminal, Lanes

-----------------------------------------------------------------------------
(* The inductive invariant, and what keeps it *)

\* A card is released with its run and gated by its parents: neither part needs the other,
\* and both need the columns to be what they are.
IInv == Inv /\ ParentsGate

LEMMA Kept ==
  ASSUME IInv, TypeOK', Releases, Tracks, GateStep
  PROVE  IInv'
  <1>1. Bookkeeping' /\ HandClaims'
    BY ReleasesKeep DEF IInv
  <1>2. ParentsGate'
    BY GateKept DEF IInv, Inv, TypeOK
  <1>3. Tracked'
    BY TracksKeep DEF IInv
  <1> QED BY <1>1, <1>2, <1>3 DEF IInv, Inv

LEMMA InitIInv ==
  ASSUME Init
  PROVE  IInv
  <1>1. StatusOK /\ ClaimOK /\ BookOK /\ PastOK
    BY DEF Init, StatusOK, ClaimOK, BookOK, PastOK, Statuses, Lanes, Unclaimed
  <1>2. RunsOK
    BY DEF Init, RunsOK, Unopened, Lanes
  <1>3. TickOK /\ OpOK
    BY DEF Init, TickOK, OpOK, AtRest, NoCall
  <1>4. Bookkeeping /\ HandClaims /\ Tracked /\ ParentsGate
    BY DEF Init, Bookkeeping, HandClaims, Tracked, ParentsGate, Unclaimed, Unopened, AtRest, NoRun
  <1> QED BY <1>1, <1>2, <1>3, <1>4 DEF IInv, Inv, TypeOK

\* A card is claimed: its last run, if it leaked one, is closed on the way.
LEMMA Opened ==
  ASSUME IInv, NEW t \in Tasks, NEW r \in Fresh, NEW who \in Locks, Open(t, r, who),
         status[t] \in Lanes, claim[t].lock = Nobody, Satisfied(t), UNCHANGED <<book, op, past>>,
         TickOK', tick'.dead = tick.dead, status[t] = "ready" \/ tick.dead = {},
         \/ tick' = tick
         \/ tick'.pc = "claimed" /\ tick'.run = r /\ tick'.task = t
  PROVE  IInv'
  <1> USE DEF IInv, Inv
  <1>1. r \in RunIds /\ runs[r].task = Nobody /\ status[t] # "running"
    BY DEF Fresh, Lanes
  <1>2. /\ status' \in [Tasks -> Statuses] /\ status'[t] = "running"
        /\ \A u \in Tasks \ {t} : status'[u] = status[u]
    <2>1. "running" \in Statuses
      BY DEF Statuses
    <2> QED BY <2>1, SetIs DEF Open, TypeOK
  <1>3. /\ claim' \in [Tasks -> Holding] /\ claim'[t].lock = who /\ claim'[t].run = r
        /\ \A u \in Tasks \ {t} : claim'[u] = claim[u]
    BY <1>1 DEF Open, TypeOK, ClaimOK, Holding
  <1>4. /\ runs' \in [RunIds -> Attempt]
        /\ runs'[r] = [task |-> t, src |-> status[t], open |-> TRUE, proc |-> "none"]
        /\ \A x \in RunIds \ {r} : /\ runs'[x].task = runs[x].task /\ runs'[x].src = runs[x].src
                                   /\ runs'[x].open => runs[x].open
                                   /\ x = claim[t].run /\ status[t] = "ready" => ~runs'[x].open
                                   /\ runs'[x].proc = runs[x].proc
    <2>1. \A x \in RunIds : runs[x] \in Attempt
      BY DEF TypeOK, RunsOK, Attempt
    <2>2. [task |-> t, src |-> status[t], open |-> TRUE, proc |-> "none"] \in Attempt
      BY DEF Attempt
    <2>3. \A x \in RunIds : [runs[x] EXCEPT !.open = FALSE] \in Attempt
      BY <2>1 DEF Attempt
    <2>4. \A x \in RunIds : LET cut == [runs[x] EXCEPT !.open = FALSE] IN
            cut.task = runs[x].task /\ cut.src = runs[x].src /\ cut.proc = runs[x].proc /\ ~cut.open
      BY <2>1 DEF Attempt
    <2> QED BY <1>1, <2>1, <2>2, <2>3, <2>4 DEF Open
  <1>5. TypeOK'
    BY <1>2, <1>3, <1>4 DEF TypeOK, StatusOK, ClaimOK, BookOK, RunsOK, OpOK, PastOK, Holding, Attempt
  <1>6. \A u \in Tasks \ {t} : claim[u].run # NoRun => claim[u].run \in RunIds \ {r}
    BY <1>1, Setting DEF TypeOK, ClaimOK, Bookkeeping
  <1>7. Bookkeeping'
    <2>1. \A u \in Tasks :
            /\ status'[u] = "running" => claim'[u].lock # Nobody /\ claim'[u].run # NoRun
            /\ status'[u] # "running" /\ (claim'[u].lock # Nobody \/ claim'[u].run # NoRun) => past'[u].crossed
      BY <1>1, <1>2, <1>3, Setting DEF Bookkeeping
    <2>2. \A u \in Tasks : claim'[u].run # NoRun => runs'[claim'[u].run].task = u
      BY <1>3, <1>4, <1>6 DEF Bookkeeping
    <2>3. ASSUME NEW x \in RunIds, runs'[x].open
          PROVE  runs'[x].task \in Tasks /\ (claim'[runs'[x].task].run = x \/ past'[runs'[x].task].crossed)
      <3>1. CASE x = r
        BY <1>3, <1>4, <3>1
      <3>2. CASE x # r
        <4>1. runs[x].open /\ runs'[x].task = runs[x].task /\ runs[x].task \in Tasks
          BY <1>4, <2>3, <3>2 DEF Bookkeeping
        <4>2. CASE runs[x].task # t
          BY <1>3, <4>1, <4>2 DEF Bookkeeping
        <4>3. CASE runs[x].task = t
          <5>1. claim[t].run = x \/ past[t].crossed
            BY <4>1, <4>3 DEF Bookkeeping
          <5>2. claim[t].run = x => past[t].crossed
            BY <1>1, Setting DEF Bookkeeping
          <5> QED BY <4>1, <4>3, <5>1, <5>2
        <4> QED BY <4>2, <4>3
      <3> QED BY <3>1, <3>2
    <2> QED BY <2>1, <2>2, <2>3 DEF Bookkeeping
  <1>8. \A u \in Tasks \ {t} : claim'[u].run # NoRun => Retry(u)' = Retry(u)
    BY <1>3, <1>4, <1>6 DEF Retry
  <1>9. Retry(t)' = status[t]
    BY <1>1, <1>3, <1>4, Setting DEF Retry
  <1>10. HandClaims'
    <2>1. ASSUME NEW u \in Tasks, status'[u] # "running", claim'[u].run # NoRun
          PROVE  Retry(u)' = "ready"
      BY <1>2, <1>3, <1>8, <2>1 DEF HandClaims
    <2>2. ASSUME NEW d \in tick'.dead, status'[d.task] = "running"
          PROVE  Retry(d.task)' = "ready"
      <3>1. d \in tick.dead /\ d.task \in Tasks
        BY <2>2 DEF TypeOK, TickOK
      <3>2. CASE d.task = t
        BY <1>9, <3>1, <3>2
      <3>3. CASE d.task # t
        BY <1>2, <1>3, <1>7, <1>8, <2>2, <3>1, <3>3 DEF HandClaims, Bookkeeping
      <3> QED BY <3>2, <3>3
    <2> QED BY <2>1, <2>2 DEF HandClaims
  <1>11. ParentsGate'
    <2>1. GateStep
      BY <1>1, <1>2 DEF GateStep, Gated, Terminal, Lanes
    <2> QED BY <2>1, GateKept DEF TypeOK
  <1>12. Tracked'
    <2>1. ASSUME NEW x \in RunIds, runs'[x].proc # "none"
          PROVE  x # r /\ runs'[x].task = runs[x].task /\ runs'[x].proc = runs[x].proc /\ runs[x].task \in Tasks
      BY <1>4, <2>1 DEF Tracked
    <2>2. ASSUME NEW x \in RunIds, runs'[x].proc = "live"
          PROVE  status'[runs'[x].task] = "running" /\ claim'[runs'[x].task].run = x
      BY <1>1, <1>2, <1>3, <2>1, <2>2 DEF Tracked
    <2>3. ASSUME tick'.pc \in {"claimed", "spawned"}
          PROVE  /\ runs'[tick'.run].task = tick'.task
                 /\ runs'[tick'.run].open =>
                      status'[tick'.task] = "running" /\ claim'[tick'.task].run = tick'.run
      <3>1. CASE tick'.run = r /\ tick'.task = t
        BY <1>2, <1>3, <1>4, <3>1
      <3>2. CASE tick' = tick
        <4>1. tick.run \in RunIds /\ tick.task \in Tasks /\ runs[tick.run].task = tick.task /\ tick.run # r
          BY <1>1, <2>3, <3>2, Setting DEF TypeOK, TickOK, Tracked
        <4>2. runs'[tick.run].open =>
                runs[tick.run].open /\ status[tick.task] = "running" /\ claim[tick.task].run = tick.run
          BY <1>4, <2>3, <3>2, <4>1 DEF Tracked
        <4> QED BY <1>1, <1>2, <1>3, <1>4, <3>2, <4>1, <4>2
      <3> QED BY <3>1, <3>2
    <2>4. ASSUME tick'.pc = "kill", ~tick'.survived, tick'.run # NoRun
          PROVE  runs'[tick'.run].proc # "live"
      <3>1. tick' = tick /\ tick.run \in RunIds
        BY <2>4 DEF TypeOK, TickOK
      <3> QED BY <1>4, <2>4, <3>1 DEF Tracked
    <2>5. ASSUME NEW d \in tick'.dead, status'[d.task] = "running"
          PROVE  runs'[claim'[d.task].run].proc # "live"
      <3>1. d \in tick.dead /\ d.task \in Tasks
        BY <2>5 DEF TypeOK, TickOK
      <3>2. CASE d.task = t
        BY <1>1, <1>3, <1>4, <3>2
      <3>3. CASE d.task # t
        <4>1. status[d.task] = "running" /\ claim'[d.task] = claim[d.task] /\ claim[d.task].run \in RunIds \ {r}
          BY <1>2, <1>3, <1>6, <2>5, <3>1, <3>3 DEF Bookkeeping
        <4> QED BY <1>4, <3>1, <4>1 DEF Tracked
      <3> QED BY <3>2, <3>3
    <2> QED BY <2>1, <2>2, <2>3, <2>4, <2>5 DEF Tracked
  <1> QED BY <1>5, <1>7, <1>10, <1>11, <1>12

-----------------------------------------------------------------------------
(* Claims *)

\* A demoted card waits; the run it may have leaked stays its own.
LEMMA DemoteKeeps ==
  ASSUME IInv, NEW t \in Tasks, status[t] \in Lanes, Demote(t), UNCHANGED <<tick, op>>
  PROVE  IInv'
  <1> USE DEF IInv, Inv, TypeOK
  <1>1. /\ status' \in [Tasks -> Statuses] /\ status'[t] = "todo"
        /\ \A u \in Tasks \ {t} : status'[u] = status[u]
    <2>1. "todo" \in Statuses
      BY DEF Statuses
    <2> QED BY <2>1, SetIs DEF Demote
  <1>2. BookOK'
    BY DEF Demote, BookOK, Lanes
  <1>3. TypeOK'
    BY <1>1, <1>2 DEF Demote, StatusOK, ClaimOK, RunsOK, TickOK, OpOK, PastOK
  <1>4. Releases
    BY <1>1 DEF Releases, Demote, Lanes, ClaimOK
  <1>6. Tracks
    BY <1>1 DEF Tracks, TickGoes, Demote, Lanes
  <1>5. GateStep
    BY <1>1 DEF GateStep, Gated, Terminal, Lanes
  <1> QED BY <1>3, <1>4, <1>5, <1>6, Kept

LEMMA ClaimKeeps ==
  ASSUME IInv, NEW t \in Tasks, Claim(t)
  PROVE  IInv'
  <1>1. CASE Demote(t) /\ UNCHANGED tick
    BY <1>1, DemoteKeeps DEF Claim
  <1>2. CASE Satisfied(t) /\ UNCHANGED <<book, past>> /\ \E r \in Fresh :
               /\ Open(t, r, "dispatcher")
               /\ tick' = [tick EXCEPT !.pc = "claimed", !.task = t, !.run = r]
    <2>1. PICK r \in Fresh : /\ Open(t, r, "dispatcher")
                             /\ tick' = [tick EXCEPT !.pc = "claimed", !.task = t, !.run = r]
      BY <1>2
    <2>2. TickOK /\ tick.dead = {}
      BY DEF IInv, Inv, TypeOK, TickOK, Claim
    <2>3. /\ TickOK' /\ tick'.dead = tick.dead
          /\ tick'.pc = "claimed" /\ tick'.run = r /\ tick'.task = t
      BY <2>1, <2>2 DEF TickOK, Fresh
    <2>4. "dispatcher" \in Locks
      BY DEF Locks
    <2> QED BY <1>2, <2>1, <2>2, <2>3, <2>4, Opened DEF Claim
  <1> QED BY <1>1, <1>2 DEF Claim

LEMMA PullKeeps ==
  ASSUME IInv, NEW t \in Tasks, Pull(t)
  PROVE  IInv'
  <1> USE DEF IInv, Inv, TypeOK
  <1>1. CASE Demote(t)
    <2>1. status[t] \in Lanes
      BY DEF Pull, Lanes
    <2> QED BY <1>1, <2>1, DemoteKeeps DEF Pull
  <1>2. CASE Satisfied(t) /\ UNCHANGED <<book, past>> /\ claim[t].lock = Nobody
             /\ \E r \in Fresh : Open(t, r, "puller")
    <2>1. "puller" \in Locks /\ status[t] \in Lanes /\ TickOK' /\ tick'.dead = tick.dead
      BY DEF Locks, Lanes, Pull, TickOK
    <2> QED BY <1>2, <2>1, Opened DEF Pull
  <1>3. CASE Satisfied(t) /\ UNCHANGED <<book, past>> /\ claim[t].lock # Nobody /\ claim[t].run # NoRun
             /\ runs' = [runs EXCEPT ![claim[t].run].open = FALSE] /\ UNCHANGED <<status, claim>>
    <2>1. claim[t].run \in RunIds
      BY <1>3 DEF ClaimOK
    <2>2. /\ runs' \in [RunIds -> Attempt]
          /\ \A r \in RunIds : /\ runs'[r].task = runs[r].task /\ runs'[r].src = runs[r].src
                               /\ runs'[r].open => runs[r].open
                               /\ runs'[r].proc = runs[r].proc
      BY <1>3, <2>1 DEF RunsOK, Attempt
    <2>3. TypeOK'
      BY <1>3, <2>2 DEF Pull, StatusOK, ClaimOK, BookOK, RunsOK, TickOK, OpOK, PastOK, Attempt
    <2>4. Releases /\ Tracks /\ GateStep
      BY <1>3, <2>2 DEF Pull, Releases, Tracks, TickGoes, GateStep, ClaimOK
    <2> QED BY <2>3, <2>4, Kept
  <1> QED BY <1>1, <1>2, <1>3 DEF Pull

-----------------------------------------------------------------------------
(* Steps that leave claims, runs and statuses alone *)

LEMMA LapseKeeps ==
  ASSUME IInv, NEW t \in Tasks, NEW lapsed \in BOOLEAN, claim' = [claim EXCEPT ![t].lapsed = lapsed],
         UNCHANGED <<status, book, runs, op, past>>, TickOK', tick'.dead \subseteq tick.dead, TickGoes
  PROVE  IInv'
  <1> USE DEF IInv, Inv, TypeOK
  <1>1. claim' \in [Tasks -> Holding] /\ \A u \in Tasks : claim'[u].run = claim[u].run /\ claim'[u].lock = claim[u].lock
    BY DEF ClaimOK, Holding
  <1>2. TypeOK'
    BY <1>1 DEF StatusOK, ClaimOK, BookOK, RunsOK, OpOK, PastOK, Holding
  <1> QED BY <1>1, <1>2, Untouched, Kept

\* A process starts, ends or is killed; the tick or an operator's call moves on.
LEMMA ProcessKeeps ==
  ASSUME IInv, runs' \in [RunIds -> Attempt],
         \A r \in RunIds : /\ runs'[r].task = runs[r].task /\ runs'[r].open = runs[r].open
                           /\ runs'[r].src = runs[r].src
                           /\ runs'[r].proc # "none" => runs[r].proc # "none"
                           /\ runs'[r].proc = "live" => runs[r].proc = "live",
         UNCHANGED <<status, claim, book, past>>, OpOK', TickOK', tick'.dead \subseteq tick.dead, TickGoes
  PROVE  IInv'
  <1>1. TypeOK'
    BY DEF IInv, Inv, TypeOK, StatusOK, ClaimOK, BookOK, RunsOK, PastOK, Attempt
  <1> QED BY <1>1, Untouched, Kept DEF IInv

LEMMA KillKeeps ==
  ASSUME IInv, NEW t \in Tasks, NEW why \in {"expired", "silent", "overtime"}, Kill(t, why)
  PROVE  IInv'
  <1> USE DEF IInv, Inv, TypeOK
  <1>1. PICK survived \in Outcomes(t) :
          /\ runs' = Killed(runs, claim[t].pid, survived)
          /\ tick' = [tick EXCEPT !.pc = "kill", !.why = why, !.task = t, !.run = claim[t].pid,
                                  !.lock = claim[t].lock, !.survived = survived]
    BY DEF Kill
  <1>2. survived \in BOOLEAN
    BY DEF Outcomes
  <1>3. tick.dead = {}
    BY DEF Kill, Sweeps, TickOK
  <1>4. claim[t].pid \in RunIds \cup {NoRun} /\ claim[t].lock \in Locks \cup {Nobody}
    BY DEF ClaimOK
  <1>5. TickOK' /\ tick'.dead \subseteq tick.dead
    BY <1>1, <1>2, <1>3, <1>4 DEF TickOK
  <1>6. runs \in [RunIds -> Attempt]
    BY DEF RunsOK, Attempt
  <1>7. OpOK'
    BY DEF OpOK, Kill
  <1>8. TickGoes
    <2>1. tick'.pc = "kill" /\ tick'.survived = survived /\ tick'.run = claim[t].pid
      BY <1>1 DEF TickOK
    <2>2. ASSUME claim[t].pid # NoRun, ~survived
          PROVE  runs'[claim[t].pid].proc # "live"
      BY <1>1, <1>4, <1>6, <2>2, KilledIs
    <2> QED BY <2>1, <2>2 DEF TickGoes
  <1>9. /\ runs' \in [RunIds -> Attempt]
        /\ \A r \in RunIds : /\ runs'[r].task = runs[r].task /\ runs'[r].open = runs[r].open
                             /\ runs'[r].src = runs[r].src
                             /\ runs'[r].proc # "none" => runs[r].proc # "none"
                             /\ runs'[r].proc = "live" => runs[r].proc = "live"
    BY <1>1, <1>6, KilledIs
  <1> QED BY <1>5, <1>7, <1>8, <1>9, ProcessKeeps DEF Kill

LEMMA SpawnKeeps ==
  ASSUME IInv, Spawn
  PROVE  IInv'
  <1> USE DEF IInv, Inv, TypeOK
  <1>1. tick.run \in RunIds /\ tick.task \in Tasks /\ tick.dead = {}
    BY DEF Spawn, TickOK
  <1>2. runs' \in [RunIds -> Attempt] /\ \A r \in RunIds :
          runs'[r].task = runs[r].task /\ runs'[r].open = runs[r].open /\ runs'[r].src = runs[r].src
    BY <1>1 DEF Spawn, RunsOK, Attempt
  <1>3. TickOK' /\ tick'.dead = {}
    BY <1>1 DEF Spawn, TickOK
  <1>4. TypeOK'
    BY <1>2, <1>3 DEF Spawn, StatusOK, ClaimOK, BookOK, RunsOK, OpOK, PastOK, Attempt
  <1>5. Releases /\ GateStep
    BY <1>2, <1>3 DEF Spawn, Releases, GateStep, ClaimOK
  <1>6. Bookkeeping' /\ HandClaims' /\ ParentsGate'
    BY <1>4, <1>5, ReleasesKeep, GateKept
  <1>7. Tracked'
    <2>1. /\ tick'.pc = "spawned" /\ tick'.run = tick.run /\ tick'.task = tick.task
          /\ tick.pc = "claimed"
      BY DEF Spawn, TickOK
    <2>2. \A r \in RunIds \ {tick.run} : runs'[r] = runs[r]
      BY DEF Spawn, RunsOK
    <2>3. runs'[tick.run].proc = "live" => runs[tick.run].open
      BY <1>1 DEF Spawn, RunsOK
    <2>4. UNCHANGED <<status, claim>>
      BY DEF Spawn
    <2> QED BY <1>1, <1>2, <1>3, <2>1, <2>2, <2>3, <2>4 DEF Tracked
  <1> QED BY <1>4, <1>6, <1>7

LEMMA RecordPidKeeps ==
  ASSUME IInv, RecordPid
  PROVE  IInv'
  <1> USE DEF IInv, Inv, TypeOK
  <1>1. tick.run \in RunIds /\ tick.task \in Tasks
    BY DEF RecordPid, TickOK
  <1>2. claim' \in [Tasks -> Holding] /\ \A u \in Tasks : claim'[u].run = claim[u].run /\ claim'[u].lock = claim[u].lock
    BY <1>1 DEF RecordPid, ClaimOK, Holding
  <1>3. TickOK' /\ tick'.dead = {}
    BY DEF RecordPid, TickOK, AtRest
  <1>4. TypeOK'
    BY <1>2, <1>3 DEF RecordPid, StatusOK, ClaimOK, BookOK, RunsOK, OpOK, PastOK, Holding
  <1>6. TickGoes
    BY DEF RecordPid, TickGoes, AtRest
  <1>5. Releases /\ Tracks /\ GateStep
    BY <1>2, <1>3, <1>6, Untouched DEF RecordPid
  <1> QED BY <1>4, <1>5, Kept

LEMMA TickEndsKeeps ==
  ASSUME IInv, tick' = AtRest, UNCHANGED <<status, claim, book, runs, op, past>>
  PROVE  IInv'
  <1>1. TickOK' /\ tick'.dead \subseteq tick.dead /\ TickGoes
    BY DEF TickOK, AtRest, TickGoes
  <1>2. runs' \in [RunIds -> Attempt] /\ OpOK'
    BY DEF IInv, Inv, TypeOK, RunsOK, OpOK, Attempt
  <1> QED BY <1>1, <1>2, ProcessKeeps

LEMMA WorkerExitsKeeps ==
  ASSUME IInv, NEW r \in RunIds, WorkerExits(r)
  PROVE  IInv'
  <1> USE DEF IInv, Inv, TypeOK
  <1>1. runs' \in [RunIds -> Attempt] /\ \A x \in RunIds :
          /\ runs'[x].task = runs[x].task /\ runs'[x].open = runs[x].open /\ runs'[x].src = runs[x].src
          /\ runs'[x].proc # "none" => runs[x].proc # "none"
          /\ runs'[x].proc = "live" => runs[x].proc = "live"
    BY DEF WorkerExits, Alive, Exits, RunsOK, Attempt
  <1>2. TickOK' /\ OpOK' /\ tick'.dead \subseteq tick.dead /\ TickGoes
    BY DEF WorkerExits, TickOK, OpOK, TickGoes
  <1> QED BY <1>1, <1>2, ProcessKeeps DEF WorkerExits

LEMMA CallReadsKeeps ==
  ASSUME IInv, NEW t \in Tasks, PromoteCheck(t) \/ ReclaimKill(t)
  PROVE  IInv'
  <1> USE DEF IInv, Inv, TypeOK
  <1>1. TickOK' /\ tick'.dead \subseteq tick.dead /\ TickGoes
    BY DEF PromoteCheck, ReclaimKill, TickOK, TickGoes
  <1>2. runs \in [RunIds -> Attempt]
    BY DEF RunsOK, Attempt
  <1>3. CASE PromoteCheck(t)
    <2>1. op' = [verb |-> "promote", task |-> t, lock |-> Nobody]
      BY <1>3 DEF PromoteCheck, NoCall
    <2>2. OpOK'
      BY <2>1 DEF OpOK
    <2> QED BY <1>1, <1>2, <1>3, <2>2, ProcessKeeps DEF PromoteCheck
  <1>4. CASE ReclaimKill(t)
    <2>1. OpOK'
      BY <1>4 DEF ReclaimKill, OpOK, ClaimOK
    <2>2. PICK survived : runs' = Killed(runs, claim[t].pid, survived)
      BY <1>4 DEF ReclaimKill
    <2>3. /\ runs' \in [RunIds -> Attempt]
          /\ \A r \in RunIds : /\ runs'[r].task = runs[r].task /\ runs'[r].open = runs[r].open
                               /\ runs'[r].src = runs[r].src
                               /\ runs'[r].proc # "none" => runs[r].proc # "none"
                               /\ runs'[r].proc = "live" => runs[r].proc = "live"
      BY <1>2, <2>2, KilledIs
    <2> QED BY <1>1, <1>4, <2>1, <2>3, ProcessKeeps DEF ReclaimKill
  <1> QED BY <1>3, <1>4

-----------------------------------------------------------------------------
(* The releases of the tick, and what it records after them *)

LEMMA Freeing ==
  ASSUME IInv, NEW t \in Tasks, claim' = Freed(t), runs' \in [RunIds -> Attempt], ClosesRun(t),
         status' \in [Tasks -> Statuses], OnlyStops(t), BookOK', TickOK', OpOK', PastOK',
         \A u \in Tasks : past[u].crossed => past'[u].crossed,
         \A d \in tick'.dead : d \in tick.dead \/ status'[d.task] # "running",
         TickGoes, GateStep
  PROVE  IInv'
  <1>1. /\ claim' \in [Tasks -> Holding] /\ claim'[t].run = NoRun /\ claim'[t].lock = Nobody
        /\ \A u \in Tasks \ {t} : claim'[u] = claim[u]
    BY FreedIs DEF IInv, Inv, TypeOK
  <1>2. TypeOK'
    BY <1>1 DEF TypeOK, StatusOK, ClaimOK, RunsOK, Holding, Attempt
  <1>3. Releases /\ Tracks
    BY <1>1, Releasing DEF IInv
  <1> QED BY <1>2, <1>3, Kept

LEMMA ClosedFits ==
  ASSUME IInv, NEW t \in Tasks, NEW proc \in {"live", "astray"},
         proc = "astray" \/ claim[t].run = NoRun \/ runs[claim[t].run].proc # "live", runs' = Closed(t, proc)
  PROVE  runs' \in [RunIds -> Attempt] /\ ClosesRun(t)
  BY ClosedIs DEF IInv, Inv, TypeOK, ClosesRun

\* The lane a released card goes back to is open to it.
LEMMA RequeueKeeps ==
  ASSUME IInv, NEW t \in Tasks, NEW proc \in {"live", "astray"}, NEW n \in Nat, NEW k \in Nat,
         proc = "astray" \/ claim[t].run = NoRun \/ runs[claim[t].run].proc # "live", TickGoes,
         status[t] \notin Terminal, status' = Set(t, Retry(t)), claim' = Freed(t),
         runs' = Closed(t, proc), book' = Booked(t, n, k, Retry(t)), TickOK', OpOK', PastOK',
         \A u \in Tasks : past[u].crossed => past'[u].crossed,
         \A d \in tick'.dead : d \in tick.dead \/ d.task = t
  PROVE  IInv'
  <1> USE DEF IInv, Inv, TypeOK
  <1>1. Retry(t) \in Lanes
    BY RetryIs
  <1>2. /\ status' \in [Tasks -> Statuses] /\ status'[t] = Retry(t)
        /\ \A u \in Tasks \ {t} : status'[u] = status[u]
    <2>1. Retry(t) \in Statuses
      BY <1>1 DEF Statuses
    <2> QED BY <2>1, SetIs
  <1>3. BookOK'
    BY <1>1, BookedIs DEF BookOK, Entry
  <1>4. OnlyStops(t)
    BY <1>1, <1>2 DEF OnlyStops, Lanes
  <1>5. status[t] # "running" => Retry(t) = "ready"
    BY DEF HandClaims, Retry
  <1>6. GateStep
    BY <1>1, <1>2, <1>5 DEF GateStep, Gated, Terminal, Lanes
  <1>7. \A d \in tick'.dead : d \in tick.dead \/ status'[d.task] # "running"
    BY <1>1, <1>2 DEF Lanes
  <1> QED BY <1>2, <1>3, <1>4, <1>6, <1>7, ClosedFits, Freeing

LEMMA ReleaseKeeps ==
  ASSUME IInv, Release
  PROVE  IInv'
  <1> USE DEF IInv, Inv, TypeOK
  <1> DEFINE t == tick.task
  <1>1. t \in Tasks
    BY DEF Release, TickOK
  <1>2. TickOK' /\ \A d \in tick'.dead : d.task = t /\ Unmoved
    <2>1. AtRest \in [pc : {"sweep"}, why : {"none"}, task : {Nobody}, run : {NoRun}, lock : {Nobody},
                      survived : {FALSE}, dead : {{}}]
      BY DEF AtRest
    <2>2. CASE tick.why # "overtime"
      BY <2>1, <2>2 DEF Release, TickOK
    <2>3. CASE tick.why = "overtime"
      <3>1. PICK dead : /\ dead = IF Unmoved THEN {[task |-> t, violation |-> FALSE]} ELSE {}
                        /\ tick' = [AtRest EXCEPT !.pc = "account", !.dead = dead]
        BY <2>3 DEF Release
      <3>2. dead \subseteq [task : Tasks, violation : BOOLEAN] /\ \A d \in dead : d.task = t /\ Unmoved
        <4>1. CASE Unmoved
          BY <1>1, <3>1, <4>1
        <4>2. CASE ~Unmoved
          BY <3>1, <4>2
        <4> QED BY <4>1, <4>2
      <3>3. TickOK' /\ tick'.dead = dead
        BY <2>1, <3>1, <3>2 DEF TickOK
      <3> QED BY <3>2, <3>3
    <2> QED BY <2>2, <2>3
  <1>3. OpOK' /\ PastOK' /\ \A u \in Tasks : past[u].crossed => past'[u].crossed
    BY DEF Release, OpOK, PastOK
  <1>7. TickGoes
    <2>1. tick'.pc \in {"sweep", "account"}
      BY DEF Release, AtRest
    <2> QED BY <2>1 DEF TickGoes
  <1>4. CASE /\ Unmoved /\ Defers
             /\ claim' = [claim EXCEPT ![t].lapsed = FALSE]
             /\ UNCHANGED <<status, book, runs>>
    <2>1. tick' = AtRest
      BY <1>4 DEF Release, Defers
    <2>2. TickOK' /\ tick'.dead \subseteq tick.dead
      BY <1>2, <2>1 DEF AtRest
    <2> QED BY <1>1, <1>4, <1>7, <2>2, LapseKeeps DEF Release
  <1>5. CASE Unmoved /\ ~Defers /\ Requeue(t, ReleaseMode)
    <2>1. ReleaseMode \in {"live", "astray"} /\ book[t].failures \in Nat /\ 0 \in Nat
      BY <1>1 DEF ReleaseMode, BookOK
    <2>2. status[t] = "running"
      BY <1>5 DEF Unmoved
    <2>3. status[t] \notin Terminal
      BY <2>2 DEF Terminal
    <2>4. ReleaseMode = "astray" \/ claim[t].run = NoRun \/ runs[claim[t].run].proc # "live"
      BY <1>5 DEF Release, ReleaseMode, Defers, Tracked
    <2> HIDE DEF t, IInv
    <2> QED BY <1>1, <1>2, <1>3, <1>5, <1>7, <2>1, <2>3, <2>4, RequeueKeeps DEF Requeue
  <1>6. CASE ~Unmoved /\ UNCHANGED <<status, claim, book, runs>>
    <2>1. tick'.dead \subseteq tick.dead
      BY <1>2, <1>6
    <2>2. runs' \in [RunIds -> Attempt]
      BY <1>6 DEF RunsOK, Attempt
    <2> QED BY <1>2, <1>3, <1>6, <1>7, <2>1, <2>2, ProcessKeeps DEF Release
  <1> QED BY <1>4, <1>5, <1>6 DEF Release

LEMMA CrashSweepKeeps ==
  ASSUME IInv, CrashSweep
  PROVE  IInv'
  <1> USE DEF IInv, Inv, TypeOK
  <1>1. \A t \in Tasks : Retry(t) \in Lanes
    BY RetryIs
  <1>2. Dead \subseteq Tasks /\ \A t \in Dead : status[t] = "running"
    BY DEF Dead
  <1>3. /\ status' \in [Tasks -> Statuses]
        /\ \A t \in Dead : status'[t] \in Lanes
        /\ \A t \in Tasks \ Dead : status'[t] = status[t]
    BY <1>1, <1>2 DEF CrashSweep, StatusOK, Statuses
  <1>4. /\ claim' \in [Tasks -> Holding]
        /\ \A t \in Dead : claim'[t].run = NoRun /\ claim'[t].lock = Nobody
        /\ \A t \in Tasks \ Dead : claim'[t] = claim[t]
    <2>1. Unclaimed \in Holding /\ Unclaimed.run = NoRun /\ Unclaimed.lock = Nobody
      BY DEF Unclaimed, Holding
    <2> QED BY <1>2, <2>1 DEF CrashSweep, ClaimOK, Holding
  <1>5. /\ runs' \in [RunIds -> Attempt]
        /\ \A r \in RunIds : /\ runs'[r].task = runs[r].task /\ (runs'[r].open => runs[r].open)
                             /\ runs'[r].proc # "none" => runs[r].proc # "none"
                             /\ runs'[r].proc = "live" => runs[r].proc = "live"
                             /\ IF \E t \in Dead : claim[t].run = r THEN ~runs'[r].open /\ runs'[r].proc # "live"
                                ELSE runs'[r].src = runs[r].src
    <2>1. \A r \in RunIds : runs[r] \in Attempt
      BY DEF RunsOK, Attempt
    <2>2. \A r \in RunIds : /\ Shut(r, "astray") \in Attempt /\ Shut(r, "astray").task = runs[r].task
                            /\ ~Shut(r, "astray").open /\ Shut(r, "astray").proc # "live"
                            /\ Shut(r, "astray").proc # "none" => runs[r].proc # "none"
      BY ShutIs
    <2>3. runs' = [r \in RunIds |-> IF \E t \in Dead : claim[t].run = r THEN Shut(r, "astray") ELSE runs[r]]
      BY DEF CrashSweep
    <2> QED BY <2>1, <2>2, <2>3
  <1>6. BookOK'
    <2>1. \A t \in Tasks : book[t] \in Entry
      BY DEF BookOK, Entry
    <2>2. ASSUME NEW t \in Tasks
          PROVE  /\ [book[t] EXCEPT !.streak = @ + 1] \in Entry
                 /\ [book[t] EXCEPT !.resume = Retry(t)] \in Entry
                 /\ [book[t] EXCEPT !.streak = 0, !.resume = Retry(t)] \in Entry
      BY <1>1, <2>1, EntryIs
    <2>3. book' \in [Tasks -> Entry]
      BY <2>1, <2>2 DEF CrashSweep
    <2> QED BY <2>3 DEF BookOK, Entry
  <1>7. TickOK' /\ \A d \in tick'.dead : d.task \in Dead
    <2>1. tick' = [AtRest EXCEPT !.pc = "account",
       !.dead = {[task |-> t, violation |-> Exit(t) = "clean"] : t \in {u \in Dead : Exit(u) # "limited"}}]
      BY DEF CrashSweep
    <2>2. \A t \in Dead : [task |-> t, violation |-> Exit(t) = "clean"] \in [task : Dead, violation : BOOLEAN]
      OBVIOUS
    <2>3. {[task |-> t, violation |-> Exit(t) = "clean"] : t \in {u \in Dead : Exit(u) # "limited"}}
             \subseteq [task : Dead, violation : BOOLEAN]
      BY <2>2
    <2> QED BY <1>2, <2>1, <2>3 DEF TickOK, AtRest
  <1>8. TypeOK'
    BY <1>3, <1>4, <1>5, <1>6, <1>7 DEF CrashSweep, StatusOK, ClaimOK, RunsOK, OpOK, PastOK, Holding, Attempt
  <1>9. Releases
    <2>1. ASSUME NEW u \in Tasks, claim[u].run # NoRun
          PROVE  IF claim'[u].run = NoRun THEN ~runs'[claim[u].run].open \/ past'[u].crossed
                 ELSE runs'[claim[u].run].src = runs[claim[u].run].src
      <3>1. claim[u].run \in RunIds
        BY <2>1 DEF ClaimOK
      <3>2. CASE u \in Dead
        BY <1>4, <1>5, <3>1, <3>2
      <3>3. CASE u \notin Dead
        <4>1. \A t \in Dead : claim[t].run # claim[u].run
          BY <1>2, <2>1, <3>3, RunsApart
        <4> QED BY <1>4, <1>5, <2>1, <3>1, <3>3, <4>1
      <3> QED BY <3>2, <3>3
    <2>2. past' = past
      BY DEF CrashSweep
    <2> QED BY <1>2, <1>3, <1>4, <1>5, <1>7, <2>1, <2>2 DEF Releases, Lanes
  <1>11. Tracks
    <2>1. TickGoes
      BY DEF CrashSweep, TickGoes, AtRest
    <2>2. \A u \in Dead : claim[u].run \in RunIds
      BY <1>2 DEF Bookkeeping, ClaimOK
    <2> QED BY <1>2, <1>3, <1>5, <2>1, <2>2 DEF Tracks
  <1>10. GateStep
    BY <1>2, <1>3 DEF GateStep, Gated, Terminal
  <1> QED BY <1>8, <1>9, <1>10, <1>11, Kept

LEMMA AccountKeeps ==
  ASSUME IInv, NEW d \in tick.dead, Account(d)
  PROVE  IInv'
  <1> USE DEF IInv, Inv, TypeOK
  <1> DEFINE t == d.task
  <1>1. t \in Tasks
    BY DEF TickOK
  <1>2. TickOK' /\ tick'.dead \subseteq tick.dead
    BY DEF Account, TickOK
  <1>7. TickGoes /\ tick.pc = "account"
    BY DEF Account, TickOK, TickGoes
  <1>3. OpOK' /\ RunsOK' /\ ClaimOK'
    BY DEF Account, OpOK, RunsOK, ClaimOK
  <1>4. CASE UNCHANGED <<status, book, past>>
    <2>1. runs' \in [RunIds -> Attempt]
      BY <1>3 DEF RunsOK, Attempt
    <2> QED BY <1>2, <1>3, <1>4, <1>7, <2>1, ProcessKeeps DEF Account
  <1>5. CASE book' = [book EXCEPT ![t].failures = @ + 1] /\ UNCHANGED <<status, past>>
    <2>1. BookOK'
      BY <1>1, <1>5 DEF BookOK
    <2>2. TypeOK'
      BY <1>2, <1>3, <1>5, <2>1 DEF StatusOK, PastOK
    <2>3. Releases /\ Tracks /\ GateStep
      BY <1>2, <1>5, <1>7, Untouched DEF Account
    <2> QED BY <2>2, <2>3, Kept
  <1>6. CASE Trip(t, DefaultLimit)
    <2> DEFINE lane == IF status[t] = "review" THEN "review" ELSE "ready"
               failures == book[t].failures + 1
    <2>1. lane \in Lanes /\ failures \in Nat /\ book[t].streak \in Nat /\ "blocked" \in Statuses
      BY <1>1 DEF Lanes, BookOK, Statuses
    <2>2. CASE Trippable(t)
      <3>1. /\ status' = Set(t, "blocked")
            /\ book' = Booked(t, failures, book[t].streak, lane)
            /\ past' = [past EXCEPT ![t].held = Reason(failures, DefaultLimit),
                                    ![t].crossed = @ \/ status[t] = "running"]
        BY <1>6, <2>2 DEF Trip
      <3>2. /\ status' \in [Tasks -> Statuses] /\ status'[t] = "blocked"
            /\ \A u \in Tasks \ {t} : status'[u] = status[u]
        BY <1>1, <2>1, <3>1, SetIs
      <3>3. BookOK'
        BY <1>1, <2>1, <3>1, BookedIs DEF BookOK, Entry
      <3>4. PastOK' /\ (\A u \in Tasks : past[u].crossed => past'[u].crossed)
              /\ (status[t] = "running" => past'[t].crossed)
        BY <1>1, <3>1 DEF PastOK, Reason
      <3>5. TypeOK'
        BY <1>2, <1>3, <3>2, <3>3, <3>4 DEF StatusOK
      <3>6. status[t] = "running" => Retry(t) = "ready"
        BY DEF HandClaims
      <3>7. Releases
        BY <1>1, <1>2, <3>2, <3>4, <3>6 DEF Releases, Account, ClaimOK
      <3>8. GateStep
        BY <2>2, <3>2 DEF GateStep, Gated, Terminal, Trippable
      <3>9. Tracks
        <4>1. UNCHANGED <<runs, claim>>
          BY DEF Account
        <4>2. status[t] = "running" => runs[claim[t].run].proc # "live"
          BY DEF Tracked
        <4>3. \A u \in Tasks : status[u] = "running" /\ status'[u] # "running" => u = t
          BY <3>2
        <4> QED BY <1>7, <4>1, <4>2, <4>3 DEF Tracks
      <3> QED BY <3>5, <3>7, <3>8, <3>9, Kept
    <2>3. CASE ~Trippable(t)
      <3>1. /\ book' = [book EXCEPT ![t].resume = lane]
            /\ past' = [past EXCEPT ![t].crossed = TRUE]
            /\ UNCHANGED status
        BY <1>6, <2>3 DEF Trip
      <3>2. BookOK'
        BY <1>1, <2>1, <3>1 DEF BookOK
      <3>3. PastOK' /\ \A u \in Tasks : past[u].crossed => past'[u].crossed
        BY <1>1, <3>1 DEF PastOK
      <3>4. TypeOK'
        BY <1>2, <1>3, <3>1, <3>2, <3>3 DEF StatusOK
      <3>5. Releases /\ Tracks /\ GateStep
        BY <1>2, <1>7, <3>1, <3>3, Untouched DEF Account
      <3> QED BY <3>4, <3>5, Kept
    <2> QED BY <2>2, <2>3
  <1> QED BY <1>4, <1>5, <1>6 DEF Account

\* What recompute_ready sends back to its lane passes the gate.
LEMMA RecomputedGate ==
  ASSUME NEW s \in [Tasks -> Statuses], NEW b \in [Tasks -> Entry], NEW limit,
         status' = Recomputed(s, b, limit),
         \A u \in Tasks : status[u] \in Terminal => s[u] \in Terminal,
         \A u \in Tasks : s[u] \in Gated => status[u] \in Gated \/ Satisfied(u)
  PROVE  GateStep
  <1>1. \A u \in Tasks : s[u] \in Terminal => status'[u] \in Terminal
    BY RecomputedIs
  <1>2. ASSUME NEW u \in Tasks, status'[u] \in Gated
        PROVE  status[u] \in Gated \/ Satisfied(u) \/ \A p \in Parents[u] : status'[p] \in Terminal
    <2>1. CASE s[u] = status'[u]
      BY <1>2, <2>1
    <2>2. CASE \A p \in Parents[u] : s[p] \in Terminal
      BY <1>1, <2>2, Setting
    <2> QED BY <2>1, <2>2, RecomputedIs
  <1> QED BY <1>1, <1>2 DEF GateStep

LEMMA PromoteKeeps ==
  ASSUME IInv, Promote
  PROVE  IInv'
  <1> USE DEF IInv, Inv, TypeOK
  <1>1. status \in [Tasks -> Statuses] /\ book \in [Tasks -> Entry]
    BY DEF StatusOK, BookOK, Entry
  <1>2. /\ status' \in [Tasks -> Statuses]
        /\ \A u \in Tasks : status'[u] = "running" <=> status[u] = "running"
    BY <1>1, RecomputedIs DEF Promote
  <1>3. TickOK' /\ tick'.dead = {}
    BY DEF Promote, TickOK, AtRest
  <1>4. TypeOK'
    BY <1>2, <1>3 DEF Promote, StatusOK, ClaimOK, BookOK, RunsOK, OpOK, PastOK
  <1>5. Releases
    BY <1>2, <1>3 DEF Promote, Releases, ClaimOK
  <1>6. GateStep
    BY <1>1, RecomputedGate DEF Promote
  <1>7. Tracks
    <2>1. tick'.pc = "lanes"
      BY DEF Promote, AtRest
    <2> QED BY <1>2, <2>1 DEF Promote, Tracks, TickGoes
  <1> QED BY <1>4, <1>5, <1>6, <1>7, Kept

LEMMA SpawnFailedKeeps ==
  ASSUME IInv, SpawnFailed
  PROVE  IInv'
  <1> USE DEF IInv, Inv, TypeOK
  <1> DEFINE t == tick.task
             lane == Retry(t)
             failures == book[t].failures + 1
             trips == failures >= FailureLimit
             moves == IF trips THEN Trippable(t) ELSE status[t] = "running"
  <1>1. t \in Tasks
    BY DEF SpawnFailed, TickOK
  <1>2. /\ status' = IF moves THEN Set(t, IF trips THEN "blocked" ELSE lane) ELSE status
        /\ claim' = IF moves THEN Freed(t) ELSE [claim EXCEPT ![t].run = NoRun]
        /\ runs' = Closed(t, "astray")
        /\ book' = Booked(t, IF moves THEN failures ELSE book[t].failures, StreakAfter(t, FALSE), lane)
        /\ past' = [past EXCEPT ![t].held = IF moves /\ trips THEN "budget" ELSE @,
                                ![t].crossed = @ \/ status[t] # "running" \/ claim[t].run # tick.run]
        /\ tick' = [AtRest EXCEPT !.pc = "lanes"] /\ op' = op
    BY DEF SpawnFailed
  <1>3. lane \in Lanes /\ failures \in Nat /\ book[t].failures \in Nat
    BY <1>1, RetryIs DEF BookOK
  <1>4. moves => status[t] \in {"running", "ready", "review"} /\ (trips \/ status[t] = "running")
    BY DEF Trippable
  <1>5. ~moves => status[t] # "running"
    BY DEF Trippable
  <1>6. TickOK' /\ tick'.dead = {}
    BY <1>2 DEF TickOK, AtRest
  <1>7. OpOK'
    BY <1>2 DEF OpOK
  <1>8. BookOK'
    <2>1. StreakAfter(t, FALSE) \in Nat
      BY <1>1, StreakIs
    <2>2. (IF moves THEN failures ELSE book[t].failures) \in Nat
      BY <1>3
    <2> HIDE DEF lane, failures, moves
    <2> QED BY <1>1, <1>2, <1>3, <2>1, <2>2, BookedIs DEF BookOK, Entry
  <1>9. PastOK' /\ \A u \in Tasks : past[u].crossed => past'[u].crossed
    <2>1. PICK held : /\ held \in {past[t].held, "budget"}
                      /\ past' = [past EXCEPT ![t].held = held,
                           ![t].crossed = @ \/ status[t] # "running" \/ claim[t].run # tick.run]
      <3>1. CASE moves /\ trips
        BY <1>2, <3>1
      <3>2. CASE ~(moves /\ trips)
        BY <1>2, <3>2
      <3> QED BY <3>1, <3>2
    <2> QED BY <1>1, <2>1 DEF PastOK
  <1>10. /\ status' \in [Tasks -> Statuses]
         /\ \A u \in Tasks \ {t} : status'[u] = status[u]
         /\ IF moves THEN status'[t] \in Lanes \cup {"blocked"} /\ (status'[t] = "blocked" \/ status[t] = "running")
            ELSE status'[t] = status[t]
    <2>1. CASE moves
      <3>1. PICK to : to = (IF trips THEN "blocked" ELSE lane) /\ status' = Set(t, to)
        BY <1>2, <2>1
      <3>2. to \in Statuses /\ to \in Lanes \cup {"blocked"} /\ (to = "blocked" \/ status[t] = "running")
        BY <1>3, <1>4, <2>1, <3>1 DEF Statuses
      <3> QED BY <1>1, <2>1, <3>1, <3>2, SetIs
    <2>2. CASE ~moves
      BY <1>2, <2>2 DEF StatusOK
    <2> QED BY <2>1, <2>2
  <1>11. runs' \in [RunIds -> Attempt] /\ ClosesRun(t)
    BY <1>1, <1>2, ClosedFits
  <1>12. /\ claim' \in [Tasks -> Holding] /\ claim'[t].run = NoRun
         /\ claim'[t].lock = Nobody \/ (claim'[t].lock = claim[t].lock /\ status[t] # "running")
         /\ \A u \in Tasks \ {t} : claim'[u] = claim[u]
    <2>1. CASE moves
      BY <1>1, <1>2, <2>1, FreedIs
    <2>2. CASE ~moves
      BY <1>1, <1>2, <1>5, <2>2 DEF ClaimOK, Holding
    <2> QED BY <2>1, <2>2
  <1>13. OnlyStops(t)
    BY <1>5, <1>10 DEF OnlyStops, Lanes
  <1> HIDE DEF t, moves
  <1>14. TypeOK'
    BY <1>6, <1>7, <1>8, <1>9, <1>10, <1>11, <1>12 DEF StatusOK, ClaimOK, RunsOK, Holding, Attempt
  <1>15. Releases /\ Tracks
    <2>1. tick'.pc = "lanes"
      BY DEF SpawnFailed, AtRest
    <2>2. TickGoes
      BY <2>1 DEF TickGoes
    <2>3. Inv
      OBVIOUS
    <2> HIDE DEF IInv, Inv
    <2> QED BY <1>1, <1>6, <1>9, <1>11, <1>12, <1>13, <2>2, <2>3, Releasing
  <1>16. GateStep
    BY <1>1, <1>4, <1>10 DEF GateStep, Gated, Terminal, Lanes
  <1> QED BY <1>14, <1>15, <1>16, Kept

-----------------------------------------------------------------------------
(* Calls of workers and operators *)

\* A call that gives a card up and sends it somewhere.
LEMMA SendKeeps ==
  ASSUME IInv, NEW t \in Tasks, NEW s \in Statuses \ {"running"}, status' = Set(t, s),
         status[t] \notin Terminal, s \in Gated => Satisfied(t),
         claim' = Freed(t), runs' = Closed(t, "astray"), BookOK', PastOK',
         \A u \in Tasks : past[u].crossed => past'[u].crossed, UNCHANGED <<tick, op>>
  PROVE  IInv'
  <1> USE DEF IInv, Inv, TypeOK
  <1>1. /\ status' \in [Tasks -> Statuses] /\ status'[t] = s
        /\ \A u \in Tasks \ {t} : status'[u] = status[u]
    BY SetIs
  <1>2. OnlyStops(t)
    BY <1>1 DEF OnlyStops
  <1>3. GateStep
    BY <1>1 DEF GateStep
  <1>4. TickOK' /\ OpOK' /\ tick'.dead = tick.dead /\ TickGoes
    BY DEF TickOK, OpOK, TickGoes
  <1>5. runs' \in [RunIds -> Attempt] /\ ClosesRun(t)
    BY ClosedFits
  <1> HIDE DEF IInv
  <1> QED BY <1>1, <1>2, <1>3, <1>4, <1>5, Freeing

LEMMA CompleteKeeps ==
  ASSUME IInv, NEW t \in Tasks, NEW noted, Complete(t, noted), UNCHANGED <<tick, op>>
  PROVE  IInv'
  <1> USE DEF IInv, Inv, TypeOK
  <1> DEFINE s == Set(t, "done")
  <1>1. book' \in [Tasks -> Entry]
    <2>1. StreakAfter(t, noted) \in Nat /\ book[t].resume \in Lanes /\ 0 \in Nat
      BY StreakIs DEF BookOK
    <2>2. Booked(t, 0, StreakAfter(t, noted), book[t].resume) \in [Tasks -> Entry]
      BY <2>1, BookedIs
    <2> QED BY <2>2 DEF Complete, Entry
  <1>2. /\ s \in [Tasks -> Statuses] /\ s[t] = "done" /\ \A u \in Tasks \ {t} : s[u] = status[u]
    <2>1. "done" \in Statuses
      BY DEF Statuses
    <2> QED BY <2>1, SetIs
  <1>3. status' = Recomputed(s, book', DefaultLimit)
    BY DEF Complete
  <1> HIDE DEF s
  <1>4. /\ status' \in [Tasks -> Statuses]
        /\ \A u \in Tasks : status'[u] = "running" <=> s[u] = "running"
    BY <1>1, <1>2, <1>3, RecomputedIs
  <1>5. OnlyStops(t)
    BY <1>2, <1>4 DEF OnlyStops
  <1>6. GateStep
    <2>1. \A u \in Tasks : status[u] \in Terminal => s[u] \in Terminal
      BY <1>2 DEF Terminal
    <2>2. \A u \in Tasks : s[u] \in Gated => status[u] \in Gated \/ Satisfied(u)
      BY <1>2 DEF Complete
    <2> QED BY <1>1, <1>2, <1>3, <2>1, <2>2, RecomputedGate
  <1>7. BookOK' /\ TickOK' /\ OpOK' /\ tick'.dead = tick.dead /\ TickGoes
    BY <1>1 DEF BookOK, Entry, TickOK, OpOK, TickGoes
  <1>8. PastOK' /\ \A u \in Tasks : past[u].crossed => past'[u].crossed
    BY DecidedIs DEF Complete
  <1>9. runs' \in [RunIds -> Attempt] /\ ClosesRun(t)
    BY ClosedFits DEF Complete
  <1> HIDE DEF IInv
  <1> QED BY <1>4, <1>5, <1>6, <1>7, <1>8, <1>9, Freeing DEF Complete

LEMMA BlockKeeps ==
  ASSUME IInv, NEW t \in Tasks, NEW kind \in Kinds, NEW noted, Block(t, kind, noted), UNCHANGED <<tick, op>>
  PROVE  IInv'
  <1> USE DEF IInv, Inv, TypeOK
  <1> DEFINE source == IF status[t] = "running" THEN Retry(t) ELSE "ready"
             to == IF kind = "dependency" THEN "todo"
                   ELSE IF kind = book[t].cause THEN "triage" ELSE "blocked"
  <1>1. source \in Lanes
    BY RetryIs DEF Lanes
  <1>2. to \in {"todo", "triage", "blocked"}
    OBVIOUS
  <1>3. BookOK'
    <2>1. StreakAfter(t, noted) \in Nat /\ book[t].failures \in Nat
      BY StreakIs DEF BookOK
    <2>2. PICK b : b = Booked(t, book[t].failures, StreakAfter(t, noted), source)
      OBVIOUS
    <2>3. b \in [Tasks -> Entry]
      BY <1>1, <2>1, <2>2, BookedIs
    <2>4. PICK cause, sticky : /\ cause = (IF kind = "dependency" THEN "none" ELSE kind)
                               /\ sticky = (b[t].sticky \/ to = "blocked")
                               /\ book' = [b EXCEPT ![t].cause = cause, ![t].sticky = sticky]
      BY <2>2, <2>3 DEF Block
    <2>5. cause \in {"none"} \cup Kinds
      BY <2>4
    <2>6. sticky \in BOOLEAN
      BY <2>3, <2>4 DEF Entry
    <2>7. book' \in [Tasks -> Entry]
      <3>1. PICK c : c = [b EXCEPT ![t].cause = cause] /\ book' = [c EXCEPT ![t].sticky = sticky]
        BY <2>4
      <3>2. c \in [Tasks -> Entry]
        BY <2>3, <2>5, <3>1 DEF Entry
      <3> HIDE DEF to
      <3> QED BY <2>6, <3>1, <3>2 DEF Entry
    <2> QED BY <2>7 DEF BookOK, Entry
  <1>4. PastOK' /\ \A u \in Tasks : past[u].crossed => past'[u].crossed
    <2>1. past' = past \/ past' = [past EXCEPT ![t].held = "asked"]
      BY DEF Block
    <2> QED BY <2>1 DEF PastOK
  <1>5. status' = Set(t, to) /\ claim' = Freed(t) /\ runs' = Closed(t, "astray")
    BY DEF Block
  <1>6. status[t] \notin Terminal
    BY DEF Block, Active, Terminal
  <1> HIDE DEF to, IInv
  <1>7. to \in Statuses \ {"running"} /\ to \notin Gated
    BY <1>2 DEF Statuses, Gated
  <1> QED BY <1>3, <1>4, <1>5, <1>6, <1>7, SendKeeps

LEMMA RequestReviewKeeps ==
  ASSUME IInv, NEW t \in Tasks, NEW noted, RequestReview(t, noted), UNCHANGED <<tick, op>>
  PROVE  IInv'
  <1>1. BookOK'
    <2>1. StreakAfter(t, noted) \in Nat
      BY StreakIs DEF IInv, Inv, TypeOK
    <2> QED BY <2>1 DEF IInv, Inv, TypeOK, RequestReview, BookOK
  <1>2. PastOK' /\ \A u \in Tasks : past[u].crossed => past'[u].crossed
    BY DecidedIs DEF RequestReview, IInv, Inv, TypeOK
  <1>3. "review" \in Statuses \ {"running"} /\ status[t] \notin Terminal
    BY DEF Statuses, Lanes, RequestReview, Active, Terminal
  <1> QED BY <1>1, <1>2, <1>3, SendKeeps DEF RequestReview

\* Sent back to work: to its lane, or to wait for its parents.
LEMMA BackToWorkKeeps ==
  ASSUME IInv, NEW t \in Tasks, RequestChanges(t) \/ ReopenReview(t), UNCHANGED <<tick, op>>
  PROVE  IInv'
  <1>1. StreakAfter(t, FALSE) \in Nat
    BY StreakIs DEF IInv, Inv, TypeOK
  <1>2. BookOK'
    <2>1. book[t].failures \in Nat /\ "ready" \in Lanes /\ 0 \in Nat
      BY DEF IInv, Inv, TypeOK, BookOK, Lanes
    <2>2. CASE RequestChanges(t)
      BY <2>1, <2>2, BookedIs DEF RequestChanges, IInv, Inv, TypeOK, BookOK, Entry
    <2>3. CASE ReopenReview(t)
      BY <1>1, <2>1, <2>3, BookedIs DEF ReopenReview, IInv, Inv, TypeOK, BookOK, Entry
    <2> QED BY <2>2, <2>3
  <1>3. PastOK' /\ \A u \in Tasks : past[u].crossed => past'[u].crossed
    <2>1. past' = Decided(t, "work")
      BY DEF RequestChanges, ReopenReview
    <2> QED BY <2>1, DecidedIs DEF IInv, Inv, TypeOK
  <1>4. Landing(t) \in Statuses \ {"running"} /\ Landing(t) \notin Gated
    BY DEF Landing, Statuses, Lanes, Gated
  <1>5. status[t] \notin Terminal
    BY DEF RequestChanges, ReopenReview, Terminal
  <1>6. status' = Set(t, Landing(t)) /\ claim' = Freed(t) /\ runs' = Closed(t, "astray")
    BY DEF RequestChanges, ReopenReview
  <1> QED BY <1>2, <1>3, <1>4, <1>5, <1>6, SendKeeps

LEMMA ScheduleKeeps ==
  ASSUME IInv, NEW t \in Tasks, Schedule(t)
  PROVE  IInv'
  <1>1. BookOK'
    <2>1. PICK noted \in Notes(t) : book' = [book EXCEPT ![t].streak = StreakAfter(t, noted)]
      BY DEF Schedule
    <2>2. StreakAfter(t, noted) \in Nat
      BY StreakIs DEF IInv, Inv, TypeOK
    <2> QED BY <2>1, <2>2 DEF IInv, Inv, TypeOK, BookOK
  <1>2. PastOK' /\ \A u \in Tasks : past[u].crossed => past'[u].crossed
    BY DecidedIs DEF Schedule, IInv, Inv, TypeOK
  <1>3. "scheduled" \in Statuses \ {"running"} /\ "scheduled" \notin Gated /\ status[t] \notin Terminal
    BY DEF Statuses, Gated, Schedule, Terminal
  <1> QED BY <1>1, <1>2, <1>3, SendKeeps DEF Schedule, Aside

LEMMA UnblockKeeps ==
  ASSUME IInv, NEW t \in Tasks, Unblock(t), UNCHANGED <<tick, op>>
  PROVE  IInv'
  <1> USE DEF IInv, Inv, TypeOK
  <1> DEFINE resume == IF status[t] = "blocked" THEN book[t].resume ELSE "ready"
             to == IF Landing(t) = "ready" THEN resume ELSE "todo"
  <1>1. resume \in Lanes
    BY DEF BookOK, Lanes
  <1>2. to \in Lanes \cup {"todo"} /\ (to \in Gated => Satisfied(t))
    BY <1>1 DEF Landing, Gated, Lanes
  <1>3. /\ status' \in [Tasks -> Statuses] /\ status'[t] = to
        /\ \A u \in Tasks \ {t} : status'[u] = status[u]
    <2>1. status' = Set(t, to) /\ to \in Statuses
      BY <1>2 DEF Unblock, Statuses
    <2> HIDE DEF to
    <2> QED BY <2>1, SetIs
  <1>4. /\ claim' \in [Tasks -> Holding] /\ claim'[t].run = NoRun /\ claim'[t].lock = claim[t].lock
        /\ \A u \in Tasks \ {t} : claim'[u] = claim[u]
    BY DEF Unblock, ClaimOK, Holding
  <1>5. runs' \in [RunIds -> Attempt] /\ ClosesRun(t)
    BY ClosedFits DEF Unblock
  <1>6. BookOK'
    <2>1. StreakAfter(t, FALSE) \in Nat /\ 0 \in Nat
      BY StreakIs
    <2>2. PICK b : /\ b = Booked(t, 0, StreakAfter(t, FALSE), resume)
                   /\ book' = [b EXCEPT ![t].sticky = FALSE]
      BY DEF Unblock
    <2>3. b \in [Tasks -> Entry]
      BY <1>1, <2>1, <2>2, BookedIs
    <2>4. book' \in [Tasks -> Entry]
      <3>1. book' = [b EXCEPT ![t].sticky = FALSE]
        BY <2>2
      <3> HIDE DEF resume, to
      <3> QED BY <2>3, <3>1 DEF Entry
    <2> QED BY <2>4 DEF BookOK, Entry
  <1>7. PastOK' /\ \A u \in Tasks : past[u].crossed => past'[u].crossed
    BY DEF Unblock, PastOK
  <1>8. TickOK' /\ OpOK' /\ tick'.dead = tick.dead /\ TickGoes
    BY DEF TickOK, OpOK, TickGoes
  <1>9. status[t] \in {"blocked", "scheduled"}
    BY DEF Unblock
  <1> HIDE DEF to, resume
  <1>10. TypeOK'
    BY <1>3, <1>4, <1>5, <1>6, <1>7, <1>8 DEF StatusOK, ClaimOK, RunsOK, Holding, Attempt
  <1>11. Releases /\ Tracks
    <2>1. OnlyStops(t)
      BY <1>2, <1>3 DEF OnlyStops, Lanes
    <2> QED BY <1>4, <1>5, <1>7, <1>8, <1>9, <2>1, Releasing
  <1>12. GateStep
    BY <1>2, <1>3, <1>9 DEF GateStep, Terminal
  <1> QED BY <1>10, <1>11, <1>12, Kept

LEMMA PromoteWriteKeeps ==
  ASSUME IInv, PromoteWrite
  PROVE  IInv'
  <1> USE DEF IInv, Inv, TypeOK
  <1> DEFINE t == op.task
  <1>1. t \in Tasks /\ OpOK' /\ TickOK' /\ tick'.dead = tick.dead /\ TickGoes
    BY DEF PromoteWrite, OpOK, NoCall, TickOK, TickGoes
  <1>2. CASE /\ status[t] \in {"todo", "blocked"} /\ status' = Set(t, "ready") /\ past' = Decided(t, "work")
    <2>1. /\ status' \in [Tasks -> Statuses] /\ status'[t] = "ready"
          /\ \A u \in Tasks \ {t} : status'[u] = status[u]
      <3>1. "ready" \in Statuses
        BY DEF Statuses, Lanes
      <3> QED BY <1>1, <1>2, <3>1, SetIs
    <2>2. PastOK' /\ \A u \in Tasks : past'[u].crossed = past[u].crossed
      BY <1>1, <1>2, DecidedIs
    <2>3. TypeOK'
      BY <1>1, <2>1, <2>2 DEF PromoteWrite, StatusOK, ClaimOK, BookOK, RunsOK
    <2>4. Releases /\ Tracks
      BY <1>1, <1>2, <2>1, <2>2 DEF Releases, Tracks, PromoteWrite, ClaimOK
    <2>5. GateStep
      BY <1>2, <2>1 DEF GateStep, Gated, Terminal
    <2> QED BY <2>3, <2>4, <2>5, Kept
  <1>3. CASE UNCHANGED <<status, past>>
    <2>1. runs' \in [RunIds -> Attempt]
      BY DEF PromoteWrite, RunsOK, Attempt
    <2> QED BY <1>1, <1>3, <2>1, ProcessKeeps DEF PromoteWrite
  <1> QED BY <1>2, <1>3 DEF PromoteWrite

LEMMA ReclaimWriteKeeps ==
  ASSUME IInv, ReclaimWrite
  PROVE  IInv'
  <1> USE DEF IInv, Inv, TypeOK
  <1> DEFINE t == op.task
  <1>1. t \in Tasks /\ OpOK' /\ TickOK' /\ tick'.dead = tick.dead /\ TickGoes
    BY DEF ReclaimWrite, OpOK, NoCall, TickOK, TickGoes
  <1>2. CASE /\ status[t] \in {"running", "ready", "blocked"}
             /\ status' = Set(t, Retry(t)) /\ claim' = Freed(t) /\ runs' = Closed(t, "astray")
             /\ book' = Booked(t, 0, StreakAfter(t, FALSE), Retry(t))
             /\ past' = [past EXCEPT ![t].held = "no"]
    <2>1. StreakAfter(t, FALSE) \in Nat /\ 0 \in Nat
      BY <1>1, StreakIs
    <2>2. PastOK' /\ \A u \in Tasks : past[u].crossed => past'[u].crossed
      BY <1>1, <1>2 DEF PastOK
    <2>3. status[t] \notin Terminal
      BY <1>2 DEF Terminal
    <2> HIDE DEF t, IInv
    <2> QED BY <1>1, <1>2, <2>1, <2>2, <2>3, RequeueKeeps
  <1>3. CASE UNCHANGED <<status, claim, book, runs, past>>
    <2>1. runs' \in [RunIds -> Attempt]
      BY <1>3 DEF RunsOK, Attempt
    <2> QED BY <1>1, <1>3, <2>1, ProcessKeeps
  <1> QED BY <1>2, <1>3 DEF ReclaimWrite

LEMMA ArchiveKeeps ==
  ASSUME IInv, NEW t \in Tasks, Archive(t)
  PROVE  IInv'
  <1> USE DEF IInv, Inv, TypeOK
  <1> DEFINE s == Set(t, "archived")
  <1>1. book \in [Tasks -> Entry] /\ BookOK'
    <2>1. StreakAfter(t, FALSE) \in Nat
      BY StreakIs
    <2> QED BY <2>1 DEF Archive, BookOK, Entry
  <1>2. /\ s \in [Tasks -> Statuses] /\ s[t] = "archived" /\ \A u \in Tasks \ {t} : s[u] = status[u]
    <2>1. "archived" \in Statuses
      BY DEF Statuses
    <2> QED BY <2>1, SetIs
  <1>3. status' = Recomputed(s, book, DefaultLimit)
    BY DEF Archive
  <1> HIDE DEF s
  <1>4. /\ status' \in [Tasks -> Statuses]
        /\ \A u \in Tasks : status'[u] = "running" <=> s[u] = "running"
    BY <1>1, <1>2, <1>3, RecomputedIs
  <1>5. OnlyStops(t)
    BY <1>2, <1>4 DEF OnlyStops
  <1>6. GateStep
    <2>1. \A u \in Tasks : status[u] \in Terminal => s[u] \in Terminal
      BY <1>2 DEF Terminal
    <2>2. \A u \in Tasks : s[u] \in Gated => status[u] \in Gated
      BY <1>2 DEF Gated
    <2> QED BY <1>1, <1>2, <1>3, <2>1, <2>2, RecomputedGate
  <1>7. TickOK' /\ OpOK' /\ tick'.dead = tick.dead /\ TickGoes
    BY DEF Archive, Aside, TickOK, OpOK, TickGoes
  <1>8. PastOK' /\ \A u \in Tasks : past[u].crossed => past'[u].crossed
    BY DecidedIs DEF Archive
  <1>9. runs' \in [RunIds -> Attempt] /\ ClosesRun(t)
    <2>1. PICK pid, survived : runs' = Killed(Closed(t, "astray"), pid, survived)
      BY DEF Archive
    <2> QED BY <2>1, ClosedIs, KilledIs DEF ClosesRun
  <1> HIDE DEF IInv
  <1> QED BY <1>1, <1>4, <1>5, <1>6, <1>7, <1>8, <1>9, Freeing DEF Archive

LEMMA SpecifyKeeps ==
  ASSUME IInv, NEW t \in Tasks, Specify(t)
  PROVE  IInv'
  <1> USE DEF IInv, Inv, TypeOK
  <1> DEFINE s == Set(t, "todo")
  <1>1. book \in [Tasks -> Entry] /\ BookOK'
    BY DEF Specify, BookOK, Entry
  <1>2. /\ s \in [Tasks -> Statuses] /\ s[t] = "todo" /\ \A u \in Tasks \ {t} : s[u] = status[u]
    <2>1. "todo" \in Statuses
      BY DEF Statuses
    <2> QED BY <2>1, SetIs
  <1>3. status' = Recomputed(s, book, DefaultLimit) /\ status[t] = "triage"
    BY DEF Specify
  <1> HIDE DEF s
  <1>4. /\ status' \in [Tasks -> Statuses]
        /\ \A u \in Tasks : status'[u] = "running" <=> status[u] = "running"
    BY <1>1, <1>2, <1>3, RecomputedIs
  <1>5. GateStep
    <2>1. \A u \in Tasks : status[u] \in Terminal => s[u] \in Terminal
      BY <1>2, <1>3 DEF Terminal
    <2>2. \A u \in Tasks : s[u] \in Gated => status[u] \in Gated
      BY <1>2 DEF Gated
    <2> QED BY <1>1, <1>2, <1>3, <2>1, <2>2, RecomputedGate
  <1>6. TypeOK'
    <2>1. PastOK'
      BY DEF Specify, PastOK
    <2> QED BY <1>1, <1>4, <2>1 DEF Specify, Aside, StatusOK, ClaimOK, RunsOK, TickOK, OpOK
  <1>7. Releases /\ Tracks
    BY <1>4 DEF Releases, Tracks, TickGoes, Specify, Aside, ClaimOK, PastOK
  <1> QED BY <1>5, <1>6, <1>7, Kept

-----------------------------------------------------------------------------
(* _set_status_direct: the step that takes finished work back *)

LEMMA DescendantsIs ==
  ASSUME NEW t \in Tasks
  PROVE  /\ Descendants[t] \subseteq Tasks /\ Children(t) \subseteq Descendants[t]
         /\ \A x \in Descendants[t] : Children(x) \subseteq Descendants[t]
  BY DEF Descendants, Children

\* Where a card is moved to; a running review goes back to review, past the gate it passed.
LEMMA EffectiveIs ==
  ASSUME NEW t \in Tasks, NEW to \in {"ready", "todo", "triage"}
  PROVE  /\ Effective(t, to) \in {"ready", "todo", "triage", "review"}
         /\ Effective(t, to) = "review" => status[t] = "running" /\ Satisfied(t)
  BY DEF Effective

LEMMA SetStatusDirectKeeps ==
  ASSUME IInv, NEW t \in Tasks, NEW to \in {"ready", "todo", "triage"}, SetStatusDirect(t, to),
         UNCHANGED <<tick, op>>
  PROVE  IInv'
  <1> USE DEF IInv, Inv, TypeOK
  <1> DEFINE s == Effective(t, to)
             D == Invalidated(t)
             Ended == {u \in D \cup {t} : status[u] = "running"}
             moved == [u \in Tasks |-> IF u \in D THEN "todo" ELSE IF u = t THEN s ELSE status[u]]
  <1>1. /\ s \in {"ready", "todo", "triage", "review"}
        /\ s = "review" => status[t] = "running" /\ Satisfied(t)
    BY EffectiveIs
  <1>2. /\ D \subseteq Tasks
        /\ status[t] \notin Terminal => D = {}
        /\ \A u \in Tasks : status[t] \in Terminal /\ status[u] \in Gated
             /\ (t \in Parents[u] \/ \E p \in D : p \in Parents[u]) => u \in D
    <2>1. D \subseteq Tasks
      BY DescendantsIs DEF Invalidated
    <2>2. status[t] \notin Terminal => D = {}
      BY DEF Invalidated
    <2>3. ASSUME NEW u \in Tasks, status[t] \in Terminal, status[u] \in Gated,
                 t \in Parents[u] \/ \E p \in D : p \in Parents[u]
          PROVE  u \in D
      <3>1. u \in Children(t) \/ \E p \in Descendants[t] : u \in Children(p)
        BY <2>3 DEF Children, Invalidated
      <3>2. u \in Descendants[t]
        BY <3>1, DescendantsIs
      <3> QED BY <2>3, <3>2 DEF Invalidated, Gated
    <2> QED BY <2>1, <2>2, <2>3
  <1>3. moved \in [Tasks -> Statuses] /\ \A u \in Tasks :
          moved[u] = IF u \in D THEN "todo" ELSE IF u = t THEN s ELSE status[u]
    BY <1>1 DEF StatusOK, Statuses, Lanes
  <1>4. /\ status' = moved \/ status' = Recomputed(moved, book', DefaultLimit)
        /\ book' = [u \in Tasks |->
             IF u \in D
               THEN [book[u] EXCEPT !.failures = 0, !.resume = Resumes(u),
                                    !.streak = IF u \in Ended THEN 0 ELSE @]
             ELSE IF u = t THEN [book[u] EXCEPT !.resume = "ready", !.streak = IF u \in Ended THEN 0 ELSE @]
             ELSE book[u]]
        /\ claim' = [u \in Tasks |->
             IF u \in D \cup Ended THEN Unclaimed
             ELSE IF u = t THEN [Unclaimed EXCEPT !.run = claim[u].run] ELSE claim[u]]
    BY DEF SetStatusDirect
  <1>5. PICK survivors \in SUBSET {u \in Ended : TRUE \in Outcomes(u)} :
          runs' = [r \in RunIds |->
            LET hit == \E u \in Ended \ survivors : claim[u].pid = r
                now == IF \E u \in Ended : claim[u].run = r THEN Shut(r, "astray") ELSE runs[r] IN
            IF hit /\ Alive(r) THEN [now EXCEPT !.proc = "crashed"] ELSE now]
    BY DEF SetStatusDirect
  <1>6. past' = [u \in Tasks |->
          IF u \in D THEN [past[u] EXCEPT !.held = "no"]
          ELSE IF u = t THEN [past[u] EXCEPT !.held = "no", !.phase = IF s = "review" THEN @ ELSE "work"]
          ELSE past[u]]
    BY DEF SetStatusDirect
  <1>7. Ended \subseteq Tasks /\ \A u \in Tasks : u \in Ended <=> u \in D \cup {t} /\ status[u] = "running"
    BY <1>2
  <1> HIDE DEF s, D, Ended, moved
  <1>8. book' \in [Tasks -> Entry]
    <2>1. \A u \in Tasks : book[u] \in Entry
      BY DEF BookOK, Entry
    <2>2. \A u \in Tasks : Resumes(u) \in Lanes
      BY RetryIs DEF Resumes, Lanes
    <2>3. ASSUME NEW e \in Entry, NEW lane \in Lanes, NEW cut \in BOOLEAN
          PROVE  /\ [e EXCEPT !.failures = 0, !.resume = lane, !.streak = IF cut THEN 0 ELSE @] \in Entry
                 /\ [e EXCEPT !.resume = lane, !.streak = IF cut THEN 0 ELSE @] \in Entry
      <3>1. (IF cut THEN 0 ELSE e.streak) \in Nat
        BY DEF Entry
      <3>2. \A k \in Nat : /\ [e EXCEPT !.failures = 0, !.resume = lane, !.streak = k] \in Entry
                           /\ [e EXCEPT !.resume = lane, !.streak = k] \in Entry
        BY DEF Entry
      <3> QED BY <3>1, <3>2
    <2>4. "ready" \in Lanes /\ \A u \in Tasks : (u \in Ended) \in BOOLEAN
      BY DEF Lanes
    <2>5. ASSUME NEW u \in Tasks
          PROVE  book'[u] \in Entry
      <3>1. CASE u \in D
        BY <1>4, <2>1, <2>2, <2>3, <2>4, <3>1
      <3>2. CASE u \notin D /\ u = t
        BY <1>4, <2>1, <2>3, <2>4, <3>2
      <3>3. CASE u \notin D /\ u # t
        BY <1>4, <2>1, <3>3
      <3> QED BY <3>1, <3>2, <3>3
    <2> QED BY <1>4, <2>5
  <1>9. /\ status' \in [Tasks -> Statuses]
        /\ \A u \in Tasks : moved[u] \in Terminal => status'[u] = moved[u]
        /\ \A u \in Tasks : status'[u] = moved[u] \/ \A p \in Parents[u] : moved[p] \in Terminal
        /\ \A u \in Tasks : status'[u] = "running" <=> moved[u] = "running"
    <2>1. CASE status' = moved
      BY <1>3, <2>1
    <2>2. CASE status' = Recomputed(moved, book', DefaultLimit)
      <3>1. moved \in [Tasks -> Statuses]
        BY <1>3
      <3> QED BY <1>8, <2>2, <3>1, RecomputedIs
    <2> QED BY <1>4, <2>1, <2>2
  <1>10. /\ claim' \in [Tasks -> Holding]
         /\ \A u \in D \cup Ended : claim'[u].run = NoRun /\ claim'[u].lock = Nobody
         /\ t \notin D \cup Ended => claim'[t].run = claim[t].run /\ claim'[t].lock = Nobody
         /\ \A u \in Tasks \ (D \cup Ended \cup {t}) : claim'[u] = claim[u]
    <2>1. Unclaimed \in Holding /\ Unclaimed.run = NoRun /\ Unclaimed.lock = Nobody
      BY DEF Unclaimed, Holding
    <2>2. [Unclaimed EXCEPT !.run = claim[t].run] \in Holding
          /\ [Unclaimed EXCEPT !.run = claim[t].run].run = claim[t].run
          /\ [Unclaimed EXCEPT !.run = claim[t].run].lock = Nobody
      BY DEF Unclaimed, Holding, ClaimOK
    <2>3. \A u \in Tasks : claim[u] \in Holding
      BY DEF ClaimOK, Holding
    <2> QED BY <1>2, <1>4, <1>7, <2>1, <2>2, <2>3
  <1>11. /\ runs' \in [RunIds -> Attempt]
         /\ \A r \in RunIds : /\ runs'[r].task = runs[r].task /\ (runs'[r].open => runs[r].open)
                              /\ runs'[r].proc # "none" => runs[r].proc # "none"
                              /\ runs'[r].proc = "live" => runs[r].proc = "live"
                              /\ IF \E u \in Ended : claim[u].run = r THEN ~runs'[r].open /\ runs'[r].proc # "live"
                                 ELSE runs'[r].src = runs[r].src
    <2>1. \A r \in RunIds : runs[r] \in Attempt
      BY DEF RunsOK, Attempt
    <2>2. \A r \in RunIds : /\ Shut(r, "astray") \in Attempt /\ Shut(r, "astray").task = runs[r].task
                            /\ ~Shut(r, "astray").open /\ Shut(r, "astray").proc # "live"
                            /\ Shut(r, "astray").proc # "none" => runs[r].proc # "none"
      BY ShutIs
    <2>3. \A a \in Attempt : LET b == [a EXCEPT !.proc = "crashed"] IN
            b \in Attempt /\ b.task = a.task /\ b.open = a.open /\ b.src = a.src /\ b.proc = "crashed"
      BY DEF Attempt, Exits
    <2>4. ASSUME NEW r \in RunIds
          PROVE  \E now \in Attempt :
                   /\ now = (IF \E u \in Ended : claim[u].run = r THEN Shut(r, "astray") ELSE runs[r])
                   /\ runs'[r] = now \/ (Alive(r) /\ runs'[r] = [now EXCEPT !.proc = "crashed"])
      BY <1>5, <2>1, <2>2
    <2>5. ASSUME NEW r \in RunIds
          PROVE  /\ runs'[r] \in Attempt /\ runs'[r].task = runs[r].task
                 /\ runs'[r].open => runs[r].open
                 /\ runs'[r].proc # "none" => runs[r].proc # "none"
                 /\ runs'[r].proc = "live" => runs[r].proc = "live"
                 /\ IF \E u \in Ended : claim[u].run = r THEN ~runs'[r].open /\ runs'[r].proc # "live"
                    ELSE runs'[r].src = runs[r].src
      <3>1. PICK now \in Attempt :
              /\ now = (IF \E u \in Ended : claim[u].run = r THEN Shut(r, "astray") ELSE runs[r])
              /\ runs'[r] = now \/ (Alive(r) /\ runs'[r] = [now EXCEPT !.proc = "crashed"])
        BY <2>4
      <3>2. runs'[r] \in Attempt /\ runs'[r].task = now.task /\ runs'[r].open = now.open /\ runs'[r].src = now.src
        BY <2>3, <3>1
      <3>3. now.task = runs[r].task /\ (now.open => runs[r].open)
            /\ IF \E u \in Ended : claim[u].run = r THEN ~now.open ELSE now.src = runs[r].src
        BY <2>2, <3>1
      <3>4. runs'[r].proc = now.proc \/ (runs[r].proc # "none" /\ runs'[r].proc = "crashed")
        BY <2>3, <3>1 DEF Alive
      <3>5. /\ now.proc # "none" => runs[r].proc # "none"
            /\ now.proc = "live" => runs[r].proc = "live" /\ ~\E u \in Ended : claim[u].run = r
        BY <2>2, <3>1
      <3> QED BY <3>2, <3>3, <3>4, <3>5
    <2>6. runs' = [r \in RunIds |-> runs'[r]]
      BY <1>5
    <2> QED BY <2>5, <2>6
  <1>12. PastOK' /\ \A u \in Tasks : past'[u].crossed = past[u].crossed
    BY <1>6 DEF PastOK
  <1>13. TickOK' /\ OpOK' /\ tick'.dead = tick.dead /\ TickGoes
    BY DEF TickOK, OpOK, TickGoes
  <1>14. TypeOK'
    BY <1>8, <1>9, <1>10, <1>11, <1>12, <1>13 DEF StatusOK, ClaimOK, BookOK, RunsOK, Entry, Holding, Attempt
  <1>15. Releases
    <2>1. ASSUME NEW u \in Tasks, claim[u].run # NoRun
          PROVE  IF claim'[u].run = NoRun THEN ~runs'[claim[u].run].open \/ past'[u].crossed
                 ELSE runs'[claim[u].run].src = runs[claim[u].run].src
      <3>1. claim[u].run \in RunIds
        BY <2>1 DEF ClaimOK
      <3>2. CASE u \in Ended
        BY <1>10, <1>11, <3>1, <3>2
      <3>3. CASE u \notin Ended /\ u \in D
        BY <1>7, <1>10, <1>12, <2>1, <3>3 DEF Bookkeeping
      <3>4. CASE u \notin Ended /\ u \notin D
        <4>1. \A v \in Ended : claim[v].run # claim[u].run
          BY <1>7, <2>1, <3>4, RunsApart
        <4>2. claim'[u].run = claim[u].run
          BY <1>10, <3>4
        <4> QED BY <1>11, <2>1, <3>1, <4>1, <4>2
      <3> QED BY <3>2, <3>3, <3>4
    <2>2. ASSUME NEW u \in Tasks, status'[u] = "running"
          PROVE  status[u] = "running" /\ claim'[u].run = claim[u].run /\ claim'[u].lock = claim[u].lock
      <3>1. u \notin D /\ u # t /\ status[u] = "running"
        BY <1>1, <1>3, <1>9, <2>2
      <3> QED BY <1>7, <1>10, <3>1
    <2>3. ASSUME NEW u \in Tasks, status[u] = "running", status'[u] # "running"
          PROVE  claim'[u].run = NoRun /\ claim'[u].lock = Nobody
      BY <1>3, <1>7, <1>9, <1>10, <2>3
    <2>4. \A u \in Tasks : claim'[u].run \in {NoRun, claim[u].run} /\ claim'[u].lock \in {Nobody, claim[u].lock}
      BY <1>7, <1>10
    <2> QED BY <1>11, <1>12, <1>13, <2>1, <2>2, <2>3, <2>4 DEF Releases
  <1>16. ParentsGate'
    <2> SUFFICES ASSUME NEW u \in Tasks, status'[u] \in Gated, NEW p \in Parents[u]
                 PROVE  status'[p] \in Terminal
      BY DEF ParentsGate, Satisfied, Terminal, Gated
    <2>1. p \in Tasks
      BY Setting
    <2>2. moved[p] \in Terminal
      <3>1. CASE status'[u] # moved[u]
        BY <1>9, <3>1
      <3>2. CASE status'[u] = moved[u] /\ u = t
        <4>1. s = "review" /\ u \notin D
          BY <1>1, <1>3, <3>2 DEF Gated
        <4>2. status[t] \notin Terminal /\ D = {} /\ status[p] \in Terminal
          BY <1>1, <1>2, <3>2, <4>1 DEF Terminal, Satisfied
        <4> QED BY <1>3, <2>1, <4>2
      <3>3. CASE status'[u] = moved[u] /\ u # t
        <4>1. u \notin D /\ status[u] \in Gated
          BY <1>3, <3>3 DEF Gated
        <4>2. status[p] \in Terminal
          BY <4>1 DEF ParentsGate, Satisfied, Gated
        <4>3. p # t
          BY <1>2, <4>1, <4>2
        <4>4. p \notin D
          BY <1>2, <4>1
        <4> QED BY <1>3, <2>1, <4>2, <4>3, <4>4
      <3> QED BY <3>1, <3>2, <3>3
    <2> QED BY <1>9, <2>1, <2>2
  <1>17. Bookkeeping' /\ HandClaims'
    BY <1>14, <1>15, ReleasesKeep
  <1>18. Tracks
    <2>1. ASSUME NEW u \in Tasks, status[u] = "running", status'[u] # "running"
          PROVE  u \in Ended /\ claim[u].run \in RunIds
      <3>1. u \in Ended
        BY <1>3, <1>7, <1>9, <2>1
      <3>2. claim[u].run \in RunIds
        BY <2>1 DEF Bookkeeping, ClaimOK
      <3> QED BY <3>1, <3>2
    <2> QED BY <1>11, <1>13, <2>1 DEF Tracks
  <1>19. Tracked'
    BY <1>14, <1>15, <1>18, TracksKeep
  <1> QED BY <1>14, <1>16, <1>17, <1>19

LEMMA DragKeeps ==
  ASSUME IInv, NEW t \in Tasks, Drag(t)
  PROVE  IInv'
  <1>1. PICK to \in {"ready", "todo", "triage"} :
          CASE to = "ready" /\ status[t] \in {"blocked", "scheduled"} -> Unblock(t)
            [] to # "triage" /\ status[t] = "review" -> ReopenReview(t)
            [] OTHER -> SetStatusDirect(t, to)
    BY DEF Drag, Targets
  <1>2. Unblock(t) \/ ReopenReview(t) \/ SetStatusDirect(t, to)
    BY <1>1
  <1>3. UNCHANGED <<tick, op>>
    BY DEF Drag, Aside
  <1> QED BY <1>2, <1>3, UnblockKeeps, BackToWorkKeeps, SetStatusDirectKeeps

-----------------------------------------------------------------------------
(* The theorems about the rows *)

LEMMA TickStepKeeps ==
  ASSUME IInv, TickStep
  PROVE  IInv'
  <1>1. ASSUME NEW t \in Tasks, ExtendClaim(t)
        PROVE  IInv'
    BY <1>1, LapseKeeps DEF ExtendClaim, IInv, Inv, TypeOK, TickOK, TickGoes
  <1>2. ASSUME EndTick \/ TickDies
        PROVE  IInv'
    BY <1>2, TickEndsKeeps DEF EndTick, TickDies
  <1> QED BY <1>1, <1>2, ClaimKeeps, KillKeeps, AccountKeeps, ReleaseKeeps, CrashSweepKeeps, PromoteKeeps,
             SpawnKeeps, RecordPidKeeps, SpawnFailedKeeps DEF TickStep

LEMMA WorkerStepKeeps ==
  ASSUME IInv, WorkerStep
  PROVE  IInv'
  <1>1. PICK r \in RunIds : \/ WorkerCompletes(r) \/ WorkerBlocks(r) \/ WorkerAsksReview(r)
                            \/ WorkerAsksChanges(r) \/ Heartbeat(r) \/ WorkerExits(r)
    BY DEF WorkerStep
  <1> DEFINE t == runs[r].task
  <1>2. runs[r].proc # "none" => t \in Tasks
    BY DEF IInv, Inv, Tracked
  <1>3. CASE WorkerCompletes(r)
    BY <1>2, <1>3, CompleteKeeps DEF WorkerCompletes, Works
  <1>4. CASE WorkerBlocks(r)
    BY <1>2, <1>4, BlockKeeps DEF WorkerBlocks, Works
  <1>5. CASE WorkerAsksReview(r)
    BY <1>2, <1>5, RequestReviewKeeps DEF WorkerAsksReview, Works
  <1>6. CASE WorkerAsksChanges(r)
    BY <1>2, <1>6, BackToWorkKeeps DEF WorkerAsksChanges, Works
  <1>7. CASE Heartbeat(r)
    <2>1. t \in Tasks
      BY <1>2, <1>7 DEF Heartbeat, Alive
    <2>2. TickOK' /\ tick'.dead \subseteq tick.dead /\ TickGoes
      BY <1>7 DEF Heartbeat, IInv, Inv, TypeOK, TickOK, TickGoes
    <2> QED BY <1>7, <2>1, <2>2, LapseKeeps DEF Heartbeat
  <1> QED BY <1>1, <1>3, <1>4, <1>5, <1>6, <1>7, WorkerExitsKeeps

LEMMA OperatorStepKeeps ==
  ASSUME IInv, OperatorStep
  PROVE  IInv'
  <1>1. ASSUME NEW t \in Tasks, Completed(t)
        PROVE  IInv'
    BY <1>1, CompleteKeeps DEF Completed, Aside
  <1>2. ASSUME NEW t \in Tasks, Blocked(t)
        PROVE  IInv'
    BY <1>2, BlockKeeps DEF Blocked, Aside
  <1>3. ASSUME NEW t \in Tasks, ReviewForced(t)
        PROVE  IInv'
    BY <1>3, RequestReviewKeeps DEF ReviewForced, Aside
  <1>4. ASSUME NEW t \in Tasks, ChangesAsked(t)
        PROVE  IInv'
    BY <1>4, BackToWorkKeeps DEF ChangesAsked, Aside
  <1>5. ASSUME NEW t \in Tasks, Unblocked(t)
        PROVE  IInv'
    BY <1>5, UnblockKeeps DEF Unblocked, Aside
  <1> QED BY <1>1, <1>2, <1>3, <1>4, <1>5, ScheduleKeeps, CallReadsKeeps, ArchiveKeeps, SpecifyKeeps,
             DragKeeps, PullKeeps, PromoteWriteKeeps, ReclaimWriteKeeps DEF OperatorStep

LEMMA NextIInv ==
  ASSUME IInv, [Next]_vars
  PROVE  IInv'
  <1>1. CASE TickStep
    BY <1>1, TickStepKeeps
  <1>2. CASE WorkerStep
    BY <1>2, WorkerStepKeeps
  <1>3. CASE OperatorStep
    BY <1>3, OperatorStepKeeps
  <1>4. ASSUME NEW t \in Tasks, Lapse(t)
        PROVE  IInv'
    <2>1. TickOK' /\ tick'.dead \subseteq tick.dead /\ TickGoes
      BY <1>4 DEF Lapse, IInv, Inv, TypeOK, TickOK, TickGoes
    <2> QED BY <1>4, <2>1, LapseKeeps DEF Lapse
  <1>5. CASE UNCHANGED vars
    BY <1>5 DEF vars, IInv, Inv, TypeOK, StatusOK, ClaimOK, BookOK, RunsOK, TickOK, OpOK, PastOK,
                Bookkeeping, HandClaims, Tracked, ParentsGate, Satisfied, Retry
  <1> QED BY <1>1, <1>2, <1>3, <1>4, <1>5 DEF Next

\* In every state the rows of the board agree and no card is ahead of its parents, whatever
\* ticks, workers and operators do in whatever order, and wherever a dispatcher dies.
THEOREM Invariance == Spec => []IInv
  <1>1. Init => IInv
    BY InitIInv
  <1>2. IInv /\ [Next]_vars => IInv'
    BY NextIInv
  <1> QED BY <1>1, <1>2, PTL DEF Spec

\* Columns, claims, runs and processes always agree: every release of current_run_id ends the
\* run (_end_run), and a worker the board tracks is on the current run of a running card.
THEOREM RowsAgree == Spec => []Inv
  <1>1. IInv => Inv
    BY DEF IInv
  <1> QED BY <1>1, Invariance, PTL

\* No card is worked on, under review or finished while a parent is not, through every claim
\* and every reopening of a finished card with all that hangs below it.
THEOREM GateHolds == Spec => []ParentsGate
  <1>1. IInv => ParentsGate
    BY DEF IInv
  <1> QED BY <1>1, Invariance, PTL

\* The tracked worker of a card is on its current run, and there is one such run.
LEMMA TrackedOne ==
  ASSUME Inv
  PROVE  OneWorker
  <1> SUFFICES ASSUME NEW t \in Tasks
               PROVE  Cardinality({r \in RunIds : runs[r].task = t /\ runs[r].proc = "live"}) <= 1
    BY DEF OneWorker
  <1> DEFINE workers == {r \in RunIds : runs[r].task = t /\ runs[r].proc = "live"}
             current == claim[t].run
  <1>1. workers \subseteq {current}
    BY DEF Inv, Tracked
  <1> HIDE DEF workers, current
  <1>2. IsFiniteSet({current}) /\ Cardinality({current}) = 1
    BY FS_Singleton
  <1>3. IsFiniteSet(workers) /\ Cardinality(workers) <= Cardinality({current})
    BY <1>1, <1>2, FS_Subset
  <1>4. Cardinality(workers) \in Nat
    BY <1>3, FS_CardinalityType
  <1>5. Cardinality(workers) <= 1
    BY <1>2, <1>3, <1>4
  <1> QED BY <1>5 DEF workers

\* A card never has two tracked workers, whatever survives a kill and whoever claims next.
THEOREM OneWorkerHolds == Spec => []OneWorker
  <1>1. IInv => OneWorker
    BY TrackedOne DEF IInv
  <1> QED BY <1>1, Invariance, PTL

-----------------------------------------------------------------------------
(* Whom a card waits for, and the lane it comes back to *)

\* What keeps a held card where it is: recompute_ready skips both kinds.
HeldAt(u) ==
  /\ past[u].held = "asked" => status[u] = "triage" \/ (status[u] = "blocked" /\ book[u].sticky)
  /\ past[u].held = "budget" => status[u] = "blocked" /\ book[u].failures >= DefaultLimit
\* Where the review of a card is remembered: in its status, its run or its resume status.
ReviewAt(u) ==
  past[u].phase = "review" /\ ~past[u].crossed =>
    \/ status[u] = "review"
    \/ status[u] = "running" /\ Retry(u) = "review"
    \/ status[u] \in {"todo", "blocked", "triage"} /\ book[u].resume = "review"
\* reclaim_task has read a lock, so a card it finds with the same one was claimed.
CallOK == op.verb = "reclaim" => op.lock # Nobody
HInv == \A u \in Tasks : HeldAt(u)
PInv == CallOK /\ \A u \in Tasks : ReviewAt(u)

\* A step keeps both for a card.  The dispatcher gives recompute_ready and the spawn failures
\* the configured limit, every other caller the default one.
Settled(u) ==
  /\ ReviewAt(u) => ReviewAt(u)'
  /\ HeldAt(u) /\ FailureLimit = DefaultLimit => HeldAt(u)'

LEMMA StillSettled ==
  ASSUME IInv, NEW u \in Tasks, NEW limit \in Nat, FailureLimit = DefaultLimit => limit = DefaultLimit,
         past'[u] = past[u], book'[u].resume = book[u].resume, book'[u].sticky = book[u].sticky,
         book'[u].failures \in Nat, book'[u].failures >= book[u].failures,
         claim'[u].run = claim[u].run,
         claim[u].run # NoRun => runs'[claim[u].run].src = runs[claim[u].run].src,
         \/ status'[u] = status[u]
         \/ /\ status'[u] = book[u].resume
            /\ status[u] = "todo" \/ (status[u] = "blocked" /\ ~book[u].sticky /\ book[u].failures < limit)
  PROVE  Settled(u)
  <1>1. book[u].failures \in Nat /\ book[u].resume \in Lanes /\ DefaultLimit \in Nat
    BY BoardAssumption DEF IInv, Inv, TypeOK, BookOK
  <1>2. Retry(u)' = Retry(u)
    BY DEF Retry
  <1>3. ReviewAt(u) => ReviewAt(u)'
    BY <1>2 DEF ReviewAt
  <1>4. HeldAt(u) /\ FailureLimit = DefaultLimit => HeldAt(u)'
    BY <1>1 DEF HeldAt
  <1> QED BY <1>3, <1>4 DEF Settled

LEMMA MayReturn ==
  ASSUME NEW s \in [Tasks -> Statuses], NEW b \in [Tasks -> Entry], NEW limit, NEW u \in Tasks
  PROVE  \/ Recomputed(s, b, limit)[u] = s[u]
         \/ /\ Recomputed(s, b, limit)[u] = b[u].resume
            /\ s[u] = "todo" \/ (s[u] = "blocked" /\ ~b[u].sticky /\ b[u].failures < limit)
  BY DEF Recomputed

\* The cards a call on t does not name.
LEMMA OthersSettled ==
  ASSUME IInv, NEW t \in Tasks, NEW s \in [Tasks -> Statuses], NEW b \in [Tasks -> Entry],
         status' = s \/ status' = Recomputed(s, b, DefaultLimit),
         \A r \in RunIds : r # claim[t].run => runs'[r].src = runs[r].src,
         \A u \in Tasks \ {t} : /\ s[u] = status[u] /\ b[u] = book[u] /\ book'[u] = book[u]
                                /\ past'[u] = past[u] /\ claim'[u].run = claim[u].run
  PROVE  \A u \in Tasks \ {t} : Settled(u)
  <1> SUFFICES ASSUME NEW u \in Tasks \ {t}
               PROVE  Settled(u)
    OBVIOUS
  <1>1. book[u].failures \in Nat /\ DefaultLimit \in Nat
    BY BoardAssumption DEF IInv, Inv, TypeOK, BookOK
  <1>2. ASSUME claim[u].run # NoRun
        PROVE  runs'[claim[u].run].src = runs[claim[u].run].src
    <2>1. claim[u].run \in RunIds
      BY <1>2 DEF IInv, Inv, TypeOK, ClaimOK
    <2>2. claim[u].run # claim[t].run
      BY <1>2, RunsApart DEF IInv, Inv
    <2> QED BY <2>1, <2>2
  <1>3. \/ status'[u] = status[u]
        \/ /\ status'[u] = book[u].resume
           /\ status[u] = "todo" \/ (status[u] = "blocked" /\ ~book[u].sticky /\ book[u].failures < DefaultLimit)
    BY MayReturn
  <1> QED BY <1>1, <1>2, <1>3, StillSettled

\* Decided: nobody is waited for, and work starts over or the review is asked for.
LEMMA DecidedSettled ==
  ASSUME NEW t \in Tasks, past'[t].held \notin {"asked", "budget"},
         past'[t].phase = "work" \/ past'[t].crossed \/ status'[t] = "review"
  PROVE  Settled(t)
  BY DEF Settled, HeldAt, ReviewAt

\* Taken from its run: the lane of the run is the lane it comes back to.
LEMMA ReleasedSettled ==
  ASSUME NEW t \in Tasks, status[t] = "running", past'[t] = past[t],
         \/ status'[t] = Retry(t)
         \/ status'[t] \in {"todo", "blocked", "triage"} /\ book'[t].resume = Retry(t)
  PROVE  Settled(t)
  BY DEF Settled, HeldAt, ReviewAt

\* A card in the ready lane is not held and has no review to remember.
LEMMA ReadySettled ==
  ASSUME NEW t \in Tasks, status[t] = "ready", past'[t] = past[t]
  PROVE  Settled(t)
  BY DEF Settled, HeldAt, ReviewAt

LEMMA DecidedTo ==
  ASSUME PastOK, NEW t \in Tasks, NEW phase, past' = Decided(t, phase)
  PROVE  /\ past'[t].phase = phase /\ past'[t].held = "no"
         /\ \A u \in Tasks \ {t} : past'[u] = past[u]
  BY DEF PastOK, Decided

LEMMA BookedTo ==
  ASSUME BookOK, NEW t \in Tasks, NEW f \in Nat, NEW k \in Nat, NEW lane \in Lanes
  PROVE  /\ Booked(t, f, k, lane)[t].failures = f /\ Booked(t, f, k, lane)[t].resume = lane
         /\ Booked(t, f, k, lane)[t].sticky = book[t].sticky
         /\ \A u \in Tasks \ {t} : Booked(t, f, k, lane)[u] = book[u]
  BY DEF BookOK, Booked

LEMMA BoardIs ==
  ASSUME IInv
  PROVE  /\ status \in [Tasks -> Statuses] /\ book \in [Tasks -> Entry]
         /\ StatusOK /\ ClaimOK /\ BookOK /\ RunsOK /\ PastOK
  BY DEF IInv, Inv, TypeOK, StatusOK, BookOK, Entry

\* Nothing a card comes back by is touched.
LEMMA QuietSettled ==
  ASSUME IInv, UNCHANGED <<status, book, past>>, \A u \in Tasks : claim'[u].run = claim[u].run,
         \A r \in RunIds : runs'[r].src = runs[r].src
  PROVE  \A u \in Tasks : Settled(u)
  <1> SUFFICES ASSUME NEW u \in Tasks
               PROVE  Settled(u)
    OBVIOUS
  <1>1. book[u].failures \in Nat /\ DefaultLimit \in Nat /\ claim[u].run \in RunIds \cup {NoRun}
    BY BoardAssumption DEF IInv, Inv, TypeOK, BookOK, ClaimOK
  <1> QED BY <1>1, StillSettled

LEMMA OpenSettled ==
  ASSUME IInv, NEW t \in Tasks, NEW r \in Fresh, NEW who, Open(t, r, who),
         status[t] \in Lanes, UNCHANGED <<book, past>>
  PROVE  \A u \in Tasks : Settled(u)
  <1>1. r \in RunIds /\ runs[r].task = Nobody
    BY DEF Fresh
  <1>2. status'[t] = "running" /\ \A u \in Tasks \ {t} : status'[u] = status[u]
    BY BoardIs DEF Open, Set, StatusOK
  <1>3. claim'[t].run = r /\ \A u \in Tasks \ {t} : claim'[u] = claim[u]
    BY BoardIs DEF Open, ClaimOK
  <1>4. runs'[r].src = status[t] /\ \A x \in RunIds \ {r} : runs'[x].src = runs[x].src
    <2>1. \A x \in RunIds : LET cut == [runs[x] EXCEPT !.open = FALSE] IN cut.src = runs[x].src
      BY BoardIs DEF RunsOK
    <2> QED BY <1>1, <2>1 DEF Open
  <1>5. ASSUME NEW u \in Tasks \ {t}
        PROVE  Settled(u)
    <2>1. claim[u].run # NoRun => claim[u].run \in RunIds \ {r}
      BY <1>1, BoardIs, Setting DEF IInv, Inv, Bookkeeping, ClaimOK
    <2>2. book[u].failures \in Nat /\ DefaultLimit \in Nat
      BY BoardAssumption, BoardIs DEF BookOK
    <2> QED BY <1>2, <1>3, <1>4, <2>1, <2>2, StillSettled
  <1>6. Retry(t)' = status[t]
    BY <1>1, <1>3, <1>4, Setting DEF Retry
  <1>7. Settled(t)
    BY <1>2, <1>6 DEF Settled, HeldAt, ReviewAt, Lanes
  <1> QED BY <1>5, <1>7

LEMMA DemoteSettled ==
  ASSUME IInv, NEW t \in Tasks, status[t] \in Lanes, Demote(t)
  PROVE  \A u \in Tasks : Settled(u)
  <1> DEFINE s == Set(t, "todo")
  <1>1. s \in [Tasks -> Statuses] /\ s[t] = "todo" /\ \A u \in Tasks \ {t} : s[u] = status[u]
    <2>1. "todo" \in Statuses
      BY DEF Statuses
    <2> QED BY <2>1, BoardIs, SetIs
  <1>2. status' = s /\ claim' = claim /\ runs' = runs /\ past' = past
    BY DEF Demote
  <1>3. /\ \A u \in Tasks \ {t} : book'[u] = book[u]
        /\ status[t] = "review" => book'[t].resume = "review"
    BY BoardIs DEF Demote, BookOK
  <1> HIDE DEF s
  <1>4. \A u \in Tasks \ {t} : Settled(u)
    BY <1>1, <1>2, <1>3, BoardIs, OthersSettled
  <1>5. CASE status[t] = "ready"
    BY <1>2, <1>4, <1>5, ReadySettled
  <1>6. CASE status[t] = "review"
    <2>1. Settled(t)
      BY <1>1, <1>2, <1>3, <1>6 DEF Settled, HeldAt, ReviewAt
    <2> QED BY <1>4, <2>1
  <1> QED BY <1>5, <1>6 DEF Lanes

LEMMA ClaimSettled ==
  ASSUME IInv, NEW t \in Tasks, Claim(t) \/ Pull(t)
  PROVE  \A u \in Tasks : Settled(u)
  <1>1. status[t] \in Lanes
    BY DEF Claim, Pull, Lanes
  <1>2. CASE Demote(t)
    BY <1>1, <1>2, DemoteSettled
  <1>3. CASE UNCHANGED <<book, past>> /\ \E r \in Fresh : Open(t, r, "dispatcher") \/ Open(t, r, "puller")
    BY <1>1, <1>3, OpenSettled
  <1>4. CASE Pull(t) /\ claim[t].run # NoRun /\ runs' = [runs EXCEPT ![claim[t].run].open = FALSE]
             /\ UNCHANGED <<status, claim, book, past>>
    <2>1. \A r \in RunIds : runs'[r].src = runs[r].src
      BY <1>4, BoardIs DEF RunsOK
    <2> QED BY <1>4, <2>1, QuietSettled
  <1> QED BY <1>2, <1>3, <1>4 DEF Claim, Pull

\* A released card, and the cards beside it.
LEMMA RequeueSettled ==
  ASSUME IInv, NEW t \in Tasks, NEW proc \in {"live", "astray"}, status[t] = "running",
         status' = Set(t, Retry(t)), claim' = Freed(t), runs' = Closed(t, proc),
         \A u \in Tasks \ {t} : book'[u] = book[u], past' = past
  PROVE  \A u \in Tasks : Settled(u)
  <1> DEFINE s == Set(t, Retry(t))
  <1>1. s \in [Tasks -> Statuses] /\ s[t] = Retry(t) /\ \A u \in Tasks \ {t} : s[u] = status[u]
    <2>1. Retry(t) \in Statuses
      BY BoardIs, RetryIs DEF Statuses
    <2> QED BY <2>1, BoardIs, SetIs
  <1>2. \A u \in Tasks \ {t} : claim'[u] = claim[u]
    BY BoardIs, FreedIs
  <1>3. \A r \in RunIds : r # claim[t].run => runs'[r].src = runs[r].src
    BY DEF Closed
  <1>4. status' = s
    OBVIOUS
  <1> HIDE DEF s
  <1>5. \A u \in Tasks \ {t} : Settled(u)
    BY <1>1, <1>2, <1>3, <1>4, BoardIs, OthersSettled
  <1>6. Settled(t)
    BY <1>1, <1>4, ReleasedSettled
  <1> QED BY <1>5, <1>6

LEMMA ReleaseSettled ==
  ASSUME IInv, Release
  PROVE  \A u \in Tasks : Settled(u)
  <1> DEFINE t == tick.task
  <1>1. t \in Tasks /\ past' = past
    BY DEF Release, IInv, Inv, TypeOK, TickOK
  <1>2. CASE UNCHANGED <<status, book, runs>> /\ (claim' = claim \/ claim' = [claim EXCEPT ![t].lapsed = FALSE])
    <2>1. \A u \in Tasks : claim'[u].run = claim[u].run
      BY <1>2, BoardIs DEF ClaimOK
    <2> QED BY <1>1, <1>2, <2>1, QuietSettled
  <1>3. CASE Unmoved /\ Requeue(t, ReleaseMode)
    <2>1. ReleaseMode \in {"live", "astray"} /\ status[t] = "running"
      BY <1>3 DEF ReleaseMode, Unmoved
    <2>2. Retry(t) \in Lanes /\ book[t].failures \in Nat /\ 0 \in Nat
      BY <1>1, BoardIs, RetryIs DEF BookOK
    <2>3. \A u \in Tasks \ {t} : book'[u] = book[u]
      BY <1>1, <1>3, <2>2, BoardIs, BookedTo DEF Requeue
    <2> HIDE DEF t
    <2> QED BY <1>1, <1>3, <2>1, <2>3, RequeueSettled DEF Requeue
  <1> QED BY <1>2, <1>3 DEF Release

LEMMA CrashSweepSettled ==
  ASSUME IInv, CrashSweep
  PROVE  \A u \in Tasks : Settled(u)
  <1> SUFFICES ASSUME NEW u \in Tasks
               PROVE  Settled(u)
    OBVIOUS
  <1>1. past' = past
    BY DEF CrashSweep
  <1>2. CASE u \in Dead
    <2>1. status[u] = "running" /\ status'[u] = Retry(u)
      BY <1>2 DEF Dead, CrashSweep
    <2> QED BY <1>1, <2>1, ReleasedSettled
  <1>3. CASE u \notin Dead
    <2>1. status'[u] = status[u] /\ claim'[u] = claim[u] /\ book'[u] = book[u]
      BY <1>3 DEF CrashSweep
    <2>2. book[u].failures \in Nat /\ DefaultLimit \in Nat
      BY BoardAssumption, BoardIs DEF BookOK
    <2>3. ASSUME claim[u].run # NoRun
          PROVE  runs'[claim[u].run].src = runs[claim[u].run].src
      <3>1. claim[u].run \in RunIds
        BY <2>3, BoardIs DEF ClaimOK
      <3>2. \A t \in Dead : claim[t].run # claim[u].run
        BY <1>3, <2>3, RunsApart DEF IInv, Inv, Dead
      <3> QED BY <3>1, <3>2 DEF CrashSweep
    <2> QED BY <1>1, <2>1, <2>2, <2>3, StillSettled
  <1> QED BY <1>2, <1>3

\* A late failure record blocks the card in the lane it is in, or overwrites what it resumes to.
LEMMA AccountSettled ==
  ASSUME IInv, NEW d \in tick.dead, Account(d)
  PROVE  \A u \in Tasks : Settled(u)
  <1> DEFINE t == d.task
  <1>1. t \in Tasks /\ claim' = claim /\ runs' = runs
    BY DEF Account, IInv, Inv, TypeOK, TickOK
  <1>2. book[t].failures \in Nat /\ DefaultLimit \in Nat /\ book[t].streak \in Nat
    BY <1>1, BoardAssumption, BoardIs DEF BookOK
  <1>3. CASE UNCHANGED <<status, book, past>>
    BY <1>1, <1>3, QuietSettled
  <1>4. CASE book' = [book EXCEPT ![t].failures = @ + 1] /\ UNCHANGED <<status, past>>
    <2>1. ASSUME NEW u \in Tasks
          PROVE  /\ book'[u].resume = book[u].resume /\ book'[u].sticky = book[u].sticky
                 /\ book[u].failures \in Nat /\ book'[u].failures \in Nat
                 /\ book'[u].failures >= book[u].failures
      BY <1>1, <1>4, BoardIs DEF BookOK
    <2> QED BY <1>1, <1>2, <1>4, <2>1, StillSettled
  <1>5. CASE Trip(t, DefaultLimit)
    <2> DEFINE lane == IF status[t] = "review" THEN "review" ELSE "ready"
               failures == book[t].failures + 1
    <2>1. lane \in Lanes /\ failures \in Nat /\ "blocked" \in Statuses
      BY <1>2 DEF Lanes, Statuses
    <2>2. CASE Trippable(t)
      <3> DEFINE s == Set(t, "blocked")
      <3>1. /\ status' = s
            /\ book' = Booked(t, failures, book[t].streak, lane)
            /\ past' = [past EXCEPT ![t].held = Reason(failures, DefaultLimit),
                                    ![t].crossed = @ \/ status[t] = "running"]
        BY <1>5, <2>2 DEF Trip
      <3>2. s \in [Tasks -> Statuses] /\ s[t] = "blocked" /\ \A u \in Tasks \ {t} : s[u] = status[u]
        BY <1>1, <2>1, BoardIs, SetIs
      <3>3. /\ book'[t].failures = failures /\ book'[t].resume = lane
            /\ \A u \in Tasks \ {t} : book'[u] = book[u]
        BY <1>1, <1>2, <2>1, <3>1, BoardIs, BookedTo
      <3>4. /\ past'[t].held = Reason(failures, DefaultLimit) /\ past'[t].phase = past[t].phase
            /\ past[t].crossed \/ status[t] = "running" => past'[t].crossed
            /\ \A u \in Tasks \ {t} : past'[u] = past[u]
        BY <1>1, <3>1, BoardIs DEF PastOK
      <3>5. \A u \in Tasks \ {t} : Settled(u)
        <4>1. status' = s /\ \A u \in Tasks \ {t} : book'[u] = book[u] /\ past'[u] = past[u]
          BY <3>1, <3>3, <3>4
        <4> HIDE DEF s, t, lane, failures
        <4> QED BY <1>1, <3>2, <4>1, BoardIs, OthersSettled
      <3>6. past'[t].held = "asked" \/ past'[t].held = "budget" => failures >= DefaultLimit
        BY <3>4 DEF Reason
      <3>7. past'[t].held # "asked"
        BY <3>4 DEF Reason
      <3>8. HeldAt(t)'
        BY <3>1, <3>2, <3>3, <3>6, <3>7 DEF HeldAt
      <3>9. ReviewAt(t) => ReviewAt(t)'
        BY <2>2, <3>1, <3>2, <3>3, <3>4 DEF ReviewAt, Trippable
      <3> QED BY <3>5, <3>8, <3>9 DEF Settled
    <2>3. CASE ~Trippable(t)
      <3>1. /\ book' = [book EXCEPT ![t].resume = lane]
            /\ past' = [past EXCEPT ![t].crossed = TRUE]
            /\ status' = status
        BY <1>5, <2>3 DEF Trip
      <3>2. /\ book'[t].failures = book[t].failures /\ book'[t].sticky = book[t].sticky
            /\ \A u \in Tasks \ {t} : book'[u] = book[u]
        BY <1>1, <3>1, BoardIs DEF BookOK
      <3>3. /\ past'[t].held = past[t].held /\ past'[t].crossed
            /\ \A u \in Tasks \ {t} : past'[u] = past[u]
        BY <1>1, <3>1, BoardIs DEF PastOK
      <3>4. \A u \in Tasks \ {t} : Settled(u)
        <4> HIDE DEF t
        <4> QED BY <1>1, <3>1, <3>2, <3>3, BoardIs, OthersSettled
      <3>5. Settled(t)
        BY <3>1, <3>2, <3>3 DEF Settled, HeldAt, ReviewAt
      <3> QED BY <3>4, <3>5
    <2> QED BY <2>2, <2>3
  <1> QED BY <1>3, <1>4, <1>5 DEF Account

LEMMA PromoteSettled ==
  ASSUME IInv, Promote
  PROVE  \A u \in Tasks : Settled(u)
  <1> SUFFICES ASSUME NEW u \in Tasks
               PROVE  Settled(u)
    OBVIOUS
  <1>1. UNCHANGED <<claim, book, runs, past>> /\ status' = Recomputed(status, book, FailureLimit)
    BY DEF Promote
  <1>2. book[u].failures \in Nat /\ FailureLimit \in Nat
    BY BoardAssumption, BoardIs DEF BookOK
  <1>3. \/ status'[u] = status[u]
        \/ /\ status'[u] = book[u].resume
           /\ status[u] = "todo" \/ (status[u] = "blocked" /\ ~book[u].sticky /\ book[u].failures < FailureLimit)
    BY <1>1, BoardIs, MayReturn
  <1> QED BY <1>1, <1>2, <1>3, StillSettled

LEMMA SpawnFailedSettled ==
  ASSUME IInv, IInv', SpawnFailed
  PROVE  \A u \in Tasks : Settled(u)
  <1>1. PICK t \in Tasks : t = tick.task
    BY DEF SpawnFailed, IInv, Inv, TypeOK, TickOK
  <1> DEFINE lane == Retry(t)
             failures == book[t].failures + 1
             trips == failures >= FailureLimit
             moves == IF trips THEN Trippable(t) ELSE status[t] = "running"
             counted == IF moves THEN failures ELSE book[t].failures
             streak == StreakAfter(t, FALSE)
  <1>2. /\ moves /\ trips => status' = Set(t, "blocked")
        /\ moves /\ ~trips => status' = Set(t, lane)
        /\ ~moves => status' = status
        /\ claim' = IF moves THEN Freed(t) ELSE [claim EXCEPT ![t].run = NoRun]
        /\ runs' = Closed(t, "astray")
        /\ book' = Booked(t, counted, streak, lane)
        /\ past' = [past EXCEPT ![t].held = IF moves /\ trips THEN "budget" ELSE @,
                                ![t].crossed = @ \/ status[t] # "running" \/ claim[t].run # tick.run]
    BY <1>1 DEF SpawnFailed
  <1>3. /\ lane \in Lanes /\ failures \in Nat /\ book[t].failures \in Nat /\ counted \in Nat
        /\ streak \in Nat /\ FailureLimit \in Nat
    <2>1. lane \in Lanes /\ streak \in Nat
      BY RetryIs, StreakIs, BoardIs
    <2>2. book[t].failures \in Nat /\ failures \in Nat
      BY BoardIs DEF BookOK
    <2>3. counted \in Nat
      BY <2>2
    <2> QED BY <2>1, <2>2, <2>3, BoardAssumption
  <1>4. /\ book'[t].failures = counted /\ book'[t].resume = lane /\ book'[t].sticky = book[t].sticky
        /\ \A u \in Tasks \ {t} : book'[u] = book[u]
    <2> HIDE DEF lane, counted, streak
    <2> QED BY <1>1, <1>2, <1>3, BoardIs, BookedTo
  <1>5. /\ past'[t].held = IF moves /\ trips THEN "budget" ELSE past[t].held
        /\ past'[t].phase = past[t].phase
        /\ status[t] # "running" => past'[t].crossed
        /\ past[t].crossed => past'[t].crossed
        /\ \A u \in Tasks \ {t} : past'[u] = past[u]
    <2> HIDE DEF moves, trips
    <2> QED BY <1>1, <1>2, BoardIs DEF PastOK
  <1>6. \A u \in Tasks \ {t} : claim'[u] = claim[u]
    <2>1. claim' = Freed(t) \/ claim' = [claim EXCEPT ![t].run = NoRun]
      BY <1>2
    <2> QED BY <1>1, <2>1, BoardIs, FreedIs DEF ClaimOK
  <1>7. /\ moves /\ trips => status'[t] = "blocked"
        /\ moves /\ ~trips => status'[t] = lane
        /\ ~moves => status'[t] = status[t]
        /\ \A u \in Tasks \ {t} : status'[u] = status[u]
    <2> HIDE DEF moves, trips
    <2> QED BY <1>1, <1>2, BoardIs DEF Set
  <1>8. \A u \in Tasks \ {t} : Settled(u)
    <2>1. \A r \in RunIds : r # claim[t].run => runs'[r].src = runs[r].src
      BY <1>2 DEF Closed
    <2>2. status' \in [Tasks -> Statuses]
      BY DEF IInv, Inv, TypeOK, StatusOK
    <2>3. \A u \in Tasks \ {t} : /\ status'[u] = status[u] /\ book'[u] = book[u]
                                 /\ past'[u] = past[u] /\ claim'[u].run = claim[u].run
      BY <1>4, <1>5, <1>6, <1>7
    <2> HIDE DEF moves, trips, lane, failures, counted, streak
    <2> QED BY <1>1, <2>1, <2>2, <2>3, BoardIs, OthersSettled
  <1>9. Settled(t)
    <2>1. CASE ~moves
      <3>1. status[t] # "running" /\ counted = book[t].failures
        BY <2>1 DEF Trippable
      <3> QED BY <1>4, <1>5, <1>7, <2>1, <3>1 DEF Settled, HeldAt, ReviewAt
    <2>2. CASE moves /\ trips
      <3>1. counted >= FailureLimit
        BY <1>3, <2>2
      <3>2. FailureLimit = DefaultLimit => HeldAt(t)'
        BY <1>4, <1>5, <1>7, <2>2, <3>1 DEF HeldAt
      <3>3. ReviewAt(t) => ReviewAt(t)'
        BY <1>4, <1>5, <1>7, <2>2 DEF ReviewAt
      <3> QED BY <3>2, <3>3 DEF Settled
    <2>3. CASE moves /\ ~trips
      <3>1. status[t] = "running" /\ past'[t].held = past[t].held /\ status'[t] = lane
        BY <1>5, <1>7, <2>3
      <3>2. HeldAt(t) => HeldAt(t)'
        BY <3>1 DEF HeldAt
      <3>3. ReviewAt(t) => ReviewAt(t)'
        BY <1>5, <3>1 DEF ReviewAt
      <3> QED BY <3>2, <3>3 DEF Settled
    <2> QED BY <2>1, <2>2, <2>3
  <1> QED BY <1>8, <1>9

\* The cards beside one that a call sends somewhere and takes from its run.
LEMMA CallSettled ==
  ASSUME IInv, IInv', NEW t \in Tasks, NEW x \in Statuses,
         status' = Set(t, x) \/ status' = Recomputed(Set(t, x), book', DefaultLimit),
         \A u \in Tasks \ {t} : book'[u] = book[u] /\ past'[u] = past[u],
         \/ claim' = claim /\ runs' = runs
         \/ claim' = Freed(t) /\ ClosesRun(t)
         \/ claim' = [claim EXCEPT ![t].run = NoRun] /\ ClosesRun(t)
  PROVE  \A u \in Tasks \ {t} : Settled(u)
  <1> DEFINE s == Set(t, x)
  <1>1. s \in [Tasks -> Statuses] /\ \A u \in Tasks \ {t} : s[u] = status[u]
    BY BoardIs, SetIs
  <1>2. book' \in [Tasks -> Entry]
    BY DEF IInv, Inv, TypeOK, BookOK, Entry
  <1>3. \A u \in Tasks \ {t} : claim'[u] = claim[u]
    BY BoardIs, FreedIs DEF ClaimOK
  <1>4. \A r \in RunIds : r # claim[t].run => runs'[r].src = runs[r].src
    BY DEF ClosesRun
  <1>5. status' = s \/ status' = Recomputed(s, book', DefaultLimit)
    OBVIOUS
  <1> HIDE DEF s
  <1> QED BY <1>1, <1>2, <1>3, <1>4, <1>5, OthersSettled

LEMMA CompleteSettled ==
  ASSUME IInv, IInv', NEW t \in Tasks, NEW noted, Complete(t, noted)
  PROVE  \A u \in Tasks : Settled(u)
  <1>1. past'[t].held = "no" /\ past'[t].phase = "work" /\ \A u \in Tasks \ {t} : past'[u] = past[u]
    BY BoardIs, DecidedTo DEF Complete
  <1>2. ASSUME NEW u \in Tasks \ {t}
        PROVE  book'[u] = book[u]
    BY BoardIs DEF Complete, Booked, BookOK
  <1>3. ClosesRun(t)
    BY ClosedFits DEF Complete
  <1>4. "done" \in Statuses
    BY DEF Statuses
  <1> QED BY <1>1, <1>2, <1>3, <1>4, CallSettled, DecidedSettled DEF Complete

LEMMA BlockSettled ==
  ASSUME IInv, IInv', NEW t \in Tasks, NEW kind \in Kinds, NEW noted, Block(t, kind, noted)
  PROVE  \A u \in Tasks : Settled(u)
  <1> DEFINE source == IF status[t] = "running" THEN Retry(t) ELSE "ready"
             to == IF kind = "dependency" THEN "todo"
                   ELSE IF kind = book[t].cause THEN "triage" ELSE "blocked"
             cause == IF kind = "dependency" THEN "none" ELSE kind
             sticky == Booked(t, book[t].failures, StreakAfter(t, noted), source)[t].sticky \/ to = "blocked"
  <1>1. /\ Active(t) /\ status' = Set(t, to) /\ claim' = Freed(t) /\ runs' = Closed(t, "astray")
        /\ book' = [Booked(t, book[t].failures, StreakAfter(t, noted), source)
                      EXCEPT ![t].cause = cause, ![t].sticky = @ \/ to = "blocked"]
        /\ past' = IF to = "todo" THEN past ELSE [past EXCEPT ![t].held = "asked"]
    BY DEF Block
  <1>2. to \in {"todo", "triage", "blocked"} /\ to \in Statuses
    BY DEF Statuses
  <1>3. /\ book'[t].resume = source
        /\ to = "blocked" => book'[t].sticky
        /\ \A u \in Tasks \ {t} : book'[u] = book[u]
    <2>1. PICK b : b = Booked(t, book[t].failures, StreakAfter(t, noted), source)
      OBVIOUS
    <2>2. source \in Lanes /\ StreakAfter(t, noted) \in Nat /\ book[t].failures \in Nat
      BY RetryIs, StreakIs, BoardIs DEF BookOK, Lanes
    <2>3. /\ b \in [Tasks -> Entry] /\ b[t].resume = source
          /\ \A u \in Tasks \ {t} : b[u] = book[u]
      BY <2>1, <2>2, BoardIs, BookedIs, BookedTo
    <2>4. book' = [b EXCEPT ![t].cause = cause, ![t].sticky = b[t].sticky \/ to = "blocked"]
      BY <1>1, <2>1, <2>3
    <2> HIDE DEF source, to, cause
    <2> QED BY <2>3, <2>4 DEF Entry
  <1>4. status'[t] = to
    <2> HIDE DEF to
    <2> QED BY <1>1, <1>2, BoardIs, SetIs
  <1>5. /\ to = "todo" => past' = past
        /\ to # "todo" => past'[t].held = "asked"
        /\ past'[t].phase = past[t].phase /\ past'[t].crossed = past[t].crossed
        /\ \A u \in Tasks \ {t} : past'[u] = past[u]
    <2>1. to = "todo" => past' = past
      BY <1>1
    <2>2. to # "todo" => past' = [past EXCEPT ![t].held = "asked"]
      BY <1>1
    <2> HIDE DEF to
    <2> QED BY <2>1, <2>2, BoardIs DEF PastOK
  <1>6. ClosesRun(t)
    BY <1>1, ClosedFits
  <1>7. \A u \in Tasks \ {t} : Settled(u)
    <2>1. claim' = Freed(t) /\ status' = Set(t, to)
      BY <1>1
    <2>2. \A u \in Tasks \ {t} : book'[u] = book[u] /\ past'[u] = past[u]
      BY <1>3, <1>5
    <2> HIDE DEF to, source, cause
    <2> QED BY <1>2, <1>6, <2>1, <2>2, CallSettled
  <1>8. Settled(t)
    <2>1. ReviewAt(t) => ReviewAt(t)'
      BY <1>1, <1>2, <1>3, <1>4, <1>5 DEF ReviewAt, Active
    <2>2. HeldAt(t) => HeldAt(t)'
      BY <1>1, <1>2, <1>3, <1>4, <1>5 DEF HeldAt, Active
    <2> QED BY <2>1, <2>2 DEF Settled
  <1> QED BY <1>7, <1>8

LEMMA RequestReviewSettled ==
  ASSUME IInv, IInv', NEW t \in Tasks, NEW noted, RequestReview(t, noted)
  PROVE  \A u \in Tasks : Settled(u)
  <1>1. past'[t].held = "no" /\ \A u \in Tasks \ {t} : past'[u] = past[u]
    BY BoardIs, DecidedTo DEF RequestReview
  <1>2. \A u \in Tasks \ {t} : book'[u] = book[u]
    BY BoardIs DEF RequestReview, BookOK
  <1>3. ClosesRun(t)
    BY ClosedFits DEF RequestReview
  <1>4. "review" \in Statuses
    BY DEF Statuses, Lanes
  <1>5. status'[t] = "review"
    BY <1>4, BoardIs, SetIs DEF RequestReview
  <1> QED BY <1>1, <1>2, <1>3, <1>4, <1>5, CallSettled, DecidedSettled DEF RequestReview

LEMMA BackToWorkSettled ==
  ASSUME IInv, IInv', NEW t \in Tasks, RequestChanges(t) \/ ReopenReview(t)
  PROVE  \A u \in Tasks : Settled(u)
  <1>1. /\ past' = Decided(t, "work") /\ status' = Set(t, Landing(t)) /\ claim' = Freed(t)
        /\ runs' = Closed(t, "astray")
        /\ \E k : book' = Booked(t, book[t].failures, k, "ready")
    BY DEF RequestChanges, ReopenReview
  <1>2. past'[t].held = "no" /\ past'[t].phase = "work" /\ \A u \in Tasks \ {t} : past'[u] = past[u]
    BY <1>1, BoardIs, DecidedTo
  <1>3. \A u \in Tasks \ {t} : book'[u] = book[u]
    BY <1>1, BoardIs DEF Booked, BookOK
  <1>4. ClosesRun(t)
    BY <1>1, ClosedFits
  <1>5. Landing(t) \in Statuses
    BY DEF Landing, Statuses, Lanes
  <1> QED BY <1>1, <1>2, <1>3, <1>4, <1>5, CallSettled, DecidedSettled

LEMMA ScheduleSettled ==
  ASSUME IInv, IInv', NEW t \in Tasks, Schedule(t)
  PROVE  \A u \in Tasks : Settled(u)
  <1>1. past'[t].held = "no" /\ past'[t].phase = "work" /\ \A u \in Tasks \ {t} : past'[u] = past[u]
    BY BoardIs, DecidedTo DEF Schedule
  <1>2. \A u \in Tasks \ {t} : book'[u] = book[u]
    BY BoardIs DEF Schedule, BookOK
  <1>3. ClosesRun(t)
    BY ClosedFits DEF Schedule
  <1>4. "scheduled" \in Statuses
    BY DEF Statuses
  <1> QED BY <1>1, <1>2, <1>3, <1>4, CallSettled, DecidedSettled DEF Schedule

LEMMA UnblockSettled ==
  ASSUME IInv, IInv', NEW t \in Tasks, Unblock(t)
  PROVE  \A u \in Tasks : Settled(u)
  <1> DEFINE resume == IF status[t] = "blocked" THEN book[t].resume ELSE "ready"
             to == IF Landing(t) = "ready" THEN resume ELSE "todo"
  <1>1. /\ status[t] \in {"blocked", "scheduled"} /\ status' = Set(t, to)
        /\ claim' = [claim EXCEPT ![t].run = NoRun] /\ runs' = Closed(t, "astray")
        /\ book' = [Booked(t, 0, StreakAfter(t, FALSE), resume) EXCEPT ![t].sticky = FALSE]
        /\ past' = [past EXCEPT ![t].held = "no"]
    BY DEF Unblock
  <1>2. resume \in Lanes /\ to \in {resume, "todo"} /\ to \in Statuses
    BY BoardIs DEF BookOK, Lanes, Statuses
  <1>3. book'[t].resume = resume /\ \A u \in Tasks \ {t} : book'[u] = book[u]
    <2>1. PICK k : k = StreakAfter(t, FALSE)
      OBVIOUS
    <2>2. k \in Nat /\ 0 \in Nat
      BY <2>1, StreakIs, BoardIs
    <2>4. PICK lane, b : /\ lane = resume /\ b = Booked(t, 0, k, lane)
                        /\ book' = [b EXCEPT ![t].sticky = FALSE]
      BY <1>1, <2>1
    <2>5. lane \in Lanes
      BY <1>2, <2>4
    <2> HIDE DEF resume, to
    <2>6. b \in [Tasks -> Entry]
      BY <2>2, <2>4, <2>5, BoardIs, BookedIs
    <2>7. b = Booked(t, 0, k, lane)
      BY <2>4
    <2>3. b[t].resume = lane /\ \A u \in Tasks \ {t} : b[u] = book[u]
      BY <2>2, <2>5, <2>7, BoardIs, BookedTo
    <2> QED BY <2>3, <2>4, <2>6 DEF Entry
  <1>4. /\ past'[t].held = "no" /\ past'[t].phase = past[t].phase /\ past'[t].crossed = past[t].crossed
        /\ \A u \in Tasks \ {t} : past'[u] = past[u]
    BY <1>1, BoardIs DEF PastOK
  <1>5. ClosesRun(t)
    BY <1>1, ClosedFits
  <1> HIDE DEF to
  <1>6. status'[t] = to
    BY <1>1, <1>2, BoardIs, SetIs
  <1>7. \A u \in Tasks \ {t} : Settled(u)
    BY <1>1, <1>2, <1>3, <1>4, <1>5, CallSettled
  <1>8. Settled(t)
    <2>1. HeldAt(t)'
      BY <1>4 DEF HeldAt
    <2>2. ReviewAt(t) => ReviewAt(t)'
      BY <1>1, <1>2, <1>3, <1>4, <1>6 DEF ReviewAt
    <2> QED BY <2>1, <2>2 DEF Settled
  <1> QED BY <1>7, <1>8

LEMMA PromoteWriteSettled ==
  ASSUME IInv, IInv', PromoteWrite
  PROVE  \A u \in Tasks : Settled(u)
  <1>1. PICK t \in Tasks : t = op.task
    BY DEF PromoteWrite, IInv, Inv, TypeOK, OpOK
  <1>2. UNCHANGED <<claim, book, runs>>
    BY DEF PromoteWrite
  <1>3. CASE status' = Set(t, "ready") /\ past' = Decided(t, "work")
    <2>1. past'[t].held = "no" /\ past'[t].phase = "work" /\ \A u \in Tasks \ {t} : past'[u] = past[u]
      BY <1>3, BoardIs, DecidedTo
    <2>2. "ready" \in Statuses
      BY DEF Statuses, Lanes
    <2> QED BY <1>2, <1>3, <2>1, <2>2, CallSettled, DecidedSettled
  <1>4. CASE UNCHANGED <<status, past>>
    BY <1>2, <1>4, QuietSettled
  <1> QED BY <1>1, <1>3, <1>4 DEF PromoteWrite

\* A lock that was read and is still there belongs to a run, or to a card that had moved on.
LEMMA ReclaimWriteSettled ==
  ASSUME IInv, IInv', CallOK, ReclaimWrite
  PROVE  \A u \in Tasks : Settled(u)
  <1>1. PICK t \in Tasks : t = op.task
    BY DEF ReclaimWrite, IInv, Inv, TypeOK, OpOK
  <1>2. CASE UNCHANGED <<status, claim, book, runs, past>>
    BY <1>2, QuietSettled
  <1>3. CASE /\ claim[t].lock = op.lock
             /\ status' = Set(t, Retry(t)) /\ claim' = Freed(t) /\ runs' = Closed(t, "astray")
             /\ book' = Booked(t, 0, StreakAfter(t, FALSE), Retry(t))
             /\ past' = [past EXCEPT ![t].held = "no"]
    <2>1. Retry(t) \in Lanes /\ Retry(t) \in Statuses
      BY RetryIs, BoardIs DEF Statuses
    <2>2. \A u \in Tasks \ {t} : book'[u] = book[u]
      <3>1. PICK k : k = StreakAfter(t, FALSE)
        OBVIOUS
      <3>2. k \in Nat /\ 0 \in Nat /\ book' = Booked(t, 0, k, Retry(t))
        BY <1>3, <3>1, StreakIs, BoardIs
      <3> QED BY <2>1, <3>2, BoardIs, BookedTo
    <2>3. /\ past'[t].held = "no" /\ past'[t].phase = past[t].phase /\ past'[t].crossed = past[t].crossed
          /\ \A u \in Tasks \ {t} : past'[u] = past[u]
      BY <1>3, BoardIs DEF PastOK
    <2>4. ClosesRun(t)
      BY <1>3, ClosedFits
    <2>5. status'[t] = Retry(t)
      BY <1>3, <2>1, BoardIs, SetIs
    <2>6. \A u \in Tasks \ {t} : Settled(u)
      BY <1>3, <2>1, <2>2, <2>3, <2>4, CallSettled
    <2>7. status[t] = "running" \/ past[t].crossed
      BY <1>3 DEF CallOK, ReclaimWrite, IInv, Inv, Bookkeeping
    <2>8. Settled(t)
      BY <2>3, <2>5, <2>7 DEF Settled, HeldAt, ReviewAt
    <2> QED BY <2>6, <2>8
  <1> QED BY <1>1, <1>2, <1>3 DEF ReclaimWrite

LEMMA ArchiveSettled ==
  ASSUME IInv, NEW t \in Tasks, Archive(t)
  PROVE  \A u \in Tasks : Settled(u)
  <1> DEFINE s == Set(t, "archived")
  <1>1. past'[t].held = "no" /\ past'[t].phase = "work" /\ \A u \in Tasks \ {t} : past'[u] = past[u]
    BY BoardIs, DecidedTo DEF Archive
  <1>2. \A u \in Tasks \ {t} : book'[u] = book[u]
    BY BoardIs DEF Archive, BookOK
  <1>3. \A r \in RunIds : r # claim[t].run => runs'[r].src = runs[r].src
    <2>1. PICK pid, survived : runs' = Killed(Closed(t, "astray"), pid, survived)
      BY DEF Archive
    <2>2. /\ Closed(t, "astray") \in [RunIds -> Attempt]
          /\ \A r \in RunIds : r # claim[t].run => Closed(t, "astray")[r] = runs[r]
      BY BoardIs, ClosedIs
    <2> QED BY <2>1, <2>2, KilledIs
  <1>4. s \in [Tasks -> Statuses] /\ \A u \in Tasks \ {t} : s[u] = status[u]
    <2>1. "archived" \in Statuses
      BY DEF Statuses
    <2> QED BY <2>1, BoardIs, SetIs
  <1>5. status' = Recomputed(s, book, DefaultLimit) /\ \A u \in Tasks \ {t} : claim'[u] = claim[u]
    BY BoardIs, FreedIs DEF Archive
  <1> HIDE DEF s
  <1>6. \A u \in Tasks \ {t} : Settled(u)
    BY <1>1, <1>2, <1>3, <1>4, <1>5, BoardIs, OthersSettled
  <1> QED BY <1>1, <1>6, DecidedSettled

LEMMA SpecifySettled ==
  ASSUME IInv, IInv', NEW t \in Tasks, Specify(t)
  PROVE  \A u \in Tasks : Settled(u)
  <1> DEFINE s == Set(t, "todo")
  <1>1. s \in [Tasks -> Statuses] /\ s[t] = "todo" /\ "todo" \in Statuses
    <2>1. "todo" \in Statuses
      BY DEF Statuses
    <2> QED BY <2>1, BoardIs, SetIs
  <1>2. status[t] = "triage" /\ status' = Recomputed(s, book, DefaultLimit) /\ UNCHANGED <<claim, book, runs>>
    BY DEF Specify
  <1>3. /\ past'[t].held = "no" /\ past'[t].phase = past[t].phase /\ past'[t].crossed = past[t].crossed
        /\ \A u \in Tasks \ {t} : past'[u] = past[u]
    BY BoardIs DEF Specify, PastOK
  <1>4. \A u \in Tasks \ {t} : Settled(u)
    BY <1>1, <1>2, <1>3, CallSettled
  <1> HIDE DEF s
  <1>5. status'[t] = "todo" \/ status'[t] = book[t].resume
    BY <1>1, <1>2, BoardIs, MayReturn
  <1>6. Settled(t)
    BY <1>2, <1>3, <1>5 DEF Settled, HeldAt, ReviewAt
  <1> QED BY <1>4, <1>6

LEMMA SetStatusDirectSettled ==
  ASSUME IInv, IInv', NEW t \in Tasks, NEW to \in {"ready", "todo", "triage"}, SetStatusDirect(t, to)
  PROVE  \A u \in Tasks : Settled(u)
  <1> DEFINE s == Effective(t, to)
             D == Invalidated(t)
             Ended == {u \in D \cup {t} : status[u] = "running"}
             moved == [u \in Tasks |-> IF u \in D THEN "todo" ELSE IF u = t THEN s ELSE status[u]]
  <1>1. s \in {"ready", "todo", "triage", "review"}
    BY EffectiveIs
  <1>2. D \subseteq Tasks /\ \A u \in D : status[u] \in {"ready", "review", "running", "done"}
    BY DescendantsIs DEF Invalidated
  <1>3. moved \in [Tasks -> Statuses] /\ \A u \in Tasks :
          moved[u] = IF u \in D THEN "todo" ELSE IF u = t THEN s ELSE status[u]
    BY <1>1, BoardIs DEF Statuses, Lanes
  <1>4. /\ status' = moved \/ status' = Recomputed(moved, book', DefaultLimit)
        /\ book' = [u \in Tasks |->
             IF u \in D
               THEN [book[u] EXCEPT !.failures = 0, !.resume = Resumes(u),
                                    !.streak = IF u \in Ended THEN 0 ELSE @]
             ELSE IF u = t THEN [book[u] EXCEPT !.resume = "ready", !.streak = IF u \in Ended THEN 0 ELSE @]
             ELSE book[u]]
        /\ claim' = [u \in Tasks |->
             IF u \in D \cup Ended THEN Unclaimed
             ELSE IF u = t THEN [Unclaimed EXCEPT !.run = claim[u].run] ELSE claim[u]]
        /\ past' = [u \in Tasks |->
             IF u \in D THEN [past[u] EXCEPT !.held = "no"]
             ELSE IF u = t THEN [past[u] EXCEPT !.held = "no", !.phase = IF s = "review" THEN @ ELSE "work"]
             ELSE past[u]]
    BY DEF SetStatusDirect
  <1>5. \A r \in RunIds : (\A u \in Ended : claim[u].run # r) => runs'[r].src = runs[r].src
    <2>1. PICK survivors :
            runs' = [r \in RunIds |->
              LET hit == \E u \in Ended \ survivors : claim[u].pid = r
                  now == IF \E u \in Ended : claim[u].run = r THEN Shut(r, "astray") ELSE runs[r] IN
              IF hit /\ Alive(r) THEN [now EXCEPT !.proc = "crashed"] ELSE now]
      BY DEF SetStatusDirect
    <2>2. \A r \in RunIds : runs[r] \in Attempt /\ [runs[r] EXCEPT !.proc = "crashed"].src = runs[r].src
      BY BoardIs DEF RunsOK, Attempt
    <2> QED BY <2>1, <2>2
  <1>6. \A u \in Tasks : u \in Ended <=> u \in D \cup {t} /\ status[u] = "running"
    BY <1>2
  <1>7. book' \in [Tasks -> Entry]
    BY DEF IInv, Inv, TypeOK, BookOK, Entry
  <1> HIDE DEF s, D, Ended, moved
  <1>11. ASSUME NEW u \in Tasks
         PROVE  \/ status'[u] = moved[u]
                \/ /\ status'[u] = book'[u].resume
                   /\ \/ moved[u] = "todo"
                      \/ moved[u] = "blocked" /\ ~book'[u].sticky /\ book'[u].failures < DefaultLimit
    <2>1. status' = moved \/ status' = Recomputed(moved, book', DefaultLimit)
      BY <1>4
    <2>2. moved \in [Tasks -> Statuses]
      BY <1>3
    <2> QED BY <1>7, <2>1, <2>2, MayReturn
  <1>8. ASSUME NEW u \in Tasks, u \notin D, u # t
        PROVE  Settled(u)
    <2>1. book'[u] = book[u] /\ past'[u] = past[u] /\ moved[u] = status[u]
      BY <1>3, <1>4, <1>8
    <2>2. claim'[u] = claim[u]
      BY <1>4, <1>6, <1>8
    <2>3. ASSUME claim[u].run # NoRun
          PROVE  runs'[claim[u].run].src = runs[claim[u].run].src
      <3>1. claim[u].run \in RunIds
        BY <2>3, BoardIs DEF ClaimOK
      <3>2. \A v \in Ended : v \in Tasks /\ v # u
        BY <1>2, <1>6, <1>8 DEF Ended
      <3>3. \A v \in Ended : claim[v].run # claim[u].run
        BY <2>3, <3>2, RunsApart DEF IInv, Inv
      <3> QED BY <1>5, <3>1, <3>3
    <2>4. book[u].failures \in Nat /\ DefaultLimit \in Nat
      BY BoardAssumption, BoardIs DEF BookOK
    <2>5. \/ status'[u] = status[u]
          \/ /\ status'[u] = book[u].resume
             /\ status[u] = "todo" \/ (status[u] = "blocked" /\ ~book[u].sticky /\ book[u].failures < DefaultLimit)
      BY <1>11, <2>1
    <2> QED BY <2>1, <2>2, <2>3, <2>4, <2>5, StillSettled
  <1>9. ASSUME NEW u \in D
        PROVE  Settled(u)
    <2>1. u \in Tasks /\ moved[u] = "todo" /\ status[u] \in {"ready", "review", "running", "done"}
      BY <1>2, <1>3
    <2>2. book'[u].resume = Resumes(u)
      <3>1. \A k : [book[u] EXCEPT !.failures = 0, !.resume = Resumes(u), !.streak = k].resume = Resumes(u)
        BY <2>1, BoardIs DEF Entry
      <3> QED BY <1>4, <2>1, <3>1
    <2>3. past'[u].held = "no" /\ past'[u].phase = past[u].phase /\ past'[u].crossed = past[u].crossed
      BY <1>4, <2>1, BoardIs DEF PastOK
    <2>4. status'[u] = "todo" \/ status'[u] = Resumes(u)
      BY <1>11, <2>1, <2>2
    <2>5. ReviewAt(u) => ReviewAt(u)'
      BY <2>1, <2>2, <2>3, <2>4 DEF ReviewAt, Resumes
    <2>6. HeldAt(u)'
      BY <2>3 DEF HeldAt
    <2> QED BY <2>5, <2>6 DEF Settled
  <1>10. ASSUME t \notin D
         PROVE  Settled(t)
    <2>1. moved[t] = s
      BY <1>3, <1>10
    <2>2. past'[t] = [past[t] EXCEPT !.held = "no", !.phase = IF s = "review" THEN @ ELSE "work"]
      BY <1>4, <1>10
    <2>3. past'[t].held = "no" /\ (s # "review" => past'[t].phase = "work")
      BY <2>2, BoardIs DEF PastOK
    <2>4. s = "review" => status'[t] = "review"
      BY <1>11, <2>1
    <2> QED BY <2>3, <2>4, DecidedSettled
  <1> QED BY <1>8, <1>9, <1>10

LEMMA DragSettled ==
  ASSUME IInv, IInv', NEW t \in Tasks, Drag(t)
  PROVE  \A u \in Tasks : Settled(u)
  <1>1. PICK to \in {"ready", "todo", "triage"} :
          CASE to = "ready" /\ status[t] \in {"blocked", "scheduled"} -> Unblock(t)
            [] to # "triage" /\ status[t] = "review" -> ReopenReview(t)
            [] OTHER -> SetStatusDirect(t, to)
    BY DEF Drag, Targets
  <1>2. Unblock(t) \/ ReopenReview(t) \/ SetStatusDirect(t, to)
    BY <1>1
  <1> QED BY <1>2, UnblockSettled, BackToWorkSettled, SetStatusDirectSettled

\* Steps that only move a tick, a call, an expiry, a pid or a process.
LEMMA QuietStepSettled ==
  ASSUME IInv,
         \/ \E t \in Tasks : \/ Lapse(t) \/ ExtendClaim(t) \/ PromoteCheck(t) \/ ReclaimKill(t)
                              \/ \E why \in {"expired", "silent", "overtime"} : Kill(t, why)
         \/ \E r \in RunIds : Heartbeat(r) \/ WorkerExits(r)
         \/ Spawn \/ RecordPid \/ EndTick \/ TickDies \/ UNCHANGED vars
  PROVE  \A u \in Tasks : Settled(u)
  <1>1. UNCHANGED <<status, book, past>>
    BY DEF Lapse, ExtendClaim, Kill, Spawn, RecordPid, EndTick, TickDies, Heartbeat, WorkerExits,
           PromoteCheck, ReclaimKill, vars
  <1>2. \A u \in Tasks : claim'[u].run = claim[u].run
    <2>1. \/ claim' = claim
          \/ \E x, lapsed : claim' = [claim EXCEPT ![x].lapsed = lapsed]
          \/ \E x, pid : claim' = [claim EXCEPT ![x].pid = pid]
      BY DEF Lapse, ExtendClaim, Kill, Spawn, RecordPid, EndTick, TickDies, Heartbeat, WorkerExits,
             PromoteCheck, ReclaimKill, vars
    <2> QED BY <2>1, BoardIs DEF ClaimOK
  <1>3. \A x \in RunIds : runs'[x].src = runs[x].src
    <2>1. runs \in [RunIds -> Attempt]
      BY BoardIs DEF RunsOK, Attempt
    <2>2. \/ runs' = runs \/ (\E x \in RunIds : \E proc : runs' = [runs EXCEPT ![x].proc = proc])
          \/ \E pid, survived : runs' = Killed(runs, pid, survived)
      <3>1. ASSUME Spawn
            PROVE  \E x \in RunIds : \E proc : runs' = [runs EXCEPT ![x].proc = proc]
        BY <3>1 DEF Spawn, IInv, Inv, TypeOK, TickOK
      <3> QED BY <3>1 DEF Lapse, ExtendClaim, Kill, RecordPid, EndTick, TickDies, Heartbeat, WorkerExits,
                          PromoteCheck, ReclaimKill, vars
    <2>3. CASE \E x \in RunIds : \E proc : runs' = [runs EXCEPT ![x].proc = proc]
      BY <2>1, <2>3 DEF Attempt
    <2>4. CASE \E pid, survived : runs' = Killed(runs, pid, survived)
      BY <2>1, <2>4, KilledIs
    <2> QED BY <2>2, <2>3, <2>4
  <1> QED BY <1>1, <1>2, <1>3, QuietSettled

LEMMA CallKept ==
  ASSUME IInv, CallOK, [Next]_vars
  PROVE  CallOK'
  <1>1. CASE op' = op
    BY <1>1 DEF CallOK
  <1>2. CASE \E t \in Tasks : PromoteCheck(t)
    BY <1>2 DEF CallOK, PromoteCheck, NoCall
  <1>3. CASE \E t \in Tasks : ReclaimKill(t)
    <2>1. PICK t \in Tasks : ReclaimKill(t)
      BY <1>3
    <2>2. claim[t].lock # Nobody
      BY <2>1 DEF ReclaimKill, IInv, Inv, Bookkeeping
    <2> QED BY <2>1, <2>2 DEF CallOK, ReclaimKill
  <1>4. CASE PromoteWrite \/ ReclaimWrite
    <2>1. op' = NoCall
      BY <1>4 DEF PromoteWrite, ReclaimWrite
    <2> QED BY <2>1 DEF CallOK, NoCall
  <1>5. CASE TickStep
    BY <1>1, <1>5 DEF TickStep, Claim, ExtendClaim, Kill, Account, Release, CrashSweep, Promote, Spawn,
                     RecordPid, SpawnFailed, EndTick, TickDies
  <1>6. CASE WorkerStep
    BY <1>1, <1>6 DEF WorkerStep, WorkerCompletes, WorkerBlocks, WorkerAsksReview, WorkerAsksChanges,
                     Heartbeat, WorkerExits
  <1>7. CASE OperatorStep
    BY <1>1, <1>2, <1>3, <1>4, <1>7
       DEF OperatorStep, Completed, Blocked, ReviewForced, ChangesAsked, Schedule, Unblocked, Archive,
           Specify, Drag, Pull, Aside
  <1> QED BY <1>1, <1>5, <1>6, <1>7 DEF Next, Lapse, vars

LEMMA NextSettled ==
  ASSUME IInv, IInv', CallOK, [Next]_vars
  PROVE  \A u \in Tasks : Settled(u)
  <1> SUFFICES ASSUME NEW u \in Tasks
               PROVE  Settled(u)
    OBVIOUS
  <1>1. CASE TickStep
    <2>1. ASSUME \/ Spawn \/ RecordPid \/ EndTick \/ TickDies
                 \/ \E t \in Tasks : ExtendClaim(t) \/ \E why \in {"expired", "silent", "overtime"} : Kill(t, why)
          PROVE  Settled(u)
      BY <2>1, QuietStepSettled
    <2> QED BY <1>1, <2>1, ClaimSettled, AccountSettled, ReleaseSettled, CrashSweepSettled, PromoteSettled,
               SpawnFailedSettled DEF TickStep
  <1>2. CASE WorkerStep
    <2>1. PICK r \in RunIds : \/ WorkerCompletes(r) \/ WorkerBlocks(r) \/ WorkerAsksReview(r)
                              \/ WorkerAsksChanges(r) \/ Heartbeat(r) \/ WorkerExits(r)
      BY <1>2 DEF WorkerStep
    <2>2. PICK t : t = runs[r].task
      OBVIOUS
    <2>3. ASSUME Works(r)
          PROVE  t \in Tasks
      BY <2>2, <2>3 DEF Works, IInv, Inv, Tracked
    <2>4. CASE WorkerCompletes(r)
      BY <2>2, <2>3, <2>4, CompleteSettled DEF WorkerCompletes
    <2>5. CASE WorkerBlocks(r)
      BY <2>2, <2>3, <2>5, BlockSettled DEF WorkerBlocks
    <2>6. CASE WorkerAsksReview(r)
      BY <2>2, <2>3, <2>6, RequestReviewSettled DEF WorkerAsksReview
    <2>7. CASE WorkerAsksChanges(r)
      BY <2>2, <2>3, <2>7, BackToWorkSettled DEF WorkerAsksChanges
    <2> QED BY <2>1, <2>4, <2>5, <2>6, <2>7, QuietStepSettled
  <1>3. CASE OperatorStep
    <2>1. ASSUME NEW t \in Tasks, Completed(t) \/ Blocked(t) \/ ReviewForced(t) \/ ChangesAsked(t) \/ Unblocked(t)
          PROVE  Settled(u)
      BY <2>1, CompleteSettled, BlockSettled, RequestReviewSettled, BackToWorkSettled, UnblockSettled
         DEF Completed, Blocked, ReviewForced, ChangesAsked, Unblocked
    <2>2. ASSUME NEW t \in Tasks, PromoteCheck(t) \/ ReclaimKill(t)
          PROVE  Settled(u)
      BY <2>2, QuietStepSettled
    <2> QED BY <1>3, <2>1, <2>2, ScheduleSettled, ArchiveSettled, SpecifySettled, DragSettled, ClaimSettled,
               PromoteWriteSettled, ReclaimWriteSettled DEF OperatorStep
  <1>4. CASE \E t \in Tasks : Lapse(t)
    BY <1>4, QuietStepSettled
  <1>5. CASE UNCHANGED vars
    BY <1>5, QuietStepSettled
  <1> QED BY <1>1, <1>2, <1>3, <1>4, <1>5 DEF Next

-----------------------------------------------------------------------------
(* The theorems about waiting cards *)

LEMMA InitSettled ==
  ASSUME Init
  PROVE  HInv /\ PInv
  BY DEF Init, HInv, PInv, CallOK, HeldAt, ReviewAt, NoCall

\* A card under review does not fall back to the ready lane over crashes, lapsed claims,
\* blocks, unblocks, reclaims and reopened parents, until somebody decides otherwise or a
\* failure record crosses it.
THEOREM PhaseHolds == Spec => []PhaseKept
  <1>1. Init => PInv
    BY InitSettled
  <1>2. IInv /\ IInv' /\ PInv /\ [Next]_vars => PInv'
    <2> SUFFICES ASSUME IInv, IInv', PInv, [Next]_vars
                 PROVE  PInv'
      OBVIOUS
    <2>1. CallOK'
      BY CallKept DEF PInv
    <2>2. \A u \in Tasks : Settled(u)
      BY NextSettled DEF PInv
    <2> QED BY <2>1, <2>2 DEF PInv, Settled
  <1>3. IInv /\ PInv => PhaseKept
    <2> SUFFICES ASSUME IInv, PInv, NEW t \in Tasks,
                        status[t] = "ready" \/ (status[t] = "running" /\ runs[claim[t].run].src = "ready")
                 PROVE  past[t].phase = "work" \/ past[t].crossed
      BY DEF PhaseKept
    <2>1. past[t].phase \in {"work", "review"} /\ ReviewAt(t)
      BY BoardIs DEF PastOK, PInv
    <2>2. status[t] = "running" => claim[t].run # NoRun
      BY DEF IInv, Inv, Bookkeeping
    <2> QED BY <2>1, <2>2 DEF ReviewAt, Retry
  <1> QED BY <1>1, <1>2, <1>3, Invariance, PTL DEF Spec

\* A card blocked on request or out of failures does not come back by itself, when the
\* dispatcher runs with the default failure limit (kanban.failure_limit is 2 like
\* DEFAULT_FAILURE_LIMIT unless somebody sets it, and only its own promotions and spawn
\* failures look at it: with another value the two limits disagree on who is out of failures).
THEOREM HeldHolds ==
  ASSUME FailureLimit = DefaultLimit
  PROVE  Spec => []HeldStays
  <1>1. Init => HInv /\ PInv
    BY InitSettled
  <1>2. IInv /\ IInv' /\ HInv /\ PInv /\ [Next]_vars => HInv' /\ PInv'
    <2> SUFFICES ASSUME IInv, IInv', HInv, PInv, [Next]_vars
                 PROVE  HInv' /\ PInv'
      OBVIOUS
    <2>1. CallOK'
      BY CallKept DEF PInv
    <2>2. \A u \in Tasks : Settled(u)
      BY NextSettled DEF PInv
    <2> QED BY <2>1, <2>2 DEF HInv, PInv, Settled
  <1>3. HInv => HeldStays
    BY DEF HInv, HeldAt, HeldStays
  <1> QED BY <1>1, <1>2, <1>3, Invariance, PTL DEF Spec
=============================================================================
