-------------------------- MODULE CronJobs_proofs ---------------------------
(***************************************************************************)
(* Machine-checked proofs about CronJobs, for any gateways, attempts and   *)
(* bound on the clock.                                                     *)
(***************************************************************************)
EXTENDS CronJobs, TLAPS

USE ConstantsAssumption

(***************************************************************************)
(* Records and their updates                                               *)
(***************************************************************************)
\* The empty records, the refreshed claims and the records the actions write are well typed.
LEMMA Records ==
  ASSUME TypeOK
  PROVE  /\ NoFire \in FireClaim /\ NoRun \in RunClaim /\ NoSlot \in Slot /\ Over \in Attempt
         /\ Beaten \in Job /\ Recorded \in Job
         /\ Gone("retired") \in Job /\ Gone("deleted") \in Job
         /\ \A g \in Gateways : Restored(g) \in Job
         /\ \A g \in Gateways, i \in Nat : [inst |-> i, host |-> g, fresh |-> TRUE] \in Slot
  <1>1. NoFire \in FireClaim /\ NoRun \in RunClaim /\ NoSlot \in Slot /\ Over \in Attempt
    BY DEF NoFire, NoRun, NoSlot, Over, FireClaim, RunClaim, Slot, Attempt, Stages
  <1>2. Refreshed(job.fire) \in FireClaim
    BY DEF TypeOK, Job, Refreshed, FireClaim
  <1>3. Beaten \in Job
    BY <1>2 DEF TypeOK, Job, Beaten
  <1>4. now + 1 \in Nat
    BY DEF TypeOK
  <1>5. Recorded \in Job
    BY <1>1, <1>4 DEF TypeOK, Job, Recorded, Recurring
  <1>6. Gone("retired") \in Job /\ Gone("deleted") \in Job
    BY <1>1 DEF TypeOK, Job, Gone
  <1>7. ASSUME NEW g \in Gateways PROVE Restored(g) \in Job
    <2>1. job.slot.inst \in Nat /\ job \in Job
      BY DEF TypeOK, Job, Slot
    <2> QED BY <1>1, <2>1 DEF Restored, Job
  <1>8. \A g \in Gateways, i \in Nat : [inst |-> i, host |-> g, fresh |-> TRUE] \in Slot
    BY DEF Slot
  <1> QED BY <1>1, <1>3, <1>5, <1>6, <1>7, <1>8

\* What heartbeats, outcomes and departures leave of the fields the invariant looks at.
LEMMA Fields ==
  ASSUME TypeOK
  PROVE  /\ Beaten.kind = job.kind /\ Beaten.state = job.state /\ Beaten.run = job.run
         /\ Beaten.fire.by = job.fire.by
         /\ Recorded.kind = job.kind /\ Recorded.fire = NoFire /\ Recorded.run = NoRun
         /\ Recorded.state \in {"scheduled", "completed"}
         /\ \A state \in {"retired", "deleted"} :
              /\ Gone(state).kind = job.kind /\ Gone(state).state = state
              /\ Gone(state).fire = NoFire /\ Gone(state).run = NoRun
         /\ \A g \in Gateways :
              /\ Restored(g).kind = job.kind /\ Restored(g).state = job.state
              /\ Restored(g).fire = job.fire /\ Restored(g).run = job.run
         /\ NoFire.by = Nobody /\ NoRun.host = Nobody
  BY DEF TypeOK, Job, FireClaim, Beaten, Refreshed, Recorded, Recurring, Gone, Restored, NoFire, NoRun

\* A record that was put back carries no claim.
LEMMA Restorations ==
  ASSUME TypeOK
  PROVE  \A i \in completed :
           /\ RolledBack(i) \in Job /\ RolledBack(i).fire = NoFire /\ RolledBack(i).run = NoRun
           /\ RolledBack(i).state = "scheduled"
  <1>1. Recorded \in Job /\ Recorded.fire = NoFire /\ Recorded.run = NoRun
    BY Records, Fields
  <1>2. \A i \in completed : i \in Nat
    BY DEF TypeOK
  <1> QED BY <1>1, <1>2 DEF RolledBack, Job

\* The attempt a goes to stage s and keeps its gateway and occurrence; no other changes.
Moved(a, s) ==
  /\ att' \in [Attempts -> Attempt]
  /\ att'[a].at = s /\ att'[a].gw = att[a].gw /\ att'[a].inst = att[a].inst
  /\ \A b \in Attempts \ {a} : att'[b] = att[b]

\* The attempts in lost are over; no other changes.
Left(lost) ==
  /\ att' \in [Attempts -> Attempt]
  /\ \A a \in lost : att'[a].at = "idle"
  /\ \A a \in Attempts \ lost : att'[a] = att[a]

\* The attempt a begins at stage s in gateway g, for occurrence i; no other changes.
Begun(a, s, g, i) ==
  /\ att' \in [Attempts -> Attempt]
  /\ att'[a].at = s /\ att'[a].gw = g /\ att'[a].inst = i /\ att'[a].place = "gateway"
  /\ \A b \in Attempts \ {a} : att'[b] = att[b]

\* What the updates of the attempts do, in one place.
LEMMA Effects ==
  ASSUME TypeOK
  PROVE  /\ \A a \in Attempts, s \in Stages :
              Became(a, s) => Moved(a, s) /\ att'[a].place = att[a].place
         /\ \A a \in Attempts, p \in Places :
              Starts(a, p) => Moved(a, "claimed") /\ att'[a].place = p
         /\ \A a \in Attempts, s \in Stages, ok \in BOOLEAN :
              Answers(a, s, ok) => Moved(a, s) /\ att'[a].place = att[a].place
         /\ \A a \in Attempts : Ended(a) => Left({a})
         /\ \A a \in Attempts, s \in Stages, g \in Gateways, i \in Nat :
              Born(a, s, g, i) => Begun(a, s, g, i)
         /\ \A g \in Gateways, lost \in SUBSET Attempts :
              Goes(g, lost) => Left(lost) /\ up' \in [Gateways -> BOOLEAN]
  <1>0. Over \in Attempt /\ Over.at = "idle" /\ att \in [Attempts -> Attempt]
    BY Records DEF TypeOK, Over
  <1>1. ASSUME NEW a \in Attempts, NEW s \in Stages, Became(a, s)
        PROVE  Moved(a, s) /\ att'[a].place = att[a].place
    <2>1. [att[a] EXCEPT !.at = s] \in Attempt
      BY <1>0 DEF Attempt
    <2> QED BY <1>0, <1>1, <2>1 DEF Became, Moved, Attempt
  <1>2. ASSUME NEW a \in Attempts, NEW p \in Places, Starts(a, p)
        PROVE  Moved(a, "claimed") /\ att'[a].place = p
    <2>1. [att[a] EXCEPT !.at = "claimed", !.place = p] \in Attempt
      BY <1>0 DEF Attempt, Stages
    <2> QED BY <1>0, <1>2, <2>1 DEF Starts, Moved, Attempt
  <1>3. ASSUME NEW a \in Attempts, NEW s \in Stages, NEW ok \in BOOLEAN, Answers(a, s, ok)
        PROVE  Moved(a, s) /\ att'[a].place = att[a].place
    <2>1. [att[a] EXCEPT !.at = s, !.ok = ok] \in Attempt
      BY <1>0 DEF Attempt
    <2> QED BY <1>0, <1>3, <2>1 DEF Answers, Moved, Attempt
  <1>4. ASSUME NEW a \in Attempts, Ended(a) PROVE Left({a})
    BY <1>0, <1>4 DEF Ended, Left
  <1>5. ASSUME NEW a \in Attempts, NEW s \in Stages, NEW g \in Gateways, NEW i \in Nat,
               Born(a, s, g, i)
        PROVE  Begun(a, s, g, i)
    <2>1. [at |-> s, gw |-> g, inst |-> i, place |-> "gateway", ok |-> FALSE] \in Attempt
      BY DEF Attempt
    <2> QED BY <1>0, <1>5, <2>1 DEF Born, Begun
  <1>6. ASSUME NEW g \in Gateways, NEW lost \in SUBSET Attempts, Goes(g, lost)
        PROVE  Left(lost) /\ up' \in [Gateways -> BOOLEAN]
    BY <1>0, <1>6 DEF Goes, Left, TypeOK
  <1> QED BY <1>1, <1>2, <1>3, <1>4, <1>5, <1>6

(***************************************************************************)
(* Type correctness                                                        *)
(***************************************************************************)
\* No step leaves the types.
LEMMA TypeStep == TypeOK /\ [Next]_vars => TypeOK'
  <1> SUFFICES ASSUME TypeOK, [Next]_vars PROVE TypeOK'
    OBVIOUS
  <1>a. now + 1 \in Nat /\ job \in Job /\ job.next \in Nat /\ job.slot.inst \in Nat
    BY DEF TypeOK, Job, Slot
  <1>b. NoTick \in [gw : Gateways \cup {Nobody}, at : {"none", "due", "advanced"}, inst : Nat]
    BY DEF NoTick
  <1>c. \A g \in Gateways : Instant(g) \in Nat
    BY Records DEF Instant, Job
  <1>d. /\ NoFire \in FireClaim /\ NoRun \in RunClaim /\ NoSlot \in Slot
        /\ Beaten \in Job /\ Recorded \in Job /\ Gone("retired") \in Job /\ Gone("deleted") \in Job
        /\ \A g \in Gateways : Restored(g) \in Job
    BY Records
  <1>e. \A a \in Attempts :
          /\ \A s \in Stages : Became(a, s) => att' \in [Attempts -> Attempt]
          /\ \A p \in Places : Starts(a, p) => att' \in [Attempts -> Attempt]
          /\ \A s \in Stages, ok \in BOOLEAN : Answers(a, s, ok) => att' \in [Attempts -> Attempt]
          /\ Ended(a) => att' \in [Attempts -> Attempt]
          /\ \A s \in Stages, g \in Gateways, i \in Nat :
               Born(a, s, g, i) => att' \in [Attempts -> Attempt]
    BY Effects DEF Moved, Left, Begun
  <1>f. ASSUME NEW r \in Job, NEW n \in Nat, NEW s \in Slot
        PROVE  /\ [r EXCEPT !.next = n] \in Job /\ [r EXCEPT !.next = n, !.slot = s] \in Job
               /\ [r EXCEPT !.done = 1] \in Job /\ [r EXCEPT !.state = "completed", !.next = 0] \in Job
    BY <1>f DEF Job
  <1>g. \A a \in Attempts, g \in Gateways \cup {Nobody} : Grant(a, g) => job' \in Job /\ covered' \in Nat
    <2>1. ASSUME NEW a \in Attempts, NEW g \in Gateways \cup {Nobody}, Grant(a, g)
          PROVE  job' \in Job /\ covered' \in Nat
      <3>1. [by |-> a, host |-> g, fresh |-> TRUE] \in FireClaim
        BY DEF FireClaim
      <3>2. PICK n \in Nat : job' = [job EXCEPT !.fire = [by |-> a, host |-> g, fresh |-> TRUE],
                                                !.slot = NoSlot, !.next = n]
        BY <1>a, <2>1 DEF Grant
      <3> QED BY <1>a, <1>d, <2>1, <3>1, <3>2 DEF Grant, Job, TypeOK
    <2> QED BY <2>1
  <1>h. \A i \in Nat : Sent(i) => sent' \in [1 .. MaxTime -> Nat]
    BY DEF Sent, TypeOK
  <1>i. \A a \in Attempts : att[a].inst \in Nat /\ att[a].gw \in Gateways \cup {Nobody}
    BY DEF TypeOK, Attempt
  <1>1. ASSUME NEW g \in Gateways, ScanSkips(g) PROVE TypeOK'
    BY <1>1, <1>a, <1>b, <1>c, <1>d, <1>f DEF ScanSkips, TypeOK
  <1>2. ASSUME NEW g \in Gateways, ScanRecurring(g) PROVE TypeOK'
    <2>1. Pending(g) \in Slot /\ Restored(g) \in Job /\ Instant(g) \in Nat
      BY <1>c, <1>d DEF Pending, Slot
    <2>2. job' \in Job
      BY <1>2, <2>1, <1>a, <1>f DEF ScanRecurring
    <2> QED BY <1>2, <2>1, <2>2 DEF ScanRecurring, TypeOK
  <1>3. ASSUME NEW g \in Gateways, ScanRetires(g) PROVE TypeOK'
    BY <1>3, <1>a, <1>b, <1>c, <1>d DEF ScanRetires, TypeOK
  <1>4. ASSUME NEW g \in Gateways, ScanOneShot(g) PROVE TypeOK'
    BY <1>4, <1>a, <1>b, <1>c, <1>d DEF ScanOneShot, TypeOK, Job, Slot, FireClaim, RunClaim
  <1>5. ASSUME NEW g \in Gateways, Advance(g) PROVE TypeOK'
    BY <1>5, <1>a, <1>b, <1>c, <1>d DEF Advance, TypeOK, Job, Slot, FireClaim, RunClaim
  <1>6. ASSUME NEW g \in Gateways, Submit(g) PROVE TypeOK'
    BY <1>6, <1>a, <1>b, <1>c, <1>e DEF Submit, TypeOK, Stages
  <1>7. ASSUME NEW g \in Gateways, SubmitRefused(g) PROVE TypeOK'
    BY <1>7, <1>a, <1>b, <1>c DEF SubmitRefused, TypeOK
  <1>8. ASSUME NEW g \in Gateways, SubmitFails(g) PROVE TypeOK'
    BY <1>8, <1>a, <1>b, <1>c, <1>d DEF SubmitFails, TypeOK, Job, Slot, FireClaim, RunClaim
  <1>9. ASSUME NEW g \in Gateways, ManualClaim(g) PROVE TypeOK'
    BY <1>9, <1>a, <1>b, <1>c, <1>d, <1>e, <1>g, <1>i DEF ManualClaim, TypeOK, Stages
  <1>10. ASSUME NEW g \in Gateways, Crash(g) PROVE TypeOK'
    <2>1. PICK lost \in SUBSET Attempts : Goes(g, lost)
      BY <1>10 DEF Crash
    <2>2. att' \in [Attempts -> Attempt] /\ up' \in [Gateways -> BOOLEAN]
      BY <2>1, Effects DEF Left
    <2> QED BY <1>10, <2>1, <2>2, <1>b, <1>d DEF Crash, Goes, TypeOK
  <1>11. ASSUME NEW g \in Gateways, Shutdown(g) PROVE TypeOK'
    <2>1. PICK lost \in SUBSET Attempts : Goes(g, lost)
      BY <1>11 DEF Shutdown
    <2>2. att' \in [Attempts -> Attempt] /\ up' \in [Gateways -> BOOLEAN]
      BY <2>1, Effects DEF Left
    <2> QED BY <1>11, <2>1, <2>2, <1>b, <1>d DEF Shutdown, Goes, TypeOK
  <1>12. ASSUME NEW a \in Attempts, Claim(a) PROVE TypeOK'
    BY <1>12, <1>a, <1>b, <1>c, <1>d, <1>e, <1>g, <1>i DEF Claim, TypeOK, Stages
  <1>13. ASSUME NEW a \in Attempts, ClaimRefused(a) PROVE TypeOK'
    BY <1>13, <1>a, <1>b, <1>c, <1>d, <1>e DEF ClaimRefused, TypeOK, Stages, Job
  <1>14. ASSUME NEW a \in Attempts, ManualStart(a) PROVE TypeOK'
    BY <1>14, <1>a, <1>b, <1>c, <1>d, <1>e DEF ManualStart, TypeOK, Stages
  <1>15. ASSUME NEW a \in Attempts, Validate(a) PROVE TypeOK'
    BY <1>15, <1>a, <1>b, <1>c, <1>d, <1>e DEF Validate, TypeOK, Stages
  <1>16. ASSUME NEW a \in Attempts, Dispatch(a) PROVE TypeOK'
    BY <1>16, <1>a, <1>b, <1>c, <1>d, <1>e, <1>f, <1>i DEF Dispatch, TypeOK, Dispatched, Stages
  <1>17. ASSUME NEW a \in Attempts, Returns(a) PROVE TypeOK'
    BY <1>17, <1>a, <1>b, <1>c, <1>d, <1>e DEF Returns, TypeOK, Stages
  <1>18. ASSUME NEW a \in Attempts, SaveOutput(a) PROVE TypeOK'
    BY <1>18, <1>a, <1>b, <1>c, <1>d, <1>e DEF SaveOutput, TypeOK, Stages
  <1>19. ASSUME NEW a \in Attempts, Deliver(a) PROVE TypeOK'
    BY <1>19, <1>a, <1>b, <1>c, <1>d, <1>e, <1>h, <1>i DEF Deliver, TypeOK, Stages
  <1>20. ASSUME NEW a \in Attempts, Delivered(a) PROVE TypeOK'
    BY <1>20, <1>a, <1>b, <1>c, <1>d, <1>e DEF Delivered, TypeOK, Stages
  <1>21. ASSUME NEW a \in Attempts, Closes(a) PROVE TypeOK'
    BY <1>21, <1>a, <1>b, <1>c, <1>d, <1>e DEF Closes, TypeOK, IfMine, Stages
  <1>22. ASSUME NEW a \in Attempts, Mark(a) PROVE TypeOK'
    BY <1>22, <1>a, <1>b, <1>c, <1>d, <1>e DEF Mark, TypeOK, Stages
  <1>23. ASSUME NEW a \in Attempts, Finish(a) PROVE TypeOK'
    <2>1. completed' \in SUBSET Nat
      BY <1>23, <1>i DEF Finish, TypeOK
    <2> QED BY <1>23, <2>1, <1>e DEF Finish, TypeOK
  <1>24. ASSUME NEW a \in Attempts, LaunchFails(a) PROVE TypeOK'
    BY <1>24, <1>a, <1>b, <1>c, <1>d, <1>e DEF LaunchFails, TypeOK, Stages
  <1>25. ASSUME NEW a \in Attempts, LedgerRefuses(a) PROVE TypeOK'
    BY <1>25, <1>a, <1>b, <1>c, <1>d, <1>e DEF LedgerRefuses, TypeOK, Stages
  <1>26. ASSUME NEW a \in Attempts, Cancelled(a) PROVE TypeOK'
    BY <1>26, <1>a, <1>b, <1>c, <1>d, <1>e DEF Cancelled, TypeOK, Stages
  <1>27. ASSUME NEW a \in Attempts, Raises(a) PROVE TypeOK'
    BY <1>27, <1>a, <1>b, <1>c, <1>d, <1>e, <1>h, <1>i DEF Raises, TypeOK, IfMine, Stages
  <1>28. ASSUME NEW a \in Attempts, NothingToSay(a) PROVE TypeOK'
    BY <1>28, <1>a, <1>b, <1>c, <1>d, <1>e DEF NothingToSay, TypeOK, Stages
  <1>29. ASSUME NEW a \in Attempts, WorkerDies(a) PROVE TypeOK'
    BY <1>29, <1>a, <1>b, <1>c, <1>d, <1>e DEF WorkerDies, TypeOK, Stages
  <1>30. ASSUME NEW a \in Attempts, Heartbeat(a) PROVE TypeOK'
    BY <1>30, <1>a, <1>b, <1>c, <1>d DEF Heartbeat, TypeOK
  <1>31. ASSUME NEW a \in Attempts, RunHeartbeat(a) PROVE TypeOK'
    BY <1>31, <1>a, <1>b, <1>c DEF RunHeartbeat, TypeOK, Job, RunClaim, Refreshed, Aged
  <1>32. ASSUME FireExpires PROVE TypeOK'
    BY <1>32, <1>a, <1>b, <1>c DEF FireExpires, TypeOK, Job, FireClaim, Aged
  <1>33. ASSUME RunExpires PROVE TypeOK'
    BY <1>33, <1>a, <1>b, <1>c DEF RunExpires, TypeOK, Job, RunClaim, Refreshed, Aged
  <1>34. ASSUME SlotExpires PROVE TypeOK'
    BY <1>34, <1>a, <1>b, <1>c DEF SlotExpires, TypeOK, Job, Slot, Aged
  <1>35. ASSUME Remove PROVE TypeOK'
    BY <1>35, <1>a, <1>b, <1>c, <1>d DEF Remove, TypeOK
  <1>36. ASSUME Rearm PROVE TypeOK'
    <2>1. job' = [job EXCEPT !.state = "scheduled", !.next = now + 1, !.fire = NoFire,
                                !.run = NoRun, !.done = 0]
      BY <1>36 DEF Rearm
    <2>2. job' \in Job
      BY <2>1, <1>a, <1>d DEF Job
    <2> QED BY <1>36, <2>2 DEF Rearm, TypeOK
  <1>39. ASSUME Restore PROVE TypeOK'
    <2>1. PICK i \in completed : job' = RolledBack(i)
      BY <1>39 DEF Restore
    <2>2. /\ RolledBack(i) \in Job /\ RolledBack(i).fire = NoFire /\ RolledBack(i).run = NoRun
          /\ RolledBack(i).state = "scheduled"
      BY <2>1, Restorations
    <2> QED BY <1>39, <2>1, <2>2, <1>a, <1>b, <1>c DEF Restore, TypeOK
  <1>37. ASSUME TimePasses PROVE TypeOK'
    BY <1>37, <1>a, <1>b, <1>c DEF TimePasses, TypeOK
  <1>38. CASE UNCHANGED vars
    BY <1>38, <1>a, <1>b, <1>c DEF vars, TypeOK
  <1> QED
    BY <1>1, <1>2, <1>3, <1>4, <1>5, <1>6, <1>7, <1>8, <1>9, <1>10, <1>11, <1>12,
         <1>13, <1>14, <1>15, <1>16, <1>17, <1>18, <1>19, <1>20, <1>21, <1>22, <1>23,
         <1>24, <1>25, <1>26, <1>27, <1>28, <1>29, <1>30, <1>31, <1>32, <1>33, <1>34,
         <1>35, <1>36, <1>37, <1>38, <1>39
    DEF Next, GatewayStep, AttemptStep, Mishap

(***************************************************************************)
(* The fence                                                               *)
(***************************************************************************)
\* The fence and the delivering attempt keep naming each other, and the claim stays with it.
LEMMA FenceStep == TypeOK /\ FenceHeld /\ FencedDelivery /\ [Next]_vars => FenceHeld' /\ FencedDelivery'
  <1> SUFFICES ASSUME TypeOK, FenceHeld, FencedDelivery, [Next]_vars PROVE FenceHeld' /\ FencedDelivery'
    OBVIOUS
  <1>a. \A a \in Attempts :
          /\ \A s \in Stages : Became(a, s) => Moved(a, s) /\ att'[a].place = att[a].place
          /\ \A p \in Places : Starts(a, p) => Moved(a, "claimed") /\ att'[a].place = p
          /\ \A s \in Stages, ok \in BOOLEAN :
               Answers(a, s, ok) => Moved(a, s) /\ att'[a].place = att[a].place
          /\ Ended(a) => Left({a})
          /\ \A s \in Stages, g \in Gateways, i \in Nat : Born(a, s, g, i) => Begun(a, s, g, i)
    BY Effects
  <1>b. \A g \in Gateways, lost \in SUBSET Attempts : Goes(g, lost) => Left(lost)
    BY Effects
  <1>t. tick.inst \in Nat /\ (\A a \in Attempts : att[a] \in Attempt) /\ job \in Job
    BY DEF TypeOK
  <1>c. fence \in Attempts \cup {Nobody} /\ NoFire.by = Nobody
    BY DEF TypeOK, NoFire
  <1>d. /\ Beaten.fire.by = job.fire.by /\ Recorded.fire = NoFire
        /\ Gone("retired").fire = NoFire /\ Gone("deleted").fire = NoFire
        /\ \A g \in Gateways : Restored(g).fire = job.fire /\ Restored(g) \in Job
    BY Fields, Records
  <1>e. \A r \in Job, n \in Nat, s \in Slot, c \in RunClaim :
          /\ [r EXCEPT !.next = n].fire = r.fire /\ [r EXCEPT !.next = n, !.slot = s].fire = r.fire
          /\ [r EXCEPT !.run = c].fire = r.fire /\ [r EXCEPT !.slot = s].fire = r.fire
    BY DEF Job
  <1>1. ASSUME NEW g \in Gateways, ScanSkips(g) PROVE FenceHeld' /\ FencedDelivery'
    BY <1>1, <1>c, <1>d, <1>t DEF ScanSkips, FenceHeld, FencedDelivery, Job
  <1>2. ASSUME NEW g \in Gateways, ScanRecurring(g) PROVE FenceHeld' /\ FencedDelivery'
    BY <1>2, <1>c, <1>d, <1>t DEF ScanRecurring, FenceHeld, FencedDelivery, Job
  <1>3. ASSUME NEW g \in Gateways, ScanRetires(g) PROVE FenceHeld' /\ FencedDelivery'
    BY <1>3, <1>c, <1>d, <1>t DEF ScanRetires, FenceHeld, FencedDelivery, Job
  <1>4. ASSUME NEW g \in Gateways, ScanOneShot(g) PROVE FenceHeld' /\ FencedDelivery'
    BY <1>4, <1>c, <1>d, <1>t DEF ScanOneShot, FenceHeld, FencedDelivery, Job
  <1>5. ASSUME NEW g \in Gateways, Advance(g) PROVE FenceHeld' /\ FencedDelivery'
    BY <1>5, <1>c, <1>d, <1>t DEF Advance, FenceHeld, FencedDelivery, Job
  <1>6. ASSUME NEW g \in Gateways, Submit(g) PROVE FenceHeld' /\ FencedDelivery'
    <2>1. \A b \in Attempts : att'[b].at = "delivering" <=> att[b].at = "delivering"
      BY <1>6, <1>a, <1>t DEF Submit, Unused, Moved, Left, Begun, Stages
    <2>2. fence' = fence /\ job'.fire.by \in {job.fire.by, Nobody}
      BY <1>6, <1>c, <1>d, <1>t DEF Submit, Dispatched, Job
    <2> QED BY <2>1, <2>2, <1>c DEF FenceHeld, FencedDelivery
  <1>7. ASSUME NEW g \in Gateways, SubmitRefused(g) PROVE FenceHeld' /\ FencedDelivery'
    BY <1>7, <1>c DEF SubmitRefused, FenceHeld, FencedDelivery
  <1>8. ASSUME NEW g \in Gateways, SubmitFails(g) PROVE FenceHeld' /\ FencedDelivery'
    BY <1>8, <1>c, <1>d, <1>t DEF SubmitFails, FenceHeld, FencedDelivery, Job
  <1>9. ASSUME NEW g \in Gateways, ManualClaim(g) PROVE FenceHeld' /\ FencedDelivery'
    BY <1>9, <1>c, <1>a DEF ManualClaim, FenceHeld, FencedDelivery, Moved, Left, Begun, Stages, Free
  <1>10. ASSUME NEW g \in Gateways, Crash(g) PROVE FenceHeld' /\ FencedDelivery'
    <2>1. PICK lost \in SUBSET Attempts : Goes(g, lost)
      BY <1>10 DEF Crash
    <2>2. Left(lost) /\ fence' = IF fence \in lost THEN Nobody ELSE fence
      BY <2>1, <1>b DEF Goes
    <2> QED BY <1>10, <2>2, <1>c DEF Crash, Left, FenceHeld, FencedDelivery, Free
  <1>11. ASSUME NEW g \in Gateways, Shutdown(g) PROVE FenceHeld' /\ FencedDelivery'
    <2>1. PICK lost \in SUBSET Attempts : Goes(g, lost)
      BY <1>11 DEF Shutdown
    <2>2. Left(lost) /\ fence' = IF fence \in lost THEN Nobody ELSE fence
      BY <2>1, <1>b DEF Goes
    <2> QED BY <1>11, <2>2, <1>c DEF Shutdown, Left, FenceHeld, FencedDelivery, Free
  <1>12. ASSUME NEW a \in Attempts, Claim(a) PROVE FenceHeld' /\ FencedDelivery'
    BY <1>12, <1>c, <1>a DEF Claim, FenceHeld, FencedDelivery, Moved, Left, Begun, Stages, Free
  <1>13. ASSUME NEW a \in Attempts, ClaimRefused(a) PROVE FenceHeld' /\ FencedDelivery'
    BY <1>13, <1>c, <1>a, <1>t DEF ClaimRefused, FenceHeld, FencedDelivery, Moved, Left, Begun, Stages, Free, Job
  <1>14. ASSUME NEW a \in Attempts, ManualStart(a) PROVE FenceHeld' /\ FencedDelivery'
    <2>1. \A b \in Attempts : att'[b].at = "delivering" <=> att[b].at = "delivering"
      BY <1>14, <1>a DEF ManualStart, Moved, Left, Begun, Stages
    <2>2. fence' = fence /\ job'.fire.by \in {job.fire.by, Nobody}
      BY <1>14, <1>c, <1>d, <1>t DEF ManualStart, Dispatched, Job
    <2> QED BY <2>1, <2>2, <1>c DEF FenceHeld, FencedDelivery
  <1>15. ASSUME NEW a \in Attempts, Validate(a) PROVE FenceHeld' /\ FencedDelivery'
    BY <1>15, <1>c, <1>a, <1>d DEF Validate, FenceHeld, FencedDelivery, Moved, Left, Begun, Stages, Mine
  <1>16. ASSUME NEW a \in Attempts, Dispatch(a) PROVE FenceHeld' /\ FencedDelivery'
    <2>1. \A b \in Attempts : att'[b].at = "delivering" <=> att[b].at = "delivering"
      BY <1>16, <1>a DEF Dispatch, Moved, Left, Begun, Stages
    <2>2. fence' = fence /\ job'.fire.by \in {job.fire.by, Nobody}
      BY <1>16, <1>c, <1>d, <1>t DEF Dispatch, Dispatched, Job
    <2> QED BY <2>1, <2>2, <1>c DEF FenceHeld, FencedDelivery
  <1>17. ASSUME NEW a \in Attempts, Returns(a) PROVE FenceHeld' /\ FencedDelivery'
    BY <1>17, <1>c, <1>a, <1>d DEF Returns, FenceHeld, FencedDelivery, Moved, Left, Begun, Stages, Mine
  <1>18. ASSUME NEW a \in Attempts, SaveOutput(a) PROVE FenceHeld' /\ FencedDelivery'
    BY <1>18, <1>c, <1>a DEF SaveOutput, FenceHeld, FencedDelivery, Moved, Left, Begun, Stages, Mine, Free
  <1>19. ASSUME NEW a \in Attempts, Deliver(a) PROVE FenceHeld' /\ FencedDelivery'
    BY <1>19, <1>c, <1>a DEF Deliver, FenceHeld, FencedDelivery, Moved, Left, Begun, Stages, Mine, Free
  <1>20. ASSUME NEW a \in Attempts, Delivered(a) PROVE FenceHeld' /\ FencedDelivery'
    BY <1>20, <1>c, <1>a DEF Delivered, FenceHeld, FencedDelivery, Moved, Left, Begun, Stages
  <1>21. ASSUME NEW a \in Attempts, Closes(a) PROVE FenceHeld' /\ FencedDelivery'
    BY <1>21, <1>c, <1>a, <1>d DEF Closes, FenceHeld, FencedDelivery, IfMine, Moved, Left, Begun, Stages, Mine
  <1>22. ASSUME NEW a \in Attempts, Mark(a) PROVE FenceHeld' /\ FencedDelivery'
    BY <1>22, <1>c, <1>a, <1>d DEF Mark, FenceHeld, FencedDelivery, Moved, Left, Begun, Stages, Free
  <1>23. ASSUME NEW a \in Attempts, Finish(a) PROVE FenceHeld' /\ FencedDelivery'
    BY <1>23, <1>c, <1>a DEF Finish, FenceHeld, FencedDelivery, Moved, Left, Begun, Stages
  <1>24. ASSUME NEW a \in Attempts, LaunchFails(a) PROVE FenceHeld' /\ FencedDelivery'
    BY <1>24, <1>c, <1>a DEF LaunchFails, FenceHeld, FencedDelivery, Moved, Left, Begun, Stages
  <1>25. ASSUME NEW a \in Attempts, LedgerRefuses(a) PROVE FenceHeld' /\ FencedDelivery'
    BY <1>25, <1>c, <1>a DEF LedgerRefuses, FenceHeld, FencedDelivery, Moved, Left, Begun, Stages
  <1>26. ASSUME NEW a \in Attempts, Cancelled(a) PROVE FenceHeld' /\ FencedDelivery'
    <2>1. \A b \in Attempts : att'[b].at = "delivering" <=> att[b].at = "delivering"
      BY <1>26, <1>a DEF Cancelled, Moved, Left, Begun, Stages
    <2>2. fence' = fence /\ job'.fire.by \in {job.fire.by, Nobody}
      BY <1>26, <1>c, <1>d, <1>t DEF Cancelled, Dispatched, Job
    <2> QED BY <2>1, <2>2, <1>c DEF FenceHeld, FencedDelivery
  <1>27. ASSUME NEW a \in Attempts, Raises(a) PROVE FenceHeld' /\ FencedDelivery'
    BY <1>27, <1>c, <1>a, <1>d DEF Raises, FenceHeld, FencedDelivery, IfMine, Moved, Left, Begun, Stages, Mine
  <1>28. ASSUME NEW a \in Attempts, NothingToSay(a) PROVE FenceHeld' /\ FencedDelivery'
    BY <1>28, <1>c, <1>a DEF NothingToSay, FenceHeld, FencedDelivery, Moved, Left, Begun, Stages
  <1>29. ASSUME NEW a \in Attempts, WorkerDies(a) PROVE FenceHeld' /\ FencedDelivery'
    BY <1>29, <1>c, <1>a DEF WorkerDies, FenceHeld, FencedDelivery, Moved, Left, Begun, Stages
  <1>30. ASSUME NEW a \in Attempts, Heartbeat(a) PROVE FenceHeld' /\ FencedDelivery'
    BY <1>30, <1>c, <1>d, <1>t DEF Heartbeat, FenceHeld, FencedDelivery, Job
  <1>31. ASSUME NEW a \in Attempts, RunHeartbeat(a) PROVE FenceHeld' /\ FencedDelivery'
    BY <1>31, <1>c, <1>t DEF RunHeartbeat, FenceHeld, FencedDelivery, Job, Refreshed, Aged
  <1>32. ASSUME FireExpires PROVE FenceHeld' /\ FencedDelivery'
    BY <1>32, <1>c, <1>t DEF FireExpires, FenceHeld, FencedDelivery, Job, FireClaim, Aged
  <1>33. ASSUME RunExpires PROVE FenceHeld' /\ FencedDelivery'
    BY <1>33, <1>c, <1>t DEF RunExpires, FenceHeld, FencedDelivery, Job, Refreshed, Aged
  <1>34. ASSUME SlotExpires PROVE FenceHeld' /\ FencedDelivery'
    BY <1>34, <1>c, <1>t DEF SlotExpires, FenceHeld, FencedDelivery, Job, Refreshed, Aged
  <1>35. ASSUME Remove PROVE FenceHeld' /\ FencedDelivery'
    BY <1>35, <1>c, <1>d, <1>t DEF Remove, FenceHeld, FencedDelivery, Job
  <1>36. ASSUME Rearm PROVE FenceHeld' /\ FencedDelivery'
    BY <1>36, <1>c, <1>d, <1>t DEF Rearm, FenceHeld, FencedDelivery, Job
  <1>39. ASSUME Restore PROVE FenceHeld' /\ FencedDelivery'
    <2>1. PICK i \in completed : job' = RolledBack(i)
      BY <1>39 DEF Restore
    <2>2. /\ RolledBack(i) \in Job /\ RolledBack(i).fire = NoFire /\ RolledBack(i).run = NoRun
          /\ RolledBack(i).state = "scheduled"
      BY <2>1, Restorations
    <2> QED BY <1>39, <2>1, <2>2, <1>c, <1>t DEF Restore, FenceHeld, FencedDelivery, NoFire
  <1>37. ASSUME TimePasses PROVE FenceHeld' /\ FencedDelivery'
    BY <1>37, <1>c DEF TimePasses, FenceHeld, FencedDelivery
  <1>38. CASE UNCHANGED vars
    BY <1>38, <1>c DEF vars, FenceHeld, FencedDelivery
  <1> QED
    BY <1>1, <1>2, <1>3, <1>4, <1>5, <1>6, <1>7, <1>8, <1>9, <1>10, <1>11, <1>12,
         <1>13, <1>14, <1>15, <1>16, <1>17, <1>18, <1>19, <1>20, <1>21, <1>22, <1>23,
         <1>24, <1>25, <1>26, <1>27, <1>28, <1>29, <1>30, <1>31, <1>32, <1>33, <1>34,
         <1>35, <1>36, <1>37, <1>38, <1>39
    DEF Next, GatewayStep, AttemptStep, Mishap

(***************************************************************************)
(* Attempts and ticks belong to processes that are there                   *)
(***************************************************************************)
\* An attempt or a tick never outlives the process it lives in.
LEMMA HostedStep == TypeOK /\ Hosted /\ Ticking /\ [Next]_vars => Hosted' /\ Ticking'
  <1> SUFFICES ASSUME TypeOK, Hosted, Ticking, [Next]_vars PROVE Hosted' /\ Ticking'
    OBVIOUS
  <1>a. \A a \in Attempts :
          /\ \A s \in Stages : Became(a, s) => Moved(a, s) /\ att'[a].place = att[a].place
          /\ \A p \in Places : Starts(a, p) => Moved(a, "claimed") /\ att'[a].place = p
          /\ \A s \in Stages, ok \in BOOLEAN :
               Answers(a, s, ok) => Moved(a, s) /\ att'[a].place = att[a].place
          /\ Ended(a) => Left({a})
          /\ \A s \in Stages, g \in Gateways, i \in Nat : Born(a, s, g, i) => Begun(a, s, g, i)
    BY Effects
  <1>b. \A g \in Gateways, lost \in SUBSET Attempts : Goes(g, lost) => Left(lost)
    BY Effects
  <1>t. tick.inst \in Nat /\ (\A a \in Attempts : att[a] \in Attempt) /\ job \in Job
    BY DEF TypeOK
  <1>c. \A a \in Attempts : att[a].at # "idle" => att[a].gw \in Gateways /\ Alive(a)
    BY DEF Hosted
  <1>d. tick.gw # Nobody => tick.gw \in Gateways /\ up[tick.gw]
    BY DEF Ticking, TypeOK
  <1>e. \A g \in Gateways : Candidate(g) => up[g]
    BY DEF Candidate
  <1>1. ASSUME NEW g \in Gateways, ScanSkips(g) PROVE Hosted' /\ Ticking'
    BY <1>1, <1>c DEF ScanSkips, Hosted, Ticking, Alive
  <1>2. ASSUME NEW g \in Gateways, ScanRecurring(g) PROVE Hosted' /\ Ticking'
    BY <1>2, <1>c, <1>e DEF ScanRecurring, Hosted, Ticking, Alive, Due
  <1>3. ASSUME NEW g \in Gateways, ScanRetires(g) PROVE Hosted' /\ Ticking'
    BY <1>3, <1>c DEF ScanRetires, Hosted, Ticking, Alive
  <1>4. ASSUME NEW g \in Gateways, ScanOneShot(g) PROVE Hosted' /\ Ticking'
    BY <1>4, <1>c, <1>e DEF ScanOneShot, Hosted, Ticking, Alive, Due
  <1>5. ASSUME NEW g \in Gateways, Advance(g) PROVE Hosted' /\ Ticking'
    BY <1>5, <1>c DEF Advance, Hosted, Ticking, Alive
  <1>6. ASSUME NEW g \in Gateways, Submit(g) PROVE Hosted' /\ Ticking'
    BY <1>6, <1>c, <1>a, <1>t, <1>d DEF Submit, Hosted, Ticking, Alive, Moved, Left, Begun, Stages, NoTick
  <1>7. ASSUME NEW g \in Gateways, SubmitRefused(g) PROVE Hosted' /\ Ticking'
    BY <1>7, <1>c, <1>t, <1>d DEF SubmitRefused, Hosted, Ticking, Alive, NoTick
  <1>8. ASSUME NEW g \in Gateways, SubmitFails(g) PROVE Hosted' /\ Ticking'
    BY <1>8, <1>c, <1>t, <1>d DEF SubmitFails, Hosted, Ticking, Alive, NoTick
  <1>9. ASSUME NEW g \in Gateways, ManualClaim(g) PROVE Hosted' /\ Ticking'
    <2>1. up' = up /\ tick' = tick
      BY <1>9 DEF ManualClaim
    <2>2. Hosted'
      BY <1>9, <2>1, <1>a, <1>c, <1>t DEF ManualClaim, Hosted, Alive, Moved, Left, Begun, Stages, Attempt
    <2> QED BY <2>1, <2>2 DEF Ticking
  <1>10. ASSUME NEW g \in Gateways, Crash(g) PROVE Hosted' /\ Ticking'
    <2>1. PICK lost \in SUBSET Attempts :
            /\ Goes(g, lost)
            /\ \A a \in Attempts : att[a].gw = g /\ att[a].place = "gateway" => a \in lost
      BY <1>10 DEF Crash, InGateway
    <2>2. /\ \A a \in lost : att'[a].at = "idle"
          /\ \A a \in Attempts \ lost : att'[a] = att[a]
      BY <2>1, <1>b DEF Left
    <2>3. /\ \A h \in Gateways \ {g} : up'[h] = up[h]
          /\ tick' = IF tick.gw = g THEN NoTick ELSE tick
      BY <2>1 DEF Goes, TypeOK
    <2>4. Hosted'
      BY <2>1, <2>2, <2>3, <1>c, <1>t DEF Hosted, Alive, Attempt
    <2>5. Ticking'
      BY <2>3, <1>d DEF Ticking, NoTick
    <2> QED BY <2>4, <2>5
  <1>11. ASSUME NEW g \in Gateways, Shutdown(g) PROVE Hosted' /\ Ticking'
    <2>1. PICK lost \in SUBSET Attempts :
            /\ Goes(g, lost)
            /\ \A a \in Attempts : att[a].gw = g /\ att[a].place = "gateway" => a \in lost
      BY <1>11 DEF Shutdown, InGateway
    <2>2. /\ \A a \in lost : att'[a].at = "idle"
          /\ \A a \in Attempts \ lost : att'[a] = att[a]
      BY <2>1, <1>b DEF Left
    <2>3. /\ \A h \in Gateways \ {g} : up'[h] = up[h]
          /\ tick' = IF tick.gw = g THEN NoTick ELSE tick
      BY <2>1 DEF Goes, TypeOK
    <2>4. Hosted'
      BY <2>1, <2>2, <2>3, <1>c, <1>t DEF Hosted, Alive, Attempt
    <2>5. Ticking'
      BY <2>3, <1>d DEF Ticking, NoTick
    <2> QED BY <2>4, <2>5
  <1>12. ASSUME NEW a \in Attempts, Claim(a) PROVE Hosted' /\ Ticking'
    <2>1. up' = up /\ tick' = tick
      BY <1>12 DEF Claim
    <2>2. Moved(a, "claimed")
      BY <1>12, <1>a DEF Claim, Stages
    <2>3. att[a].at # "idle" /\ att[a].gw \in Gateways /\ Alive(a)
      BY <1>12, <1>c DEF Claim
    <2>4. Hosted'
      BY <1>12, <2>1, <2>2, <2>3, <1>c, <1>t DEF Claim, Hosted, Alive, Moved, Left, Attempt
    <2> QED BY <2>1, <2>4 DEF Ticking
  <1>13. ASSUME NEW a \in Attempts, ClaimRefused(a) PROVE Hosted' /\ Ticking'
    <2>1. up' = up /\ tick' = tick
      BY <1>13 DEF ClaimRefused
    <2>2. Hosted'
      BY <1>13, <2>1, <1>a, <1>c, <1>t DEF ClaimRefused, Hosted, Alive, Moved, Left, Begun, Stages, Attempt
    <2> QED BY <2>1, <2>2 DEF Ticking
  <1>14. ASSUME NEW a \in Attempts, ManualStart(a) PROVE Hosted' /\ Ticking'
    <2>1. up' = up /\ tick' = tick
      BY <1>14 DEF ManualStart
    <2>2. Moved(a, "claimed") \/ Left({a})
      BY <1>14, <1>a DEF ManualStart, Stages
    <2>3. att[a].at # "idle" /\ att[a].gw \in Gateways /\ Alive(a)
      BY <1>14, <1>c DEF ManualStart
    <2>4. Hosted'
      BY <1>14, <2>1, <2>2, <2>3, <1>c, <1>t DEF ManualStart, Hosted, Alive, Moved, Left, Attempt
    <2> QED BY <2>1, <2>4 DEF Ticking
  <1>15. ASSUME NEW a \in Attempts, Validate(a) PROVE Hosted' /\ Ticking'
    <2>1. up' = up /\ tick' = tick
      BY <1>15 DEF Validate
    <2>2. Hosted'
      BY <1>15, <2>1, <1>a, <1>c, <1>t DEF Validate, Hosted, Alive, Moved, Left, Begun, Stages, Attempt
    <2> QED BY <2>1, <2>2 DEF Ticking
  <1>16. ASSUME NEW a \in Attempts, Dispatch(a) PROVE Hosted' /\ Ticking'
    <2>1. up' = up /\ tick' = tick
      BY <1>16 DEF Dispatch
    <2>2. (Moved(a, "started") /\ att'[a].place = att[a].place) \/ Left({a})
      BY <1>16, <1>a DEF Dispatch, Stages
    <2>3. att[a].at # "idle" /\ att[a].gw \in Gateways /\ Alive(a)
      BY <1>16, <1>c DEF Dispatch
    <2>4. Hosted'
      BY <1>16, <2>1, <2>2, <2>3, <1>c, <1>t DEF Hosted, Alive, Moved, Left, Attempt
    <2> QED BY <2>1, <2>4 DEF Ticking
  <1>17. ASSUME NEW a \in Attempts, Returns(a) PROVE Hosted' /\ Ticking'
    <2>1. up' = up /\ tick' = tick
      BY <1>17 DEF Returns
    <2>2. Hosted'
      BY <1>17, <2>1, <1>a, <1>c, <1>t DEF Returns, Hosted, Alive, Moved, Left, Begun, Stages, Attempt
    <2> QED BY <2>1, <2>2 DEF Ticking
  <1>18. ASSUME NEW a \in Attempts, SaveOutput(a) PROVE Hosted' /\ Ticking'
    <2>1. up' = up /\ tick' = tick
      BY <1>18 DEF SaveOutput
    <2>2. Hosted'
      BY <1>18, <2>1, <1>a, <1>c, <1>t DEF SaveOutput, Hosted, Alive, Moved, Left, Begun, Stages, Attempt
    <2> QED BY <2>1, <2>2 DEF Ticking
  <1>19. ASSUME NEW a \in Attempts, Deliver(a) PROVE Hosted' /\ Ticking'
    <2>1. up' = up /\ tick' = tick
      BY <1>19 DEF Deliver
    <2>2. Hosted'
      BY <1>19, <2>1, <1>a, <1>c, <1>t DEF Deliver, Hosted, Alive, Moved, Left, Begun, Stages, Attempt
    <2> QED BY <2>1, <2>2 DEF Ticking
  <1>20. ASSUME NEW a \in Attempts, Delivered(a) PROVE Hosted' /\ Ticking'
    <2>1. up' = up /\ tick' = tick
      BY <1>20 DEF Delivered
    <2>2. Hosted'
      BY <1>20, <2>1, <1>a, <1>c, <1>t DEF Delivered, Hosted, Alive, Moved, Left, Begun, Stages, Attempt
    <2> QED BY <2>1, <2>2 DEF Ticking
  <1>21. ASSUME NEW a \in Attempts, Closes(a) PROVE Hosted' /\ Ticking'
    <2>1. up' = up /\ tick' = tick
      BY <1>21 DEF Closes, IfMine
    <2>2. Hosted'
      BY <1>21, <2>1, <1>a, <1>c, <1>t DEF Closes, IfMine, Hosted, Alive, Moved, Left, Begun, Stages, Attempt
    <2> QED BY <2>1, <2>2 DEF Ticking
  <1>22. ASSUME NEW a \in Attempts, Mark(a) PROVE Hosted' /\ Ticking'
    <2>1. up' = up /\ tick' = tick
      BY <1>22 DEF Mark
    <2>2. Hosted'
      BY <1>22, <2>1, <1>a, <1>c, <1>t DEF Mark, Hosted, Alive, Moved, Left, Begun, Stages, Attempt
    <2> QED BY <2>1, <2>2 DEF Ticking
  <1>23. ASSUME NEW a \in Attempts, Finish(a) PROVE Hosted' /\ Ticking'
    <2>1. up' = up /\ tick' = tick
      BY <1>23 DEF Finish
    <2>2. Hosted'
      BY <1>23, <2>1, <1>a, <1>c, <1>t DEF Finish, Hosted, Alive, Moved, Left, Begun, Stages, Attempt
    <2> QED BY <2>1, <2>2 DEF Ticking
  <1>24. ASSUME NEW a \in Attempts, LaunchFails(a) PROVE Hosted' /\ Ticking'
    <2>1. up' = up /\ tick' = tick
      BY <1>24 DEF LaunchFails
    <2>2. Hosted'
      BY <1>24, <2>1, <1>a, <1>c, <1>t DEF LaunchFails, Hosted, Alive, Moved, Left, Begun, Stages, Attempt
    <2> QED BY <2>1, <2>2 DEF Ticking
  <1>25. ASSUME NEW a \in Attempts, LedgerRefuses(a) PROVE Hosted' /\ Ticking'
    <2>1. up' = up /\ tick' = tick
      BY <1>25 DEF LedgerRefuses
    <2>2. Hosted'
      BY <1>25, <2>1, <1>a, <1>c, <1>t DEF LedgerRefuses, Hosted, Alive, Moved, Left, Begun, Stages, Attempt
    <2> QED BY <2>1, <2>2 DEF Ticking
  <1>26. ASSUME NEW a \in Attempts, Cancelled(a) PROVE Hosted' /\ Ticking'
    <2>1. up' = up /\ tick' = tick
      BY <1>26 DEF Cancelled
    <2>2. Moved(a, "closing") /\ att'[a].place = att[a].place
      BY <1>26, <1>a DEF Cancelled, Stages
    <2>3. att[a].at # "idle" /\ att[a].gw \in Gateways /\ Alive(a)
      BY <1>26, <1>c DEF Cancelled
    <2>4. Hosted'
      BY <1>26, <2>1, <2>2, <2>3, <1>c, <1>t DEF Hosted, Alive, Moved, Left, Attempt
    <2> QED BY <2>1, <2>4 DEF Ticking
  <1>27. ASSUME NEW a \in Attempts, Raises(a) PROVE Hosted' /\ Ticking'
    <2>1. up' = up /\ tick' = tick
      BY <1>27 DEF Raises, IfMine
    <2>2. Hosted'
      BY <1>27, <2>1, <1>a, <1>c, <1>t DEF Raises, IfMine, Hosted, Alive, Moved, Left, Begun, Stages, Attempt
    <2> QED BY <2>1, <2>2 DEF Ticking
  <1>28. ASSUME NEW a \in Attempts, NothingToSay(a) PROVE Hosted' /\ Ticking'
    <2>1. up' = up /\ tick' = tick
      BY <1>28 DEF NothingToSay
    <2>2. Hosted'
      BY <1>28, <2>1, <1>a, <1>c, <1>t DEF NothingToSay, Hosted, Alive, Moved, Left, Begun, Stages, Attempt
    <2> QED BY <2>1, <2>2 DEF Ticking
  <1>29. ASSUME NEW a \in Attempts, WorkerDies(a) PROVE Hosted' /\ Ticking'
    <2>1. up' = up /\ tick' = tick
      BY <1>29 DEF WorkerDies
    <2>2. Hosted'
      BY <1>29, <2>1, <1>a, <1>c, <1>t DEF WorkerDies, Hosted, Alive, Moved, Left, Begun, Stages, Attempt
    <2> QED BY <2>1, <2>2 DEF Ticking
  <1>30. ASSUME NEW a \in Attempts, Heartbeat(a) PROVE Hosted' /\ Ticking'
    BY <1>30, <1>c DEF Heartbeat, Hosted, Ticking, Alive
  <1>31. ASSUME NEW a \in Attempts, RunHeartbeat(a) PROVE Hosted' /\ Ticking'
    BY <1>31, <1>c DEF RunHeartbeat, Hosted, Ticking, Alive
  <1>32. ASSUME FireExpires PROVE Hosted' /\ Ticking'
    BY <1>32, <1>c DEF FireExpires, Hosted, Ticking, Alive
  <1>33. ASSUME RunExpires PROVE Hosted' /\ Ticking'
    BY <1>33, <1>c DEF RunExpires, Hosted, Ticking, Alive
  <1>34. ASSUME SlotExpires PROVE Hosted' /\ Ticking'
    BY <1>34, <1>c DEF SlotExpires, Hosted, Ticking, Alive
  <1>35. ASSUME Remove PROVE Hosted' /\ Ticking'
    BY <1>35, <1>c DEF Remove, Hosted, Ticking, Alive
  <1>36. ASSUME Rearm PROVE Hosted' /\ Ticking'
    BY <1>36, <1>c DEF Rearm, Hosted, Ticking, Alive
  <1>39. ASSUME Restore PROVE Hosted' /\ Ticking'
    BY <1>39, <1>c DEF Restore, Hosted, Ticking, Alive
  <1>37. ASSUME TimePasses PROVE Hosted' /\ Ticking'
    BY <1>37, <1>c DEF TimePasses, Hosted, Ticking, Alive
  <1>38. CASE UNCHANGED vars
    BY <1>38, <1>c DEF vars, Hosted, Ticking, Alive
  <1> QED
    BY <1>1, <1>2, <1>3, <1>4, <1>5, <1>6, <1>7, <1>8, <1>9, <1>10, <1>11, <1>12,
         <1>13, <1>14, <1>15, <1>16, <1>17, <1>18, <1>19, <1>20, <1>21, <1>22, <1>23,
         <1>24, <1>25, <1>26, <1>27, <1>28, <1>29, <1>30, <1>31, <1>32, <1>33, <1>34,
         <1>35, <1>36, <1>37, <1>38, <1>39
    DEF Next, GatewayStep, AttemptStep, Mishap

(***************************************************************************)
(* Records that are gone carry no claim                                    *)
(***************************************************************************)
\* A record that is gone keeps no claim, and a recurring job never has a run claim.
LEMMA ClearStep == TypeOK /\ Hosted /\ ClaimsCleared /\ [Next]_vars => ClaimsCleared'
  <1> SUFFICES ASSUME TypeOK, Hosted, ClaimsCleared, [Next]_vars PROVE ClaimsCleared'
    OBVIOUS
  <1>a. \A a \in Attempts :
          /\ \A s \in Stages : Became(a, s) => Moved(a, s) /\ att'[a].place = att[a].place
          /\ \A p \in Places : Starts(a, p) => Moved(a, "claimed") /\ att'[a].place = p
          /\ \A s \in Stages, ok \in BOOLEAN :
               Answers(a, s, ok) => Moved(a, s) /\ att'[a].place = att[a].place
          /\ Ended(a) => Left({a})
          /\ \A s \in Stages, g \in Gateways, i \in Nat : Born(a, s, g, i) => Begun(a, s, g, i)
    BY Effects
  <1>b. \A g \in Gateways, lost \in SUBSET Attempts : Goes(g, lost) => Left(lost)
    BY Effects
  <1>t. tick.inst \in Nat /\ (\A a \in Attempts : att[a] \in Attempt) /\ job \in Job
    BY DEF TypeOK
  <1>c. /\ Beaten.kind = job.kind /\ Beaten.state = job.state /\ Beaten.run = job.run
        /\ Recorded.kind = job.kind /\ Recorded.fire = NoFire /\ Recorded.run = NoRun
        /\ Recorded.state \in {"scheduled", "completed"}
        /\ Gone("retired").kind = job.kind /\ Gone("deleted").kind = job.kind
        /\ Gone("retired").fire = NoFire /\ Gone("retired").run = NoRun
        /\ Gone("deleted").fire = NoFire /\ Gone("deleted").run = NoRun
    BY Fields
  <1>d. \A g \in Gateways :
          /\ Restored(g) \in Job /\ Restored(g).kind = job.kind /\ Restored(g).state = job.state
          /\ Restored(g).fire = job.fire /\ Restored(g).run = job.run
    BY Fields, Records
  <1>e. /\ NoFire.by = Nobody /\ ~NoFire.fresh /\ ~NoRun.fresh /\ NoRun.host = Nobody
        /\ Nobody \notin Attempts /\ Nobody \notin Gateways
    BY DEF NoFire, NoRun
  <1>f. \A g \in Gateways : Due(g) => Scheduled
    BY DEF Due, Candidate
  <1>1. ASSUME NEW g \in Gateways, ScanSkips(g) PROVE ClaimsCleared'
    BY <1>1, <1>c, <1>d, <1>e, <1>f, <1>t DEF ScanSkips, ClaimsCleared, Stored, Recurring, Scheduled, Candidate, Job
  <1>2. ASSUME NEW g \in Gateways, ScanRecurring(g) PROVE ClaimsCleared'
    BY <1>2, <1>c, <1>d, <1>e, <1>f, <1>t DEF ScanRecurring, ClaimsCleared, Stored, Recurring, Scheduled, Candidate, Job
  <1>3. ASSUME NEW g \in Gateways, ScanRetires(g) PROVE ClaimsCleared'
    BY <1>3, <1>c, <1>d, <1>e, <1>f, <1>t DEF ScanRetires, ClaimsCleared, Stored, Recurring, Scheduled, Candidate, Job
  <1>4. ASSUME NEW g \in Gateways, ScanOneShot(g) PROVE ClaimsCleared'
    BY <1>4, <1>c, <1>d, <1>e, <1>f, <1>t DEF ScanOneShot, ClaimsCleared, Stored, Recurring, Scheduled, Candidate, Job
  <1>5. ASSUME NEW g \in Gateways, Advance(g) PROVE ClaimsCleared'
    BY <1>5, <1>c, <1>d, <1>e, <1>f, <1>t DEF Advance, ClaimsCleared, Stored, Recurring, Scheduled, Candidate, Job
  <1>6. ASSUME NEW g \in Gateways, Submit(g) PROVE ClaimsCleared'
    BY <1>6, <1>c DEF Submit, ClaimsCleared, Stored, Recurring, Scheduled
  <1>7. ASSUME NEW g \in Gateways, SubmitRefused(g) PROVE ClaimsCleared'
    BY <1>7, <1>c DEF SubmitRefused, ClaimsCleared, Stored, Recurring, Scheduled
  <1>8. ASSUME NEW g \in Gateways, SubmitFails(g) PROVE ClaimsCleared'
    BY <1>8, <1>c, <1>d, <1>e, <1>f, <1>t DEF SubmitFails, ClaimsCleared, Stored, Recurring, Scheduled, Candidate, Job
  <1>9. ASSUME NEW g \in Gateways, ManualClaim(g) PROVE ClaimsCleared'
    BY <1>9, <1>c, <1>t DEF ManualClaim, ClaimsCleared, Stored, Recurring, Scheduled, Claimable, Grant, Job
  <1>10. ASSUME NEW g \in Gateways, Crash(g) PROVE ClaimsCleared'
    BY <1>10, <1>c DEF Crash, ClaimsCleared, Stored, Recurring, Scheduled
  <1>11. ASSUME NEW g \in Gateways, Shutdown(g) PROVE ClaimsCleared'
    BY <1>11, <1>c DEF Shutdown, ClaimsCleared, Stored, Recurring, Scheduled
  <1>12. ASSUME NEW a \in Attempts, Claim(a) PROVE ClaimsCleared'
    BY <1>12, <1>c, <1>t DEF Claim, ClaimsCleared, Stored, Recurring, Scheduled, Claimable, Grant, Job
  <1>13. ASSUME NEW a \in Attempts, ClaimRefused(a) PROVE ClaimsCleared'
    BY <1>13, <1>c, <1>t DEF ClaimRefused, ClaimsCleared, Stored, Recurring, Scheduled, Claimable, Job
  <1>14. ASSUME NEW a \in Attempts, ManualStart(a) PROVE ClaimsCleared'
    BY <1>14, <1>c DEF ManualStart, ClaimsCleared, Stored, Recurring, Scheduled
  <1>15. ASSUME NEW a \in Attempts, Validate(a) PROVE ClaimsCleared'
    BY <1>15, <1>c, <1>e DEF Validate, ClaimsCleared, Stored, Recurring, Scheduled, Mine
  <1>16. ASSUME NEW a \in Attempts, Dispatch(a) PROVE ClaimsCleared'
    BY <1>16, <1>c, <1>t DEF Dispatch, ClaimsCleared, Stored, Recurring, Scheduled, Dispatched, Job
  <1>17. ASSUME NEW a \in Attempts, Returns(a) PROVE ClaimsCleared'
    BY <1>17, <1>c, <1>e DEF Returns, ClaimsCleared, Stored, Recurring, Scheduled, Mine
  <1>18. ASSUME NEW a \in Attempts, SaveOutput(a) PROVE ClaimsCleared'
    BY <1>18, <1>c DEF SaveOutput, ClaimsCleared, Stored, Recurring, Scheduled
  <1>19. ASSUME NEW a \in Attempts, Deliver(a) PROVE ClaimsCleared'
    BY <1>19, <1>c DEF Deliver, ClaimsCleared, Stored, Recurring, Scheduled
  <1>20. ASSUME NEW a \in Attempts, Delivered(a) PROVE ClaimsCleared'
    BY <1>20, <1>c DEF Delivered, ClaimsCleared, Stored, Recurring, Scheduled
  <1>21. ASSUME NEW a \in Attempts, Closes(a) PROVE ClaimsCleared'
    BY <1>21, <1>c, <1>e DEF Closes, ClaimsCleared, Stored, Recurring, Scheduled, IfMine, Mine
  <1>22. ASSUME NEW a \in Attempts, Mark(a) PROVE ClaimsCleared'
    BY <1>22, <1>c DEF Mark, ClaimsCleared, Stored, Recurring, Scheduled
  <1>23. ASSUME NEW a \in Attempts, Finish(a) PROVE ClaimsCleared'
    BY <1>23, <1>c DEF Finish, ClaimsCleared, Stored, Recurring, Scheduled
  <1>24. ASSUME NEW a \in Attempts, LaunchFails(a) PROVE ClaimsCleared'
    BY <1>24, <1>c DEF LaunchFails, ClaimsCleared, Stored, Recurring, Scheduled
  <1>25. ASSUME NEW a \in Attempts, LedgerRefuses(a) PROVE ClaimsCleared'
    BY <1>25, <1>c DEF LedgerRefuses, ClaimsCleared, Stored, Recurring, Scheduled
  <1>26. ASSUME NEW a \in Attempts, Cancelled(a) PROVE ClaimsCleared'
    BY <1>26, <1>c, <1>e DEF Cancelled, ClaimsCleared, Stored, Recurring, Scheduled, Mine
  <1>27. ASSUME NEW a \in Attempts, Raises(a) PROVE ClaimsCleared'
    BY <1>27, <1>c, <1>e DEF Raises, ClaimsCleared, Stored, Recurring, Scheduled, IfMine, Mine
  <1>28. ASSUME NEW a \in Attempts, NothingToSay(a) PROVE ClaimsCleared'
    BY <1>28, <1>c DEF NothingToSay, ClaimsCleared, Stored, Recurring, Scheduled
  <1>29. ASSUME NEW a \in Attempts, WorkerDies(a) PROVE ClaimsCleared'
    BY <1>29, <1>c DEF WorkerDies, ClaimsCleared, Stored, Recurring, Scheduled
  <1>30. ASSUME NEW a \in Attempts, Heartbeat(a) PROVE ClaimsCleared'
    BY <1>30, <1>c, <1>e DEF Heartbeat, ClaimsCleared, Stored, Recurring, Scheduled, Mine
  <1>31. ASSUME NEW a \in Attempts, RunHeartbeat(a) PROVE ClaimsCleared'
    <2>1. att[a].gw \in Gateways
      BY <1>31 DEF RunHeartbeat, Beating, Hosted
    <2>2. job.run # NoRun
      BY <1>31, <2>1, <1>e DEF RunHeartbeat
    <2>3. Stored /\ ~Recurring
      BY <2>2 DEF ClaimsCleared
    <2>4. job'.kind = job.kind /\ job'.state = job.state
      BY <1>31, <1>t DEF RunHeartbeat, Job
    <2> QED BY <2>3, <2>4 DEF ClaimsCleared, Stored, Recurring
  <1>32. ASSUME FireExpires PROVE ClaimsCleared'
    BY <1>32, <1>c, <1>e, <1>t DEF FireExpires, ClaimsCleared, Stored, Recurring, Scheduled, Job, Aged
  <1>33. ASSUME RunExpires PROVE ClaimsCleared'
    BY <1>33, <1>c, <1>e, <1>t DEF RunExpires, ClaimsCleared, Stored, Recurring, Scheduled, Job, Aged
  <1>34. ASSUME SlotExpires PROVE ClaimsCleared'
    BY <1>34, <1>c, <1>d, <1>e, <1>f, <1>t DEF SlotExpires, ClaimsCleared, Stored, Recurring, Scheduled, Candidate, Job
  <1>35. ASSUME Remove PROVE ClaimsCleared'
    BY <1>35, <1>c, <1>d, <1>e, <1>f, <1>t DEF Remove, ClaimsCleared, Stored, Recurring, Scheduled, Candidate, Job
  <1>36. ASSUME Rearm PROVE ClaimsCleared'
    BY <1>36, <1>c, <1>d, <1>e, <1>f, <1>t DEF Rearm, ClaimsCleared, Stored, Recurring, Scheduled, Candidate, Job
  <1>39. ASSUME Restore PROVE ClaimsCleared'
    <2>1. PICK i \in completed : job' = RolledBack(i)
      BY <1>39 DEF Restore
    <2>2. /\ RolledBack(i) \in Job /\ RolledBack(i).fire = NoFire /\ RolledBack(i).run = NoRun
          /\ RolledBack(i).state = "scheduled"
      BY <2>1, Restorations
    <2> QED BY <1>39, <2>1, <2>2, <1>c, <1>t DEF Restore, ClaimsCleared, Stored, Recurring
  <1>37. ASSUME TimePasses PROVE ClaimsCleared'
    BY <1>37, <1>c DEF TimePasses, ClaimsCleared, Stored, Recurring, Scheduled
  <1>38. CASE UNCHANGED vars
    BY <1>38, <1>c DEF vars, ClaimsCleared, Stored, Recurring, Scheduled
  <1> QED
    BY <1>1, <1>2, <1>3, <1>4, <1>5, <1>6, <1>7, <1>8, <1>9, <1>10, <1>11, <1>12,
         <1>13, <1>14, <1>15, <1>16, <1>17, <1>18, <1>19, <1>20, <1>21, <1>22, <1>23,
         <1>24, <1>25, <1>26, <1>27, <1>28, <1>29, <1>30, <1>31, <1>32, <1>33, <1>34,
         <1>35, <1>36, <1>37, <1>38, <1>39
    DEF Next, GatewayStep, AttemptStep, Mishap

(***************************************************************************)
(* The stamp of a run claim stays young while its gateway has work         *)
(***************************************************************************)
\* A run claim is young as long as its gateway has an attempt or a tick for the job.
LEMMA KeptStep == TypeOK /\ Hosted /\ Ticking /\ ClaimsCleared /\ RunKept /\ [Next]_vars => RunKept'
  <1> SUFFICES ASSUME TypeOK, Hosted, Ticking, ClaimsCleared, RunKept, [Next]_vars PROVE RunKept'
    OBVIOUS
  <1>a. \A a \in Attempts :
          /\ \A s \in Stages : Became(a, s) => Moved(a, s) /\ att'[a].place = att[a].place
          /\ \A p \in Places : Starts(a, p) => Moved(a, "claimed") /\ att'[a].place = p
          /\ \A s \in Stages, ok \in BOOLEAN :
               Answers(a, s, ok) => Moved(a, s) /\ att'[a].place = att[a].place
          /\ Ended(a) => Left({a})
          /\ \A s \in Stages, g \in Gateways, i \in Nat : Born(a, s, g, i) => Begun(a, s, g, i)
    BY Effects
  <1>b. \A g \in Gateways, lost \in SUBSET Attempts : Goes(g, lost) => Left(lost)
    BY Effects
  <1>t. tick.inst \in Nat /\ (\A a \in Attempts : att[a] \in Attempt) /\ job \in Job
    BY DEF TypeOK
  <1>c. \A a \in Attempts : att[a].at # "idle" => att[a].gw \in Gateways /\ Alive(a)
    BY DEF Hosted
  <1>d. /\ Beaten.run = job.run /\ Recorded.run = NoRun
        /\ Gone("retired").run = NoRun /\ Gone("deleted").run = NoRun
        /\ \A g \in Gateways : Restored(g) \in Job /\ Restored(g).run = job.run
    BY Fields, Records
  <1>e. NoRun.host = Nobody /\ Nobody \notin Gateways
    BY DEF NoRun
  <1>k. ASSUME \A h \in Gateways : Serving(h)' => Serving(h),
               job'.run = job.run \/ job'.run = NoRun \/ job'.run.fresh
        PROVE  RunKept'
    BY <1>k, <1>e DEF RunKept
  <1>l. ASSUME job'.run = NoRun \/ job'.run.fresh PROVE RunKept'
    BY <1>l, <1>e DEF RunKept
  <1>1. ASSUME NEW g \in Gateways, ScanSkips(g) PROVE RunKept'
    <2>1. \A h \in Gateways : Serving(h)' => Serving(h)
      BY <1>1, <1>c, <1>t DEF ScanSkips, Serving, Beaten
    <2>2. job'.run = job.run \/ job'.run = NoRun \/ job'.run.fresh
      BY <1>1, <1>d, <1>t DEF ScanSkips, Job
    <2> QED BY <2>1, <2>2, <1>k
  <1>2. ASSUME NEW g \in Gateways, ScanRecurring(g) PROVE RunKept'
    <2>1. job'.run = Restored(g).run
      BY <1>2, <1>d DEF ScanRecurring, Job
    <2>2. job.run = NoRun
      BY <1>2 DEF ScanRecurring, ClaimsCleared
    <2> QED BY <2>1, <2>2, <1>d, <1>l
  <1>3. ASSUME NEW g \in Gateways, ScanRetires(g) PROVE RunKept'
    <2>1. \A h \in Gateways : Serving(h)' => Serving(h)
      BY <1>3, <1>c, <1>t DEF ScanRetires, Serving, Beaten
    <2>2. job'.run = job.run \/ job'.run = NoRun \/ job'.run.fresh
      BY <1>3, <1>d, <1>t DEF ScanRetires, Job
    <2> QED BY <2>1, <2>2, <1>k
  <1>4. ASSUME NEW g \in Gateways, ScanOneShot(g) PROVE RunKept'
    <2>1. job'.run.fresh
      BY <1>4, <1>t DEF ScanOneShot, Job
    <2> QED BY <2>1, <1>l
  <1>5. ASSUME NEW g \in Gateways, Advance(g) PROVE RunKept'
    <2>1. \A h \in Gateways : Serving(h)' => Serving(h)
      BY <1>5, <1>c, <1>t DEF Advance, Serving, Beaten
    <2>2. job'.run = job.run \/ job'.run = NoRun \/ job'.run.fresh
      BY <1>5, <1>d, <1>t DEF Advance, Job
    <2> QED BY <2>1, <2>2, <1>k
  <1>6. ASSUME NEW g \in Gateways, Submit(g) PROVE RunKept'
    <2>1. \A h \in Gateways : Serving(h)' => Serving(h)
      BY <1>6, <1>c, <1>t, <1>a, <1>e DEF Submit, Serving, Moved, Left, Begun, Stages, NoTick, Unused
    <2>2. job'.run = job.run \/ job'.run = NoRun \/ job'.run.fresh
      BY <1>6, <1>d, <1>t DEF Submit, Job
    <2> QED BY <2>1, <2>2, <1>k
  <1>7. ASSUME NEW g \in Gateways, SubmitRefused(g) PROVE RunKept'
    <2>1. \A h \in Gateways : Serving(h)' => Serving(h)
      BY <1>7, <1>c, <1>t, <1>e DEF SubmitRefused, Serving, NoTick
    <2>2. job'.run = job.run \/ job'.run = NoRun \/ job'.run.fresh
      BY <1>7, <1>d, <1>t DEF SubmitRefused, Job
    <2> QED BY <2>1, <2>2, <1>k
  <1>8. ASSUME NEW g \in Gateways, SubmitFails(g) PROVE RunKept'
    <2>1. \A h \in Gateways : Serving(h)' => Serving(h)
      BY <1>8, <1>c, <1>t, <1>e DEF SubmitFails, Serving, NoTick
    <2>2. job'.run = job.run \/ job'.run = NoRun \/ job'.run.fresh
      BY <1>8, <1>d, <1>t DEF SubmitFails, Job
    <2> QED BY <2>1, <2>2, <1>k
  <1>9. ASSUME NEW g \in Gateways, ManualClaim(g) PROVE RunKept'
    <2>1. \A h \in Gateways : Serving(h)' => Serving(h)
      BY <1>9, <1>c, <1>t, <1>a DEF ManualClaim, Serving, Moved, Left, Begun, Stages
    <2>2. job'.run = job.run \/ job'.run = NoRun \/ job'.run.fresh
      BY <1>9, <1>d, <1>t DEF ManualClaim, Job, Grant
    <2> QED BY <2>1, <2>2, <1>k
  <1>10. ASSUME NEW g \in Gateways, Crash(g) PROVE RunKept'
    <2>1. PICK lost \in SUBSET Attempts : Goes(g, lost)
      BY <1>10 DEF Crash
    <2>2. /\ \A a \in lost : att'[a].at = "idle"
          /\ \A a \in Attempts \ lost : att'[a] = att[a]
          /\ tick' = tick \/ tick' = NoTick
      BY <2>1, <1>b DEF Left, Goes
    <2>3. \A h \in Gateways : Serving(h)' => Serving(h)
      BY <2>2 DEF Serving, NoTick
    <2>4. job'.run = job.run \/ job'.run = NoRun
      BY <1>10, <1>d DEF Crash
    <2> QED BY <2>3, <2>4, <1>k
  <1>11. ASSUME NEW g \in Gateways, Shutdown(g) PROVE RunKept'
    <2>1. PICK lost \in SUBSET Attempts : Goes(g, lost)
      BY <1>11 DEF Shutdown
    <2>2. /\ \A a \in lost : att'[a].at = "idle"
          /\ \A a \in Attempts \ lost : att'[a] = att[a]
          /\ tick' = tick \/ tick' = NoTick
      BY <2>1, <1>b DEF Left, Goes
    <2>3. \A h \in Gateways : Serving(h)' => Serving(h)
      BY <2>2 DEF Serving, NoTick
    <2>4. job'.run = job.run \/ job'.run = NoRun
      BY <1>11, <1>d DEF Shutdown
    <2> QED BY <2>3, <2>4, <1>k
  <1>12. ASSUME NEW a \in Attempts, Claim(a) PROVE RunKept'
    <2>1. \A h \in Gateways : Serving(h)' => Serving(h)
      BY <1>12, <1>c, <1>t, <1>a DEF Claim, Serving, Moved, Left, Begun, Stages
    <2>2. job'.run = job.run \/ job'.run = NoRun \/ job'.run.fresh
      BY <1>12, <1>d, <1>t DEF Claim, Job, IfMine, Dispatched, Claimable, Grant
    <2> QED BY <2>1, <2>2, <1>k
  <1>13. ASSUME NEW a \in Attempts, ClaimRefused(a) PROVE RunKept'
    <2>1. \A h \in Gateways : Serving(h)' => Serving(h)
      BY <1>13, <1>c, <1>t, <1>a DEF ClaimRefused, Serving, Moved, Left, Begun, Stages
    <2>2. job'.run = job.run \/ job'.run = NoRun \/ job'.run.fresh
      BY <1>13, <1>d, <1>t DEF ClaimRefused, Job, IfMine, Dispatched, Claimable, Grant
    <2> QED BY <2>1, <2>2, <1>k
  <1>14. ASSUME NEW a \in Attempts, ManualStart(a) PROVE RunKept'
    <2>1. \A h \in Gateways : Serving(h)' => Serving(h)
      BY <1>14, <1>c, <1>t, <1>a DEF ManualStart, Serving, Moved, Left, Begun, Stages
    <2>2. job'.run = job.run \/ job'.run = NoRun \/ job'.run.fresh
      BY <1>14, <1>d, <1>t DEF ManualStart, Job, IfMine, Dispatched, Claimable, Grant
    <2> QED BY <2>1, <2>2, <1>k
  <1>15. ASSUME NEW a \in Attempts, Validate(a) PROVE RunKept'
    <2>1. \A h \in Gateways : Serving(h)' => Serving(h)
      BY <1>15, <1>c, <1>t, <1>a DEF Validate, Serving, Moved, Left, Begun, Stages
    <2>2. job'.run = job.run \/ job'.run = NoRun \/ job'.run.fresh
      BY <1>15, <1>d, <1>t DEF Validate, Job, IfMine, Dispatched, Claimable, Grant
    <2> QED BY <2>1, <2>2, <1>k
  <1>16. ASSUME NEW a \in Attempts, Dispatch(a) PROVE RunKept'
    <2>1. \A h \in Gateways : Serving(h)' => Serving(h)
      BY <1>16, <1>c, <1>t, <1>a DEF Dispatch, Serving, Moved, Left, Begun, Stages
    <2>2. job'.run = job.run \/ job'.run = NoRun \/ job'.run.fresh
      BY <1>16, <1>d, <1>t DEF Dispatch, Job, IfMine, Dispatched, Claimable, Grant
    <2> QED BY <2>1, <2>2, <1>k
  <1>17. ASSUME NEW a \in Attempts, Returns(a) PROVE RunKept'
    <2>1. \A h \in Gateways : Serving(h)' => Serving(h)
      BY <1>17, <1>c, <1>t, <1>a DEF Returns, Serving, Moved, Left, Begun, Stages
    <2>2. job'.run = job.run \/ job'.run = NoRun \/ job'.run.fresh
      BY <1>17, <1>d, <1>t DEF Returns, Job, IfMine, Dispatched, Claimable, Grant
    <2> QED BY <2>1, <2>2, <1>k
  <1>18. ASSUME NEW a \in Attempts, SaveOutput(a) PROVE RunKept'
    <2>1. \A h \in Gateways : Serving(h)' => Serving(h)
      BY <1>18, <1>c, <1>t, <1>a DEF SaveOutput, Serving, Moved, Left, Begun, Stages
    <2>2. job'.run = job.run \/ job'.run = NoRun \/ job'.run.fresh
      BY <1>18, <1>d, <1>t DEF SaveOutput, Job, IfMine, Dispatched, Claimable, Grant
    <2> QED BY <2>1, <2>2, <1>k
  <1>19. ASSUME NEW a \in Attempts, Deliver(a) PROVE RunKept'
    <2>1. \A h \in Gateways : Serving(h)' => Serving(h)
      BY <1>19, <1>c, <1>t, <1>a DEF Deliver, Serving, Moved, Left, Begun, Stages
    <2>2. job'.run = job.run \/ job'.run = NoRun \/ job'.run.fresh
      BY <1>19, <1>d, <1>t DEF Deliver, Job, IfMine, Dispatched, Claimable, Grant
    <2> QED BY <2>1, <2>2, <1>k
  <1>20. ASSUME NEW a \in Attempts, Delivered(a) PROVE RunKept'
    <2>1. \A h \in Gateways : Serving(h)' => Serving(h)
      BY <1>20, <1>c, <1>t, <1>a DEF Delivered, Serving, Moved, Left, Begun, Stages
    <2>2. job'.run = job.run \/ job'.run = NoRun \/ job'.run.fresh
      BY <1>20, <1>d, <1>t DEF Delivered, Job, IfMine, Dispatched, Claimable, Grant
    <2> QED BY <2>1, <2>2, <1>k
  <1>21. ASSUME NEW a \in Attempts, Closes(a) PROVE RunKept'
    <2>1. \A h \in Gateways : Serving(h)' => Serving(h)
      BY <1>21, <1>c, <1>t, <1>a DEF Closes, Serving, Moved, Left, Begun, Stages, IfMine
    <2>2. job'.run = job.run \/ job'.run = NoRun \/ job'.run.fresh
      BY <1>21, <1>d, <1>t DEF Closes, Job, IfMine
    <2> QED BY <2>1, <2>2, <1>k
  <1>22. ASSUME NEW a \in Attempts, Mark(a) PROVE RunKept'
    <2>1. \A h \in Gateways : Serving(h)' => Serving(h)
      BY <1>22, <1>c, <1>t, <1>a DEF Mark, Serving, Moved, Left, Begun, Stages
    <2>2. job'.run = job.run \/ job'.run = NoRun \/ job'.run.fresh
      BY <1>22, <1>d, <1>t DEF Mark, Job, IfMine, Dispatched, Claimable, Grant
    <2> QED BY <2>1, <2>2, <1>k
  <1>23. ASSUME NEW a \in Attempts, Finish(a) PROVE RunKept'
    <2>1. \A h \in Gateways : Serving(h)' => Serving(h)
      BY <1>23, <1>c, <1>t, <1>a DEF Finish, Serving, Moved, Left, Begun, Stages
    <2>2. job'.run = job.run \/ job'.run = NoRun \/ job'.run.fresh
      BY <1>23, <1>d, <1>t DEF Finish, Job, IfMine, Dispatched, Claimable, Grant
    <2> QED BY <2>1, <2>2, <1>k
  <1>24. ASSUME NEW a \in Attempts, LaunchFails(a) PROVE RunKept'
    <2>1. \A h \in Gateways : Serving(h)' => Serving(h)
      BY <1>24, <1>c, <1>t, <1>a DEF LaunchFails, Serving, Moved, Left, Begun, Stages
    <2>2. job'.run = job.run \/ job'.run = NoRun \/ job'.run.fresh
      BY <1>24, <1>d, <1>t DEF LaunchFails, Job, IfMine, Dispatched, Claimable, Grant
    <2> QED BY <2>1, <2>2, <1>k
  <1>25. ASSUME NEW a \in Attempts, LedgerRefuses(a) PROVE RunKept'
    <2>1. \A h \in Gateways : Serving(h)' => Serving(h)
      BY <1>25, <1>c, <1>t, <1>a DEF LedgerRefuses, Serving, Moved, Left, Begun, Stages
    <2>2. job'.run = job.run \/ job'.run = NoRun \/ job'.run.fresh
      BY <1>25, <1>d, <1>t DEF LedgerRefuses, Job, IfMine, Dispatched, Claimable, Grant
    <2> QED BY <2>1, <2>2, <1>k
  <1>26. ASSUME NEW a \in Attempts, Cancelled(a) PROVE RunKept'
    <2>1. Moved(a, "closing") /\ att[a].at # "idle" /\ tick' = tick
      BY <1>26, <1>a DEF Cancelled, Stages
    <2>2. \A h \in Gateways : Serving(h)' => Serving(h)
      BY <2>1, <1>t DEF Serving, Moved
    <2>3. job'.run = job.run
      BY <1>26, <1>d DEF Cancelled
    <2> QED BY <2>2, <2>3, <1>k
  <1>27. ASSUME NEW a \in Attempts, Raises(a) PROVE RunKept'
    <2>1. \A h \in Gateways : Serving(h)' => Serving(h)
      BY <1>27, <1>c, <1>t, <1>a DEF Raises, Serving, Moved, Left, Begun, Stages, IfMine
    <2>2. job'.run = job.run \/ job'.run = NoRun \/ job'.run.fresh
      BY <1>27, <1>d, <1>t DEF Raises, Job, IfMine
    <2> QED BY <2>1, <2>2, <1>k
  <1>28. ASSUME NEW a \in Attempts, NothingToSay(a) PROVE RunKept'
    <2>1. \A h \in Gateways : Serving(h)' => Serving(h)
      BY <1>28, <1>c, <1>t, <1>a DEF NothingToSay, Serving, Moved, Left, Begun, Stages
    <2>2. job'.run = job.run \/ job'.run = NoRun \/ job'.run.fresh
      BY <1>28, <1>d, <1>t DEF NothingToSay, Job, IfMine, Dispatched, Claimable, Grant
    <2> QED BY <2>1, <2>2, <1>k
  <1>29. ASSUME NEW a \in Attempts, WorkerDies(a) PROVE RunKept'
    <2>1. \A h \in Gateways : Serving(h)' => Serving(h)
      BY <1>29, <1>c, <1>t, <1>a DEF WorkerDies, Serving, Moved, Left, Begun, Stages
    <2>2. job'.run = job.run \/ job'.run = NoRun \/ job'.run.fresh
      BY <1>29, <1>d, <1>t DEF WorkerDies, Job, IfMine, Dispatched, Claimable, Grant
    <2> QED BY <2>1, <2>2, <1>k
  <1>30. ASSUME NEW a \in Attempts, Heartbeat(a) PROVE RunKept'
    <2>1. \A h \in Gateways : Serving(h)' => Serving(h)
      BY <1>30, <1>c, <1>t DEF Heartbeat, Serving, Beaten
    <2>2. job'.run = job.run \/ job'.run = NoRun \/ job'.run.fresh
      BY <1>30, <1>d, <1>t DEF Heartbeat, Job
    <2> QED BY <2>1, <2>2, <1>k
  <1>31. ASSUME NEW a \in Attempts, RunHeartbeat(a) PROVE RunKept'
    <2>1. \A h \in Gateways : Serving(h)' => Serving(h)
      BY <1>31, <1>c, <1>t DEF RunHeartbeat, Serving, Beaten
    <2>2. job'.run = job.run \/ job'.run = NoRun \/ job'.run.fresh
      BY <1>31, <1>d, <1>t DEF RunHeartbeat, Job, RunClaim, Refreshed
    <2> QED BY <2>1, <2>2, <1>k
  <1>32. ASSUME FireExpires PROVE RunKept'
    <2>1. \A h \in Gateways : Serving(h)' => Serving(h)
      BY <1>32, <1>c, <1>t DEF FireExpires, Serving, Beaten
    <2>2. job'.run = job.run \/ job'.run = NoRun \/ job'.run.fresh
      BY <1>32, <1>d, <1>t DEF FireExpires, Job
    <2> QED BY <2>1, <2>2, <1>k
  <1>33. ASSUME RunExpires PROVE RunKept'
    <2>1. CASE Asleep \/ Backlog
      BY <2>1 DEF RunKept
    <2>2. CASE ~Asleep /\ ~Backlog
      <3>1. job'.run.host = job.run.host /\ att' = att /\ tick' = tick
        BY <1>33, <1>t DEF RunExpires, Aged, Job, RunClaim
      <3>2. ~Waiting(job.run.host)
        BY <1>33, <2>2 DEF RunExpires
      <3>3. ASSUME NEW a \in Attempts, att[a].gw = job.run.host, att[a].at # "idle"
            PROVE  att[a].inst = 0
        <4>1. Alive(a) /\ att[a].at # "queued"
          BY <3>2, <3>3, <1>c DEF Waiting
        <4>2. CASE att[a].at = "won"
          BY <4>2 DEF Hosted
        <4>3. CASE att[a].at # "won"
          BY <1>33, <2>2, <3>3, <4>1, <4>3 DEF RunExpires, Beating
        <4> QED BY <4>2, <4>3
      <3> QED BY <3>1, <3>2, <3>3 DEF RunKept, Serving, Waiting
    <2> QED BY <2>1, <2>2
  <1>34. ASSUME SlotExpires PROVE RunKept'
    <2>1. \A h \in Gateways : Serving(h)' => Serving(h)
      BY <1>34, <1>c, <1>t DEF SlotExpires, Serving, Beaten
    <2>2. job'.run = job.run \/ job'.run = NoRun \/ job'.run.fresh
      BY <1>34, <1>d, <1>t DEF SlotExpires, Job
    <2> QED BY <2>1, <2>2, <1>k
  <1>35. ASSUME Remove PROVE RunKept'
    <2>1. \A h \in Gateways : Serving(h)' => Serving(h)
      BY <1>35, <1>c, <1>t DEF Remove, Serving, Beaten
    <2>2. job'.run = job.run \/ job'.run = NoRun \/ job'.run.fresh
      BY <1>35, <1>d, <1>t DEF Remove, Job
    <2> QED BY <2>1, <2>2, <1>k
  <1>36. ASSUME Rearm PROVE RunKept'
    <2>1. \A h \in Gateways : Serving(h)' => Serving(h)
      BY <1>36, <1>c, <1>t DEF Rearm, Serving, Beaten
    <2>2. job'.run = job.run \/ job'.run = NoRun \/ job'.run.fresh
      BY <1>36, <1>d, <1>t DEF Rearm, Job
    <2> QED BY <2>1, <2>2, <1>k
  <1>39. ASSUME Restore PROVE RunKept'
    <2>1. PICK i \in completed : job' = RolledBack(i)
      BY <1>39 DEF Restore
    <2>2. /\ RolledBack(i) \in Job /\ RolledBack(i).fire = NoFire /\ RolledBack(i).run = NoRun
          /\ RolledBack(i).state = "scheduled"
      BY <2>1, Restorations
    <2> QED BY <2>1, <2>2, <1>l
  <1>37. ASSUME TimePasses PROVE RunKept'
    <2>1. \A h \in Gateways : Serving(h)' => Serving(h)
      BY <1>37, <1>c, <1>t DEF TimePasses, Serving, Beaten
    <2>2. job'.run = job.run \/ job'.run = NoRun \/ job'.run.fresh
      BY <1>37, <1>d, <1>t DEF TimePasses, Job
    <2> QED BY <2>1, <2>2, <1>k
  <1>38. CASE UNCHANGED vars
    BY <1>38, <1>e DEF vars, RunKept, Serving
  <1> QED
    BY <1>1, <1>2, <1>3, <1>4, <1>5, <1>6, <1>7, <1>8, <1>9, <1>10, <1>11, <1>12,
         <1>13, <1>14, <1>15, <1>16, <1>17, <1>18, <1>19, <1>20, <1>21, <1>22, <1>23,
         <1>24, <1>25, <1>26, <1>27, <1>28, <1>29, <1>30, <1>31, <1>32, <1>33, <1>34,
         <1>35, <1>36, <1>37, <1>38, <1>39
    DEF Next, GatewayStep, AttemptStep, Mishap

(***************************************************************************)
(* The theorems                                                            *)
(***************************************************************************)
\* A step that retires the record is one of the two that do.
Retires ==
  job'.state = "retired" =>
    (\E g \in Gateways : ScanRetires(g)) \/ (\E a \in Attempts : Dispatch(a))

\* Only a due scan and a dispatch over its limit retire a record.
LEMMA Retirement == TypeOK /\ Stored /\ [Next]_vars => Retires
  <1> SUFFICES ASSUME TypeOK, Stored, [Next]_vars PROVE Retires
    OBVIOUS
  <1>t. job \in Job
    BY DEF TypeOK
  <1>c. /\ Beaten.state = job.state /\ Recorded.state \in {"scheduled", "completed"}
        /\ Gone("deleted").state = "deleted"
        /\ \A g \in Gateways : Restored(g) \in Job /\ Restored(g).state = job.state
    BY Fields, Records
  <1>1. ASSUME NEW g \in Gateways, ScanSkips(g) PROVE Retires
    BY <1>1, <1>c, <1>t DEF ScanSkips, Retires, Stored, Job, FireClaim, Refreshed, Aged
  <1>2. ASSUME NEW g \in Gateways, ScanRecurring(g) PROVE Retires
    BY <1>2, <1>c, <1>t DEF ScanRecurring, Retires, Stored, Job, FireClaim, Refreshed, Aged
  <1>3. ASSUME NEW g \in Gateways, ScanRetires(g) PROVE Retires
    BY <1>3, <1>c DEF ScanRetires, Retires, Stored
  <1>4. ASSUME NEW g \in Gateways, ScanOneShot(g) PROVE Retires
    BY <1>4, <1>c, <1>t DEF ScanOneShot, Retires, Stored, Job, FireClaim, Refreshed, Aged
  <1>5. ASSUME NEW g \in Gateways, Advance(g) PROVE Retires
    BY <1>5, <1>c, <1>t DEF Advance, Retires, Stored, Job, FireClaim, Refreshed, Aged
  <1>6. ASSUME NEW g \in Gateways, Submit(g) PROVE Retires
    BY <1>6, <1>c, <1>t DEF Submit, Retires, Stored, Job, FireClaim, Refreshed, Aged
  <1>7. ASSUME NEW g \in Gateways, SubmitRefused(g) PROVE Retires
    BY <1>7, <1>c, <1>t DEF SubmitRefused, Retires, Stored, Job, FireClaim, Refreshed, Aged
  <1>8. ASSUME NEW g \in Gateways, SubmitFails(g) PROVE Retires
    BY <1>8, <1>c, <1>t DEF SubmitFails, Retires, Stored, Job, FireClaim, Refreshed, Aged
  <1>9. ASSUME NEW g \in Gateways, ManualClaim(g) PROVE Retires
    BY <1>9, <1>c, <1>t DEF ManualClaim, Retires, Stored, Grant, Job
  <1>10. ASSUME NEW g \in Gateways, Crash(g) PROVE Retires
    BY <1>10, <1>c, <1>t DEF Crash, Retires, Stored, Job, FireClaim, Refreshed, Aged
  <1>11. ASSUME NEW g \in Gateways, Shutdown(g) PROVE Retires
    BY <1>11, <1>c, <1>t DEF Shutdown, Retires, Stored, Job, FireClaim, Refreshed, Aged
  <1>12. ASSUME NEW a \in Attempts, Claim(a) PROVE Retires
    BY <1>12, <1>c, <1>t DEF Claim, Retires, Stored, Grant, Job
  <1>13. ASSUME NEW a \in Attempts, ClaimRefused(a) PROVE Retires
    BY <1>13, <1>c, <1>t DEF ClaimRefused, Retires, Stored, Job, FireClaim, Refreshed, Aged
  <1>14. ASSUME NEW a \in Attempts, ManualStart(a) PROVE Retires
    BY <1>14, <1>c, <1>t DEF ManualStart, Retires, Stored, Job, FireClaim, Refreshed, Aged
  <1>15. ASSUME NEW a \in Attempts, Validate(a) PROVE Retires
    BY <1>15, <1>c, <1>t DEF Validate, Retires, Stored, Job, FireClaim, Refreshed, Aged
  <1>16. ASSUME NEW a \in Attempts, Dispatch(a) PROVE Retires
    BY <1>16, <1>c DEF Dispatch, Retires, Stored
  <1>17. ASSUME NEW a \in Attempts, Returns(a) PROVE Retires
    BY <1>17, <1>c, <1>t DEF Returns, Retires, Stored, Job, FireClaim, Refreshed, Aged
  <1>18. ASSUME NEW a \in Attempts, SaveOutput(a) PROVE Retires
    BY <1>18, <1>c, <1>t DEF SaveOutput, Retires, Stored, Job, FireClaim, Refreshed, Aged
  <1>19. ASSUME NEW a \in Attempts, Deliver(a) PROVE Retires
    BY <1>19, <1>c, <1>t DEF Deliver, Retires, Stored, Job, FireClaim, Refreshed, Aged
  <1>20. ASSUME NEW a \in Attempts, Delivered(a) PROVE Retires
    BY <1>20, <1>c, <1>t DEF Delivered, Retires, Stored, Job, FireClaim, Refreshed, Aged
  <1>21. ASSUME NEW a \in Attempts, Closes(a) PROVE Retires
    BY <1>21, <1>c, <1>t DEF Closes, Retires, Stored, IfMine, Job, FireClaim, Refreshed, Aged
  <1>22. ASSUME NEW a \in Attempts, Mark(a) PROVE Retires
    BY <1>22, <1>c, <1>t DEF Mark, Retires, Stored, Job, FireClaim, Refreshed, Aged
  <1>23. ASSUME NEW a \in Attempts, Finish(a) PROVE Retires
    BY <1>23, <1>c, <1>t DEF Finish, Retires, Stored, Job, FireClaim, Refreshed, Aged
  <1>24. ASSUME NEW a \in Attempts, LaunchFails(a) PROVE Retires
    BY <1>24, <1>c, <1>t DEF LaunchFails, Retires, Stored, Job, FireClaim, Refreshed, Aged
  <1>25. ASSUME NEW a \in Attempts, LedgerRefuses(a) PROVE Retires
    BY <1>25, <1>c, <1>t DEF LedgerRefuses, Retires, Stored, Job, FireClaim, Refreshed, Aged
  <1>26. ASSUME NEW a \in Attempts, Cancelled(a) PROVE Retires
    BY <1>26, <1>c, <1>t DEF Cancelled, Retires, Stored, Job, FireClaim, Refreshed, Aged
  <1>27. ASSUME NEW a \in Attempts, Raises(a) PROVE Retires
    BY <1>27, <1>c, <1>t DEF Raises, Retires, Stored, IfMine, Job, FireClaim, Refreshed, Aged
  <1>28. ASSUME NEW a \in Attempts, NothingToSay(a) PROVE Retires
    BY <1>28, <1>c, <1>t DEF NothingToSay, Retires, Stored, Job, FireClaim, Refreshed, Aged
  <1>29. ASSUME NEW a \in Attempts, WorkerDies(a) PROVE Retires
    BY <1>29, <1>c, <1>t DEF WorkerDies, Retires, Stored, Job, FireClaim, Refreshed, Aged
  <1>30. ASSUME NEW a \in Attempts, Heartbeat(a) PROVE Retires
    BY <1>30, <1>c, <1>t DEF Heartbeat, Retires, Stored, Job, FireClaim, Refreshed, Aged
  <1>31. ASSUME NEW a \in Attempts, RunHeartbeat(a) PROVE Retires
    BY <1>31, <1>c, <1>t DEF RunHeartbeat, Retires, Stored, Job, FireClaim, Refreshed, Aged
  <1>32. ASSUME FireExpires PROVE Retires
    BY <1>32, <1>c, <1>t DEF FireExpires, Retires, Stored, Job, FireClaim, Refreshed, Aged
  <1>33. ASSUME RunExpires PROVE Retires
    BY <1>33, <1>c, <1>t DEF RunExpires, Retires, Stored, Job, FireClaim, Refreshed, Aged
  <1>34. ASSUME SlotExpires PROVE Retires
    BY <1>34, <1>c, <1>t DEF SlotExpires, Retires, Stored, Job, FireClaim, Refreshed, Aged
  <1>35. ASSUME Remove PROVE Retires
    BY <1>35, <1>c, <1>t DEF Remove, Retires, Stored, Job, FireClaim, Refreshed, Aged
  <1>36. ASSUME Rearm PROVE Retires
    BY <1>36, <1>c, <1>t DEF Rearm, Retires, Stored, Job, FireClaim, Refreshed, Aged
  <1>39. ASSUME Restore PROVE Retires
    <2>1. PICK i \in completed : job' = RolledBack(i)
      BY <1>39 DEF Restore
    <2>2. /\ RolledBack(i) \in Job /\ RolledBack(i).fire = NoFire /\ RolledBack(i).run = NoRun
          /\ RolledBack(i).state = "scheduled"
      BY <2>1, Restorations
    <2> QED BY <1>39, <2>1, <2>2, <1>c, <1>t DEF Restore, Retires, Stored
  <1>37. ASSUME TimePasses PROVE Retires
    BY <1>37, <1>c, <1>t DEF TimePasses, Retires, Stored, Job, FireClaim, Refreshed, Aged
  <1>38. CASE UNCHANGED vars
    BY <1>38, <1>c DEF vars, Retires, Stored
  <1> QED
    BY <1>1, <1>2, <1>3, <1>4, <1>5, <1>6, <1>7, <1>8, <1>9, <1>10, <1>11, <1>12,
         <1>13, <1>14, <1>15, <1>16, <1>17, <1>18, <1>19, <1>20, <1>21, <1>22, <1>23,
         <1>24, <1>25, <1>26, <1>27, <1>28, <1>29, <1>30, <1>31, <1>32, <1>33, <1>34,
         <1>35, <1>36, <1>37, <1>38, <1>39
    DEF Next, GatewayStep, AttemptStep, Mishap

(***************************************************************************)
(* Occurrences: the steps in two classes                                   *)
(***************************************************************************)
\* What the records that outcomes, removals and roll-backs leave say of the schedule.
LEMMA Schedules ==
  ASSUME TypeOK
  PROVE  /\ Recorded.kind = job.kind /\ Recorded.next = (IF Recurring THEN now + 1 ELSE 0)
         /\ Recorded.state = (IF Recurring THEN "scheduled" ELSE "completed")
         /\ Recorded.slot = NoSlot /\ Recorded.fire = NoFire
         /\ Recorded.done = (IF Recurring THEN 0 ELSE 1)
         /\ \A s \in {"retired", "deleted"} :
              /\ Gone(s).kind = job.kind /\ Gone(s).state = s /\ Gone(s).slot = NoSlot
              /\ Gone(s).fire = NoFire
         /\ \A i \in completed :
              /\ RolledBack(i).kind = job.kind /\ RolledBack(i).state = "scheduled"
              /\ RolledBack(i).next = i /\ RolledBack(i).slot = NoSlot
              /\ RolledBack(i).fire = NoFire /\ RolledBack(i).done = 0
         /\ NoSlot.host = Nobody /\ NoFire.by = Nobody /\ NoTick.at = "none" /\ NoTick.gw = Nobody
  <1>1. /\ Recorded.kind = job.kind /\ Recorded.next = (IF Recurring THEN now + 1 ELSE 0)
        /\ Recorded.state = (IF Recurring THEN "scheduled" ELSE "completed")
        /\ Recorded.slot = NoSlot /\ Recorded.fire = NoFire
        /\ Recorded.done = (IF Recurring THEN 0 ELSE 1)
    BY DEF Recorded
  <1>2. Recorded \in Job
    BY Records
  <1>3. ASSUME NEW i \in completed
        PROVE  /\ RolledBack(i).kind = job.kind /\ RolledBack(i).state = "scheduled"
               /\ RolledBack(i).next = i /\ RolledBack(i).slot = NoSlot
               /\ RolledBack(i).fire = NoFire /\ RolledBack(i).done = 0
    BY <1>1, <1>2 DEF RolledBack, Job
  <1>4. \A s \in {"retired", "deleted"} :
          /\ Gone(s).kind = job.kind /\ Gone(s).state = s /\ Gone(s).slot = NoSlot
          /\ Gone(s).fire = NoFire
    BY DEF Gone
  <1> QED BY <1>1, <1>3, <1>4 DEF NoSlot, NoFire, NoTick

\* The record is due, claimed and counted as before.
SameRecord ==
  /\ job'.kind = job.kind /\ job'.state = job.state /\ job'.next = job.next
  /\ job'.slot = job.slot /\ job'.done = job.done /\ job'.fire.by = job.fire.by

\* An attempt ends or goes on without having been dispatched, without unsending and without
\* marking its outcome.
Onward ==
  \A a \in Attempts :
    \/ att'[a].at = "idle"
    \/ /\ att'[a].inst = att[a].inst /\ att'[a].gw = att[a].gw
       /\ \/ att'[a] = att[a]
          \/ Runs(a) /\ Runs(a)' /\ att'[a].at # "marked"
             /\ (att'[a].at \in Unsent => att[a].at \in Unsent)
             /\ (att'[a].at \in {"started", "ran", "saved"}
                  => att[a].at \in {"started", "ran", "saved"})
          \/ att[a].at = "won" /\ att'[a].at = "claimed"

\* A step that changes nothing about which instants are due, waiting, claimed and sent.
Quiet ==
  /\ SameRecord /\ Onward /\ tick' \in {tick, NoTick}
  /\ now' = now /\ completed' = completed /\ sent' = sent /\ covered' = covered

\* The others.
Eventful ==
  \/ \E g \in Gateways :
       \/ ScanSkips(g) \/ ScanRecurring(g) \/ ScanRetires(g) \/ ScanOneShot(g) \/ Advance(g)
       \/ Submit(g) \/ ManualClaim(g) \/ Shutdown(g)
  \/ \E a \in Attempts :
       \/ Claim(a) \/ ClaimRefused(a) \/ Dispatch(a) \/ Deliver(a) \/ Raises(a) \/ Mark(a) \/ Finish(a)
  \/ SlotExpires \/ Remove \/ Rearm \/ Restore \/ TimePasses

\* The effects of the updates of the attempts, as far as occurrences go.
LEMMA OnwardSteps ==
  ASSUME TypeOK
  PROVE  /\ att' = att => Onward
         /\ \A a \in Attempts : Ended(a) => Onward
         /\ \A lost \in SUBSET Attempts : Left(lost) => Onward
         /\ \A a \in Attempts, s \in Stages, ok \in BOOLEAN :
              /\ Became(a, s) \/ Answers(a, s, ok)
              /\ Runs(a) /\ s \notin {"idle", "queued", "won", "marked", "claimed", "valid"}
              /\ s \in {"started", "ran", "saved"} => att[a].at \in {"started", "ran", "saved"}
              => Onward
         /\ \A a \in Attempts : Became(a, "valid") /\ att[a].at = "claimed" => Onward
         /\ \A a \in Attempts, p \in Places : Starts(a, p) /\ att[a].at = "won" => Onward
  <1>1. att' = att => Onward
    BY DEF Onward
  <1>2. \A lost \in SUBSET Attempts : Left(lost) => Onward
    BY DEF Onward, Left
  <1>3. \A a \in Attempts : Ended(a) => Onward
    BY <1>2, Effects
  <1>4. ASSUME NEW a \in Attempts, NEW s \in Stages, Moved(a, s), Runs(a),
               s \notin {"idle", "queued", "won", "marked", "claimed", "valid"},
               s \in {"started", "ran", "saved"} => att[a].at \in {"started", "ran", "saved"}
        PROVE  Onward
    BY <1>4 DEF Onward, Moved, Runs, Unsent
  <1>5. ASSUME NEW a \in Attempts, Moved(a, "valid"), att[a].at = "claimed" PROVE Onward
    BY <1>5 DEF Onward, Moved, Runs, Unsent
  <1>6. ASSUME NEW a \in Attempts, Moved(a, "claimed"), att[a].at = "won" PROVE Onward
    BY <1>6 DEF Onward, Moved, Runs, Unsent
  <1>7. "valid" \in Stages
    BY DEF Stages
  <1> QED BY <1>1, <1>2, <1>3, <1>4, <1>5, <1>6, <1>7, Effects

\* Every step is quiet or one of the eventful ones.
LEMMA Steps == TypeOK /\ [Next]_vars => Quiet \/ Eventful
  <1> SUFFICES ASSUME TypeOK, [Next]_vars, ~Eventful PROVE Quiet
    OBVIOUS
  <1>j. job \in Job
    BY DEF TypeOK
  <1>b. /\ Beaten.kind = job.kind /\ Beaten.state = job.state /\ Beaten.next = job.next
        /\ Beaten.slot = job.slot /\ Beaten.done = job.done /\ Beaten.fire.by = job.fire.by
    BY <1>j DEF Beaten, Refreshed, Job, FireClaim
  <1>s. {"valid", "closing", "ran", "saved", "posted"} \subseteq Stages
    BY DEF Stages
  <1>o. /\ job' = job => SameRecord
        /\ job' = Beaten => SameRecord
        /\ \A r : job' = [job EXCEPT !.run = r] => SameRecord
    BY <1>b, <1>j DEF SameRecord, Job
  <1>7. ASSUME NEW g \in Gateways, SubmitRefused(g) PROVE Quiet
    BY <1>7, <1>o, OnwardSteps DEF SubmitRefused, Quiet
  <1>8. ASSUME NEW g \in Gateways, SubmitFails(g) PROVE Quiet
    BY <1>8, <1>o, OnwardSteps DEF SubmitFails, Quiet
  <1>10. ASSUME NEW g \in Gateways, Crash(g) PROVE Quiet
    <2>1. PICK lost \in SUBSET Attempts : Goes(g, lost)
      BY <1>10 DEF Crash
    <2>2. Left(lost)
      BY <2>1, Effects
    <2>3. tick' \in {tick, NoTick}
      BY <2>1 DEF Goes
    <2> QED BY <1>10, <1>o, <2>2, <2>3, OnwardSteps DEF Crash, Quiet
  <1>14. ASSUME NEW a \in Attempts, ManualStart(a) PROVE Quiet
    BY <1>14, <1>o, OnwardSteps DEF ManualStart, Quiet
  <1>15. ASSUME NEW a \in Attempts, Validate(a) PROVE Quiet
    BY <1>15, <1>o, OnwardSteps DEF Validate, Quiet
  <1>17. ASSUME NEW a \in Attempts, Returns(a) PROVE Quiet
    <2>1. Onward
      BY <1>17, <1>s, OnwardSteps DEF Returns, Runs
    <2> QED BY <1>17, <1>o, <2>1 DEF Returns, Quiet
  <1>18. ASSUME NEW a \in Attempts, SaveOutput(a) PROVE Quiet
    <2>1. Onward
      BY <1>18, <1>s, OnwardSteps DEF SaveOutput, Runs
    <2> QED BY <1>18, <1>o, <2>1 DEF SaveOutput, Quiet
  <1>20. ASSUME NEW a \in Attempts, Delivered(a) PROVE Quiet
    <2>1. Onward
      BY <1>20, <1>s, OnwardSteps DEF Delivered, Runs
    <2> QED BY <1>20, <1>o, <2>1 DEF Delivered, Quiet
  <1>21. ASSUME NEW a \in Attempts, Closes(a) PROVE Quiet
    <2>1. Onward
      BY <1>21, <1>s, OnwardSteps DEF Closes, IfMine, Runs
    <2> QED BY <1>21, <1>o, <2>1 DEF Closes, IfMine, Quiet
  <1>24. ASSUME NEW a \in Attempts, LaunchFails(a) PROVE Quiet
    <2>1. Onward
      BY <1>24, <1>s, OnwardSteps DEF LaunchFails, Runs
    <2> QED BY <1>24, <1>o, <2>1 DEF LaunchFails, Quiet
  <1>25. ASSUME NEW a \in Attempts, LedgerRefuses(a) PROVE Quiet
    BY <1>25, <1>o, OnwardSteps DEF LedgerRefuses, Quiet
  <1>26. ASSUME NEW a \in Attempts, Cancelled(a) PROVE Quiet
    <2>1. Onward
      BY <1>26, <1>s, OnwardSteps DEF Cancelled, Runs
    <2> QED BY <1>26, <1>o, <2>1 DEF Cancelled, Quiet
  <1>28. ASSUME NEW a \in Attempts, NothingToSay(a) PROVE Quiet
    <2>1. Onward
      BY <1>28, <1>s, OnwardSteps DEF NothingToSay, Runs
    <2> QED BY <1>28, <1>o, <2>1 DEF NothingToSay, Quiet
  <1>29. ASSUME NEW a \in Attempts, WorkerDies(a) PROVE Quiet
    BY <1>29, <1>o, OnwardSteps DEF WorkerDies, Quiet
  <1>30. ASSUME NEW a \in Attempts, Heartbeat(a) PROVE Quiet
    BY <1>30, <1>o, OnwardSteps DEF Heartbeat, Quiet
  <1>31. ASSUME NEW a \in Attempts, RunHeartbeat(a) PROVE Quiet
    BY <1>31, <1>o, OnwardSteps DEF RunHeartbeat, Quiet
  <1>32. ASSUME FireExpires PROVE Quiet
    <2>1. SameRecord
      BY <1>32, <1>j DEF FireExpires, SameRecord, Aged, Job, FireClaim
    <2> QED BY <1>32, <2>1, OnwardSteps DEF FireExpires, Quiet
  <1>33. ASSUME RunExpires PROVE Quiet
    BY <1>33, <1>o, OnwardSteps DEF RunExpires, Quiet
  <1>38. CASE UNCHANGED vars
    BY <1>38, <1>o, OnwardSteps DEF vars, Quiet
  <1> QED
    BY <1>7, <1>8, <1>10, <1>14, <1>15, <1>17, <1>18, <1>20, <1>21, <1>24, <1>25, <1>26,
       <1>28, <1>29, <1>30, <1>31, <1>32, <1>33, <1>38
    DEF Next, GatewayStep, AttemptStep, Mishap, Eventful

(***************************************************************************)
(* Occurrences: nothing is ahead of its time                               *)
(***************************************************************************)
\* What a date is of: the attempts, and what was completed and sent.
DatedAttempts ==
  \A a \in Attempts :
    /\ att[a].at # "idle" => att[a].inst <= now
    /\ Runs(a) => att[a].inst <= covered
    /\ att[a].at = "queued" => att[a].place = "gateway"
TickDated == tick.at # "none" => tick.gw \in Gateways /\ tick.inst <= now
DoneDated == \A i \in completed : i <= covered
DatedSends == \A i \in 1 .. MaxTime : sent[i] = 0 \/ i <= covered

\* Attempts that go on or end stay dated, also when a run is claimed or recorded.
LEMMA OnwardDated ==
  ASSUME TypeOK, Hosted, Dated, Onward, now' = now, covered' \in {covered, now}
  PROVE  DatedAttempts' /\ covered' <= now'
  <1>1. now \in Nat /\ covered \in Nat /\ covered <= now /\ covered <= covered'
    BY DEF TypeOK, Dated
  <1>2. ASSUME NEW a \in Attempts
        PROVE  /\ att'[a].at # "idle" => att'[a].inst <= now
               /\ Runs(a)' => att'[a].inst <= covered'
               /\ att'[a].at = "queued" => att'[a].place = "gateway"
    <2>1. att[a].inst \in Nat
      BY DEF TypeOK, Attempt
    <2>2. /\ att[a].at # "idle" => att[a].inst <= now
          /\ Runs(a) => att[a].inst <= covered
          /\ att[a].at = "queued" => att[a].place = "gateway"
          /\ att[a].at = "won" => att[a].inst = 0
      BY DEF Dated, Hosted
    <2>3. CASE att'[a].at = "idle"
      BY <2>3 DEF Runs
    <2>4. CASE att'[a] = att[a]
      BY <1>1, <2>1, <2>2, <2>4 DEF Runs
    <2>5. CASE att'[a].inst = att[a].inst /\ Runs(a)' /\ (Runs(a) \/ att[a].at = "won")
      BY <1>1, <2>1, <2>2, <2>5 DEF Runs
    <2> QED BY <2>3, <2>4, <2>5 DEF Onward, Runs
  <1> QED BY <1>1, <1>2 DEF DatedAttempts

\* A new attempt is dated when its instant has come, or when it is by hand.
LEMMA BegunDated ==
  ASSUME TypeOK, Dated, now' = now, covered' \in {covered, now},
         NEW a \in Attempts, NEW s \in {"queued", "won"}, NEW g \in Gateways,
         NEW i \in Nat, i <= now, Begun(a, s, g, i)
  PROVE  DatedAttempts' /\ covered' <= now'
  <1>1. now \in Nat /\ covered \in Nat /\ covered <= now /\ covered <= covered'
    BY DEF TypeOK, Dated
  <1>2. ASSUME NEW b \in Attempts
        PROVE  /\ att'[b].at # "idle" => att'[b].inst <= now
               /\ Runs(b)' => att'[b].inst <= covered'
               /\ att'[b].at = "queued" => att'[b].place = "gateway"
    <2>1. att[b].inst \in Nat
      BY DEF TypeOK, Attempt
    <2>2. /\ att[b].at # "idle" => att[b].inst <= now
          /\ Runs(b) => att[b].inst <= covered
          /\ att[b].at = "queued" => att[b].place = "gateway"
      BY DEF Dated
    <2>3. CASE b = a
      BY <2>3 DEF Begun, Runs
    <2>4. CASE b # a
      BY <1>1, <2>1, <2>2, <2>4 DEF Begun, Runs
    <2> QED BY <2>3, <2>4
  <1> QED BY <1>1, <1>2 DEF DatedAttempts

\* A send for an instant that was claimed is dated.
LEMMA SentDated ==
  ASSUME TypeOK, Dated, NEW a \in Attempts, Runs(a), Sent(att[a].inst), covered' = covered
  PROVE  DatedSends'
  <1>1. att[a].inst <= covered
    BY DEF Dated
  <1>2. ASSUME NEW i \in 1 .. MaxTime PROVE sent'[i] = 0 \/ i <= covered
    <2>1. CASE i = att[a].inst
      BY <1>1, <2>1
    <2>2. CASE i # att[a].inst
      BY <2>2 DEF Sent, Dated
    <2> QED BY <2>1, <2>2
  <1> QED BY <1>2 DEF DatedSends

\* Nothing gets ahead of its time.
LEMMA DatedStep == TypeOK /\ Hosted /\ Ticking /\ Dated /\ [Next]_vars => Dated'
  <1> SUFFICES ASSUME TypeOK, Hosted, Ticking, Dated, [Next]_vars PROVE Dated'
    OBVIOUS
  <1>a. /\ now \in Nat /\ covered \in Nat /\ covered <= now /\ completed \subseteq Nat
        /\ tick.inst \in Nat
        /\ TickDated /\ DoneDated /\ DatedAttempts /\ DatedSends
    BY DEF TypeOK, Dated, DatedAttempts, DatedSends, TickDated, DoneDated
  <1>b. (covered <= now)' /\ TickDated' /\ DoneDated' /\ DatedAttempts' /\ DatedSends' => Dated'
    BY DEF Dated, DatedAttempts, DatedSends, TickDated, DoneDated
  <1>c. (completed' = completed /\ covered' \in {covered, now}) => DoneDated'
    BY <1>a DEF DoneDated
  <1>d. (sent' = sent /\ covered' \in {covered, now}) => DatedSends'
    BY <1>a DEF DatedSends
  <1>e. (now' = now /\ tick' \in {tick, NoTick}) => TickDated'
    BY <1>a, Schedules DEF TickDated
  <1>f. (att' = att /\ now' = now /\ covered' = covered) => DatedAttempts' /\ (covered <= now)'
    BY OnwardDated, OnwardSteps
  <1>g. NoTick.at = "none"
    BY DEF NoTick
  <1>1. CASE Quiet
    <2>1. DatedAttempts' /\ (covered <= now)'
      BY <1>1, OnwardDated DEF Quiet
    <2> QED BY <1>1, <2>1, <1>b, <1>c, <1>d, <1>e DEF Quiet
  <1>2. ASSUME NEW g \in Gateways, ScanSkips(g) \/ ScanRetires(g) PROVE Dated'
    BY <1>2, <1>b, <1>c, <1>d, <1>e, <1>f DEF ScanSkips, ScanRetires
  <1>3. ASSUME NEW g \in Gateways, ScanRecurring(g) PROVE Dated'
    <2>1. tick'.gw = g /\ tick'.inst <= now' /\ now' = now
      BY <1>3 DEF ScanRecurring, Due
    <2>2. TickDated'
      BY <2>1 DEF TickDated
    <2> QED BY <1>3, <2>2, <1>b, <1>c, <1>d, <1>f DEF ScanRecurring
  <1>4. ASSUME NEW g \in Gateways, ScanOneShot(g) PROVE Dated'
    <2>0. Instant(g) = job.next /\ Instant(g) <= now
      BY <1>4 DEF ScanOneShot, Due, Instant, Restored, Restorable
    <2>1. tick'.gw = g /\ tick'.inst <= now' /\ now' = now
      BY <1>4, <2>0 DEF ScanOneShot
    <2>2. TickDated'
      BY <2>1 DEF TickDated
    <2> QED BY <1>4, <2>2, <1>b, <1>c, <1>d, <1>f DEF ScanOneShot
  <1>5. ASSUME NEW g \in Gateways, Advance(g) PROVE Dated'
    <2>1. tick'.gw = tick.gw /\ tick'.inst = tick.inst /\ tick.at = "due" /\ now' = now
      BY <1>5 DEF Advance, TypeOK
    <2>2. TickDated'
      BY <1>a, <2>1 DEF TickDated
    <2> QED BY <1>5, <2>2, <1>b, <1>c, <1>d, <1>f DEF Advance
  <1>6. ASSUME NEW g \in Gateways, Submit(g) PROVE Dated'
    <2>1. PICK a \in Attempts : Born(a, "queued", g, tick.inst)
      BY <1>6 DEF Submit
    <2>2. Begun(a, "queued", g, tick.inst)
      BY <1>a, <2>1, Effects DEF Stages
    <2>3. tick.inst <= now
      BY <1>6, <1>a DEF Submit, TickDated
    <2>4. DatedAttempts' /\ (covered <= now)'
      BY <1>6, <1>a, <2>2, <2>3, BegunDated DEF Submit
    <2> QED BY <1>6, <2>4, <1>b, <1>c, <1>d, <1>e DEF Submit
  <1>7. ASSUME NEW g \in Gateways, ManualClaim(g) PROVE Dated'
    <2>1. PICK a \in Attempts : Grant(a, g) /\ Born(a, "won", g, 0)
      BY <1>7 DEF ManualClaim
    <2>2. Begun(a, "won", g, 0)
      BY <1>a, <2>1, Effects DEF Stages
    <2>3. DatedAttempts' /\ (covered <= now)'
      BY <1>7, <1>a, <2>1, <2>2, BegunDated DEF ManualClaim, Grant
    <2> QED BY <1>7, <2>1, <2>3, <1>b, <1>c, <1>d, <1>e DEF ManualClaim, Grant
  <1>8. ASSUME NEW g \in Gateways, Shutdown(g) PROVE Dated'
    <2>1. PICK lost \in SUBSET Attempts : Goes(g, lost)
      BY <1>8 DEF Shutdown
    <2>2. Onward /\ tick' \in {tick, NoTick}
      BY <2>1, Effects, OnwardSteps DEF Goes
    <2>3. DatedAttempts' /\ (covered <= now)'
      BY <1>8, <2>2, OnwardDated DEF Shutdown
    <2> QED BY <1>8, <2>2, <2>3, <1>b, <1>c, <1>d, <1>e DEF Shutdown
  <1>9. ASSUME NEW a \in Attempts, Claim(a) PROVE Dated'
    <2>1. PICK p \in Places : Starts(a, p)
      BY <1>9 DEF Claim
    <2>2. Moved(a, "claimed")
      BY <2>1, Effects
    <2>3. covered' = now /\ now' = now
      BY <1>9 DEF Claim, Grant
    <2>4. ASSUME NEW b \in Attempts
          PROVE  /\ att'[b].at # "idle" => att'[b].inst <= now
                 /\ Runs(b)' => att'[b].inst <= now
                 /\ att'[b].at = "queued" => att'[b].place = "gateway"
      <3>1. att[b].inst \in Nat
        BY DEF TypeOK, Attempt
      <3>2. CASE b = a
        BY <1>9, <2>2, <3>2, <1>a DEF Claim, Moved, DatedAttempts
      <3>3. CASE b # a
        BY <1>a, <2>2, <3>1, <3>3 DEF Moved, DatedAttempts, Runs
      <3> QED BY <3>2, <3>3
    <2>5. DatedAttempts' /\ (covered <= now)'
      BY <1>a, <2>3, <2>4 DEF DatedAttempts
    <2> QED BY <1>9, <2>3, <2>5, <1>b, <1>c, <1>d, <1>e DEF Claim
  <1>10. ASSUME NEW a \in Attempts, ClaimRefused(a) PROVE Dated'
    <2>1. DatedAttempts' /\ (covered <= now)'
      BY <1>10, OnwardDated, OnwardSteps DEF ClaimRefused
    <2> QED BY <1>10, <2>1, <1>b, <1>c, <1>d, <1>e DEF ClaimRefused
  <1>11. ASSUME NEW a \in Attempts, Dispatch(a) PROVE Dated'
    <2>1. Moved(a, "started") \/ Onward
      BY <1>11, Effects, OnwardSteps DEF Dispatch, Stages
    <2>2. Runs(a)
      BY <1>11 DEF Dispatch, Runs
    <2>3. CASE Moved(a, "started")
      <3>1. ASSUME NEW b \in Attempts
            PROVE  /\ att'[b].at # "idle" => att'[b].inst <= now
                   /\ Runs(b)' => att'[b].inst <= covered
                   /\ att'[b].at = "queued" => att'[b].place = "gateway"
        BY <1>a, <2>2, <2>3 DEF DatedAttempts, Moved, Runs
      <3>2. DatedAttempts' /\ (covered <= now)'
        BY <1>11, <1>a, <3>1 DEF Dispatch, DatedAttempts
      <3> QED BY <1>11, <3>2, <1>b, <1>c, <1>d, <1>e DEF Dispatch
    <2>4. CASE Onward
      <3>1. DatedAttempts' /\ (covered <= now)'
        BY <1>11, <2>4, OnwardDated DEF Dispatch
      <3> QED BY <1>11, <3>1, <1>b, <1>c, <1>d, <1>e DEF Dispatch
    <2> QED BY <2>1, <2>3, <2>4
  <1>12. ASSUME NEW a \in Attempts, Deliver(a) PROVE Dated'
    <2>1. Runs(a)
      BY <1>12 DEF Deliver, Runs
    <2>2. Onward
      BY <1>12, <2>1, OnwardSteps DEF Deliver, Stages
    <2>3. DatedAttempts' /\ (covered <= now)'
      BY <1>12, <2>2, OnwardDated DEF Deliver
    <2>4. DatedSends'
      BY <1>12, <2>1, <1>d, SentDated DEF Deliver
    <2> QED BY <1>12, <2>3, <2>4, <1>b, <1>c, <1>e DEF Deliver
  <1>13. ASSUME NEW a \in Attempts, Raises(a) PROVE Dated'
    <2>1. Runs(a)
      BY <1>13 DEF Raises, Runs
    <2>2. Onward
      BY <1>13, <2>1, OnwardSteps DEF Raises, IfMine, Stages
    <2>3. DatedAttempts' /\ (covered <= now)'
      BY <1>13, <2>2, OnwardDated DEF Raises
    <2>4. DatedSends'
      BY <1>13, <2>1, <1>d, SentDated DEF Raises
    <2> QED BY <1>13, <2>3, <2>4, <1>b, <1>c, <1>e DEF Raises
  <1>14. ASSUME NEW a \in Attempts, Mark(a) PROVE Dated'
    <2>1. Moved(a, "marked") \/ Left({a})
      BY <1>14, Effects DEF Mark, Stages
    <2>2. Runs(a) /\ now' = now /\ covered' \in {covered, now}
      BY <1>14 DEF Mark, Runs
    <2>3. ASSUME NEW b \in Attempts
          PROVE  /\ att'[b].at # "idle" => att'[b].inst <= now
                 /\ Runs(b)' => att'[b].inst <= covered'
                 /\ att'[b].at = "queued" => att'[b].place = "gateway"
      <3>1. att[b].inst \in Nat
        BY DEF TypeOK, Attempt
      <3> QED BY <1>a, <2>1, <2>2, <3>1 DEF Moved, Left, DatedAttempts, Runs
    <2>4. DatedAttempts' /\ (covered <= now)'
      BY <1>a, <2>2, <2>3 DEF DatedAttempts
    <2> QED BY <1>14, <2>2, <2>4, <1>b, <1>c, <1>d, <1>e DEF Mark
  <1>15. ASSUME NEW a \in Attempts, Finish(a) PROVE Dated'
    <2>1. DatedAttempts' /\ (covered <= now)'
      BY <1>15, OnwardDated, OnwardSteps DEF Finish
    <2>2. att[a].inst <= covered
      BY <1>15, <1>a DEF Finish, DatedAttempts, Runs
    <2>3. DoneDated'
      BY <1>15, <1>a, <2>2 DEF Finish, DoneDated
    <2> QED BY <1>15, <2>1, <2>3, <1>b, <1>d, <1>e DEF Finish
  <1>16. CASE SlotExpires \/ Remove \/ Rearm \/ Restore
    BY <1>16, <1>b, <1>c, <1>d, <1>e, <1>f DEF SlotExpires, Remove, Rearm, Restore
  <1>17. CASE TimePasses
    <2>1. now' = now + 1 /\ covered' = covered /\ att' = att /\ tick = NoTick /\ tick' = tick
      BY <1>17 DEF TimePasses
    <2>2. ASSUME NEW a \in Attempts
          PROVE  /\ att[a].at # "idle" => att[a].inst <= now + 1
                 /\ Runs(a) => att[a].inst <= covered
                 /\ att[a].at = "queued" => att[a].place = "gateway"
      <3>1. att[a].inst \in Nat
        BY DEF TypeOK, Attempt
      <3> QED BY <1>a, <3>1 DEF DatedAttempts
    <2>3. DatedAttempts' /\ (covered <= now)'
      BY <1>a, <2>1, <2>2 DEF DatedAttempts, Runs
    <2>4. TickDated'
      BY <1>g, <2>1 DEF TickDated
    <2> QED BY <1>17, <2>3, <2>4, <1>b, <1>c, <1>d DEF TimePasses
  <1> QED
    BY <1>1, <1>2, <1>3, <1>4, <1>5, <1>6, <1>7, <1>8, <1>9, <1>10, <1>11, <1>12, <1>13,
       <1>14, <1>15, <1>16, <1>17, Steps
    DEF Eventful

(***************************************************************************)
(* Occurrences: the schedule is ahead of what was claimed                  *)
(***************************************************************************)
\* Who runs for an instant did so before.
RunsAsBefore ==
  \A a \in Attempts : Runs(a)' /\ att'[a].inst # 0 => Runs(a) /\ att'[a].inst = att[a].inst

LEMMA OnwardRuns ==
  ASSUME TypeOK, Hosted, Onward
  PROVE  RunsAsBefore
  BY DEF Onward, RunsAsBefore, Runs, Hosted

\* Only a claim lets another attempt run.
LEMMA RunsSteps ==
  ASSUME TypeOK, Hosted, [Next]_vars
  PROVE  RunsAsBefore \/ \E a \in Attempts : Claim(a)
  <1>t. tick.inst \in Nat
    BY DEF TypeOK
  <1>m. \A a \in Attempts, s \in Stages : Moved(a, s) /\ Runs(a) => RunsAsBefore
    BY DEF Moved, RunsAsBefore, Runs
  <1>n. \A a \in Attempts, s \in {"queued", "won"}, g \in Gateways, i \in Nat :
          Begun(a, s, g, i) => RunsAsBefore
    BY DEF Begun, RunsAsBefore, Runs
  <1>s. {"marked", "closing", "delivering", "started", "queued", "won"} \subseteq Stages
    BY DEF Stages
  <1>1. CASE Quiet
    BY <1>1, OnwardRuns DEF Quiet
  <1>2. ASSUME NEW g \in Gateways,
               ScanSkips(g) \/ ScanRecurring(g) \/ ScanRetires(g) \/ ScanOneShot(g) \/ Advance(g)
        PROVE  RunsAsBefore
    <2>1. att' = att
      BY <1>2 DEF ScanSkips, ScanRecurring, ScanRetires, ScanOneShot, Advance
    <2> QED BY <2>1 DEF RunsAsBefore, Runs
  <1>3. ASSUME NEW g \in Gateways, Submit(g) PROVE RunsAsBefore
    <2>1. PICK a \in Attempts : Born(a, "queued", g, tick.inst)
      BY <1>3 DEF Submit
    <2> QED BY <1>n, <1>s, <1>t, <2>1, Effects
  <1>4. ASSUME NEW g \in Gateways, ManualClaim(g) PROVE RunsAsBefore
    <2>1. PICK a \in Attempts : Born(a, "won", g, 0)
      BY <1>4 DEF ManualClaim
    <2> QED BY <1>n, <1>s, <2>1, Effects
  <1>5. ASSUME NEW g \in Gateways, Shutdown(g) PROVE RunsAsBefore
    <2>1. PICK lost \in SUBSET Attempts : Goes(g, lost)
      BY <1>5 DEF Shutdown
    <2> QED BY <2>1, Effects, OnwardSteps, OnwardRuns
  <1>6. ASSUME NEW a \in Attempts, ClaimRefused(a) \/ Finish(a) PROVE RunsAsBefore
    BY <1>6, OnwardSteps, OnwardRuns DEF ClaimRefused, Finish
  <1>7. ASSUME NEW a \in Attempts, Dispatch(a) \/ Deliver(a) \/ Raises(a) \/ Mark(a)
        PROVE  RunsAsBefore
    <2>1. Runs(a)
      BY <1>7 DEF Dispatch, Deliver, Raises, Mark, Runs
    <2>2. \/ Ended(a)
          \/ Became(a, "started") \/ Became(a, "delivering") \/ Became(a, "closing")
          \/ Became(a, "marked")
      BY <1>7 DEF Dispatch, Deliver, Raises, Mark, IfMine
    <2>3. CASE Ended(a)
      BY <2>3, OnwardSteps, OnwardRuns
    <2>4. CASE ~Ended(a)
      BY <1>m, <1>s, <2>1, <2>2, <2>4, Effects
    <2> QED BY <2>3, <2>4
  <1>8. CASE SlotExpires \/ Remove \/ Rearm \/ Restore \/ TimePasses
    <2>1. att' = att
      BY <1>8 DEF SlotExpires, Remove, Rearm, Restore, TimePasses
    <2> QED BY <2>1 DEF RunsAsBefore, Runs
  <1> QED BY <1>1, <1>2, <1>3, <1>4, <1>5, <1>6, <1>7, <1>8, Steps DEF Eventful

\* A record that is about to run again, at the next instant or not at all.
LEMMA MovedOn ==
  ASSUME TypeOK, Dated, Ahead, RunsAsBefore, job'.kind = job.kind,
         (job.kind = "recurring") =>
           /\ job'.next = now + 1
           /\ job'.slot = NoSlot \/ (job'.slot = job.slot /\ job'.state = job.state),
         job.kind # "recurring" => job'.slot = NoSlot,
         now' = now, completed' = completed, covered' \in {covered, now},
         tick'.at = "due" => Slotted' \/ covered' = now
  PROVE  Ahead'
  <1>1. now \in Nat /\ covered \in Nat /\ covered <= now /\ completed \subseteq Nat
    BY DEF TypeOK, Dated
  <1>2. \A i \in completed : i <= now
    BY <1>1 DEF Dated
  <1>3. Slotted' => /\ Slotted /\ job'.slot = job.slot /\ job.kind = "recurring"
                    /\ job'.state = job.state
    BY DEF Slotted
  <1>4. Slotted' => Recurring' /\ Scheduled' /\ job'.slot.host \in Gateways
    BY <1>3 DEF Ahead, Recurring, Scheduled
  <1>5. ASSUME Recurring', Scheduled'
        PROVE  /\ job'.next \notin completed'
               /\ Slotted' => job'.slot.inst \notin completed'
               /\ tick'.at = "due" => Slotted' \/ covered' = now'
    <2>1. job'.next = now + 1
      BY <1>5 DEF Recurring
    <2> QED BY <1>1, <1>2, <1>3, <1>5, <2>1 DEF Ahead, Recurring, Scheduled
  <1>6. ASSUME Recurring', Scheduled', NEW a \in Attempts, Runs(a)', att'[a].inst # 0
        PROVE  att'[a].inst < job'.next /\ (Slotted' => att'[a].inst < job'.slot.inst)
    <2>1. Runs(a) /\ att'[a].inst = att[a].inst /\ att[a].inst \in Nat
      BY <1>6 DEF RunsAsBefore, TypeOK, Attempt
    <2>2. att[a].inst <= covered /\ job'.next = now + 1
      BY <1>6, <2>1 DEF Dated, Recurring
    <2>3. att'[a].inst < job'.next
      BY <1>1, <2>1, <2>2
    <2> QED BY <1>3, <1>6, <2>1, <2>3 DEF Ahead, Recurring, Scheduled
  <1> QED BY <1>4, <1>5, <1>6 DEF Ahead

\* Nor does a step that leaves the schedule alone let anything overtake it.
LEMMA StaysAhead ==
  ASSUME TypeOK, Ahead, RunsAsBefore, SameRecord, tick'.at = "due" => tick.at = "due",
         now' = now, completed' = completed, covered' = covered
  PROVE  Ahead'
  <1>1. Recurring' = Recurring /\ Scheduled' = Scheduled /\ Slotted' = Slotted
    BY DEF SameRecord, Recurring, Scheduled, Slotted
  <1>2. ASSUME Recurring', Scheduled', NEW a \in Attempts, Runs(a)', att'[a].inst # 0
        PROVE  att'[a].inst < job'.next /\ (Slotted' => att'[a].inst < job'.slot.inst)
    BY <1>1, <1>2 DEF RunsAsBefore, SameRecord, Ahead
  <1>3. Slotted' => Recurring' /\ Scheduled' /\ job'.slot.host \in Gateways
    BY <1>1 DEF Ahead, SameRecord
  <1>4. ASSUME Recurring', Scheduled'
        PROVE  /\ job'.next \in completed' => job'.next = now'
               /\ Slotted' => job'.slot.inst \notin completed'
               /\ tick'.at = "due" => Slotted' \/ covered' = now'
    BY <1>1, <1>4 DEF Ahead, SameRecord
  <1> QED BY <1>2, <1>3, <1>4 DEF Ahead

\* The schedule stays ahead, and no instant is passed over uncovered.
LEMMA AheadStep ==
  ASSUME TypeOK, Hosted, Dated, Ahead, PassedIsCovered, [Next]_vars
  PROVE  Ahead' /\ PassedIsCovered'
  <1>t. /\ now \in Nat /\ covered \in Nat /\ covered <= now /\ completed \subseteq Nat
        /\ job \in Job /\ job.next \in Nat /\ job.slot.inst \in Nat /\ att \in [Attempts -> Attempt]
    BY DEF TypeOK, Job, Slot, Dated
  <1>i. ASSUME NEW i \in completed PROVE i <= now
    <2>1. i <= covered /\ i \in Nat
      BY <1>t DEF Dated
    <2> QED BY <1>t, <2>1
  <1>k. job.kind = "recurring" <=> Recurring
    BY DEF Recurring
  <1>n. job.kind # "recurring" => job.slot = NoSlot
    BY <1>k DEF Ahead, Slotted
  <1>r. RunsAsBefore \/ \E a \in Attempts : Claim(a)
    BY RunsSteps
  <1>c. \A a \in Attempts : Claim(a) => att[a].at = "queued" /\ \E p \in Places : Starts(a, p)
    BY DEF Claim
  <1>d. ASSUME NEW a \in Attempts, RunsAsBefore, Claim(a) PROVE att[a].inst = 0
    <2>1. Moved(a, "claimed") /\ att[a].at = "queued"
      BY <1>c, <1>d, Effects
    <2> QED BY <1>d, <2>1 DEF Moved, RunsAsBefore, Runs
  \* The schedule is left alone.
  <1>p. (SameRecord /\ covered' = covered /\ completed' = completed) => PassedIsCovered'
    BY DEF SameRecord, PassedIsCovered, Recurring, Scheduled
  \* The job moves on from the present instant.
  <1>q. ASSUME now' = now, job'.next = now + 1, covered' = now \/ now \in completed',
               covered' \in Nat
        PROVE  PassedIsCovered'
    <2>1. job'.next <= covered' + 1 \/ job'.next - 1 \in completed'
      <3>1. now \in Nat /\ job'.next = now + 1
        BY <1>q, <1>t
      <3>2. CASE covered' = now
        BY <1>q, <3>1, <3>2
      <3>3. CASE now \in completed'
        <4>1. job'.next - 1 = now
          BY <3>1
        <4> QED BY <3>3, <4>1
      <3> QED BY <1>q, <3>2, <3>3
    <2> QED BY <2>1 DEF PassedIsCovered
  <1>1. CASE Quiet
    BY <1>1, <1>p, OnwardRuns, StaysAhead, Schedules DEF Quiet
  <1>2. ASSUME NEW g \in Gateways, ScanSkips(g) PROVE Ahead' /\ PassedIsCovered'
    <2>1. att' = att /\ tick' = NoTick /\ now' = now /\ completed' = completed /\ covered' = covered
      BY <1>2 DEF ScanSkips, Candidate
    <2>2. RunsAsBefore /\ NoTick.at = "none"
      BY <2>1, OnwardSteps, OnwardRuns DEF NoTick
    <2>3. CASE ~Recurring
      <3>1. job' = job
        BY <1>2, <2>3 DEF ScanSkips
      <3> QED BY <2>1, <2>2, <3>1, <1>p, StaysAhead DEF SameRecord
    <2>4. CASE Recurring
      <3>1. Scheduled /\ Instant(g) \in completed
        BY <1>2 DEF ScanSkips, Candidate
      <3>2. ~Restorable(g)
        <4> SUFFICES ASSUME Restorable(g) PROVE FALSE
          OBVIOUS
        <4>1. Slotted /\ Instant(g) = job.slot.inst
          BY <1>t DEF Restorable, Slotted, Instant, Restored, Job
        <4> QED BY <2>4, <3>1, <4>1 DEF Ahead
      <3>3. Instant(g) = job.next
        BY <3>2 DEF Instant, Restored
      <3>4. job' = [job EXCEPT !.next = now + 1]
        BY <1>2, <2>4, <3>2 DEF ScanSkips, Restored
      <3>5. /\ job'.kind = job.kind /\ job'.next = now + 1 /\ job'.slot = job.slot
            /\ job'.state = job.state
        BY <1>t, <3>4 DEF Job
      <3>6. now \in completed'
        BY <2>1, <2>4, <3>1, <3>3 DEF Ahead
      <3>7. Ahead'
        BY <1>n, <2>1, <2>2, <3>5, MovedOn
      <3> QED BY <1>q, <1>t, <2>1, <3>5, <3>6, <3>7
    <2> QED BY <2>3, <2>4
  <1>3. ASSUME NEW g \in Gateways, ScanRecurring(g) PROVE Ahead' /\ PassedIsCovered'
    <2>1. /\ Recurring /\ Scheduled /\ att' = att /\ now' = now /\ completed' = completed
          /\ Instant(g) \notin completed /\ Instant(g) <= now
      BY <1>3 DEF ScanRecurring, Due, Candidate
    <2>2. /\ Restored(g) \in Job /\ Restored(g).kind = job.kind /\ Restored(g).state = job.state
      BY Records, Fields
    <2>3. /\ job'.kind = job.kind /\ job'.state = job.state /\ job'.slot = Pending(g)
          /\ job'.next = IF Instant(g) < now THEN now + 1 ELSE Instant(g)
      BY <1>3, <2>2 DEF ScanRecurring, Job
    <2>4. /\ Pending(g).host = g /\ Pending(g).inst = Instant(g) /\ Pending(g) # NoSlot
          /\ Instant(g) \in Nat
      BY <2>2 DEF Pending, NoSlot, Instant, Job
    <2>5. Recurring' /\ Scheduled' /\ Slotted'
      BY <2>1, <2>3, <2>4 DEF Recurring, Scheduled, Slotted
    <2>6. Instant(g) = job.next \/ (Slotted /\ Instant(g) = job.slot.inst)
      BY <1>t DEF Instant, Restored, Restorable, Slotted, Job
    <2>7. ASSUME NEW a \in Attempts, Runs(a)', att'[a].inst # 0
          PROVE  att'[a].inst < job'.next /\ att'[a].inst < job'.slot.inst
      <3>1. Runs(a) /\ att'[a] = att[a] /\ att[a].inst # 0 /\ att[a].inst \in Nat
        BY <1>t, <2>1, <2>7 DEF Runs, Attempt
      <3>2. att[a].inst < Instant(g)
        BY <2>1, <2>6, <3>1 DEF Ahead
      <3>3. Instant(g) <= job'.next
        BY <1>t, <2>1, <2>3, <2>4
      <3>4. job'.next \in Nat
        BY <1>t, <2>3, <2>4
      <3> QED BY <2>3, <2>4, <3>1, <3>2, <3>3, <3>4
    <2>8. job'.next \in completed' => job'.next = now'
      <3>2. now + 1 \notin completed
        BY <1>i, <1>t
      <3>3. ~(Instant(g) < now) => Instant(g) = now
        BY <1>t, <2>1, <2>4
      <3> QED BY <2>1, <2>3, <3>2, <3>3
    <2>9. Ahead'
      BY <2>1, <2>3, <2>4, <2>5, <2>7, <2>8 DEF Ahead
    <2> QED BY <2>5, <2>9 DEF PassedIsCovered, Slotted
  <1>4. ASSUME NEW g \in Gateways, ScanRetires(g) PROVE Ahead' /\ PassedIsCovered'
    <2>1. /\ ~Recurring /\ job'.kind = job.kind /\ job'.slot = NoSlot /\ att' = att /\ now' = now
          /\ completed' = completed /\ covered' = covered /\ tick' = tick
      BY <1>4, Schedules DEF ScanRetires
    <2>2. RunsAsBefore /\ (tick.at = "due" => tick'.at = "due")
      BY <2>1, OnwardSteps, OnwardRuns
    <2>3. ~Recurring' /\ ~Slotted'
      BY <2>1 DEF Recurring, Slotted
    <2> QED BY <2>3 DEF Ahead, PassedIsCovered
  <1>5. ASSUME NEW g \in Gateways, ScanOneShot(g) PROVE Ahead' /\ PassedIsCovered'
    <2>1. ~Recurring /\ job'.kind = job.kind /\ job'.slot = job.slot
      BY <1>5, <1>t DEF ScanOneShot, Job
    <2>2. ~Recurring' /\ ~Slotted'
      BY <1>n, <2>1 DEF Recurring, Slotted
    <2> QED BY <2>2 DEF Ahead, PassedIsCovered
  <1>6. ASSUME NEW g \in Gateways, Advance(g) PROVE Ahead' /\ PassedIsCovered'
    <2>1. /\ att' = att /\ now' = now /\ completed' = completed /\ covered' = covered
          /\ tick.at = "due" /\ tick'.at = "advanced"
      BY <1>6 DEF Advance, TypeOK
    <2>2. RunsAsBefore
      BY <2>1, OnwardSteps, OnwardRuns
    <2>3. CASE ~(Recurring /\ Scheduled)
      <3>1. job' = job
        BY <1>6, <2>3 DEF Advance
      <3> QED BY <2>1, <2>2, <3>1, <1>p, StaysAhead DEF SameRecord
    <2>4. CASE Recurring /\ Scheduled
      <3>1. job' = [job EXCEPT !.next = now + 1]
        BY <1>6, <2>4 DEF Advance
      <3>2. /\ job'.kind = job.kind /\ job'.next = now + 1 /\ job'.slot = job.slot
            /\ job'.state = job.state
        BY <1>t, <3>1 DEF Job
      <3>3. Ahead'
        BY <1>n, <2>1, <2>2, <3>2, MovedOn
      <3>4. Slotted \/ covered = now
        BY <2>1, <2>4 DEF Ahead
      <3>5. CASE Slotted
        BY <3>2, <3>3, <3>5 DEF PassedIsCovered, Slotted
      <3> QED BY <1>q, <1>t, <2>1, <3>2, <3>3, <3>4, <3>5
    <2> QED BY <2>3, <2>4
  <1>7. ASSUME NEW g \in Gateways, Submit(g) PROVE Ahead' /\ PassedIsCovered'
    <2>1. /\ job' = job /\ now' = now /\ completed' = completed /\ covered' = covered
          /\ tick' = NoTick
      BY <1>7 DEF Submit
    <2>2. ASSUME NEW a \in Attempts PROVE ~Claim(a)
      <3>1. Claim(a) => tick' = tick
        BY DEF Claim
      <3> QED BY <1>7, <2>1, <3>1 DEF Submit, NoTick
    <2> QED BY <1>p, <1>r, <2>1, <2>2, StaysAhead, Schedules DEF SameRecord
  <1>8. ASSUME NEW a \in Attempts, NEW g \in Gateways, Grant(a, g), now' = now,
               completed' = completed, tick' = tick, NEW b \in Attempts,
               \A d \in Attempts : Runs(d)' /\ att'[d].inst # 0 =>
                 att'[d].inst \in Nat /\ att'[d].inst <= now
        PROVE  Ahead' /\ PassedIsCovered'
    <2>1. /\ job'.kind = job.kind /\ job'.state = job.state /\ job'.slot = NoSlot /\ covered' = now
          /\ Recurring => job'.next = now + 1
      BY <1>8, <1>t DEF Grant, Job
    <2>2. \A i \in completed : i <= now
      BY <1>i
    <2>3. Recurring' = Recurring /\ ~Slotted'
      BY <2>1 DEF Recurring, Slotted
    <2>4. Recurring' => job'.next \notin completed'
      BY <1>8, <1>t, <2>1, <2>2, <2>3
    <2>5. ASSUME Recurring', NEW d \in Attempts, Runs(d)', att'[d].inst # 0
          PROVE  att'[d].inst < job'.next
      BY <1>8, <1>t, <2>1, <2>3, <2>5
    <2>6. Ahead'
      BY <1>8, <2>1, <2>3, <2>4, <2>5 DEF Ahead
    <2>7. CASE Recurring
      BY <1>8, <1>q, <1>t, <2>1, <2>6, <2>7
    <2>8. CASE ~Recurring
      BY <2>3, <2>6, <2>8 DEF PassedIsCovered
    <2> QED BY <2>7, <2>8
  <1>9. ASSUME NEW g \in Gateways, ManualClaim(g) PROVE Ahead' /\ PassedIsCovered'
    <2>1. PICK a \in Attempts : Grant(a, g) /\ Born(a, "won", g, 0)
      BY <1>9 DEF ManualClaim
    <2>2. Begun(a, "won", g, 0)
      BY <2>1, Effects DEF Stages
    <2>3. ASSUME NEW d \in Attempts, Runs(d)', att'[d].inst # 0
          PROVE  att'[d].inst \in Nat /\ att'[d].inst <= now
      BY <1>t, <2>2, <2>3 DEF Begun, Runs, Dated, Attempt
    <2> QED BY <1>8, <1>9, <2>1, <2>3 DEF ManualClaim
  <1>10. ASSUME NEW a \in Attempts, Claim(a) PROVE Ahead' /\ PassedIsCovered'
    <2>1. PICK p \in Places : Starts(a, p)
      BY <1>10 DEF Claim
    <2>2. Moved(a, "claimed") /\ att[a].at = "queued"
      BY <1>10, <2>1, Effects DEF Claim
    <2>3. ASSUME NEW d \in Attempts, Runs(d)', att'[d].inst # 0
          PROVE  att'[d].inst \in Nat /\ att'[d].inst <= now
      BY <1>t, <2>2, <2>3 DEF Moved, Runs, Dated, Attempt
    <2>4. att[a].gw \in Gateways
      BY <2>2 DEF Hosted
    <2> QED BY <1>8, <1>10, <2>3, <2>4 DEF Claim
  <1>11. ASSUME NEW a \in Attempts, ClaimRefused(a) PROVE Ahead' /\ PassedIsCovered'
    <2>1. /\ now' = now /\ completed' = completed /\ covered' = covered /\ tick' = tick
          /\ RunsAsBefore
      BY <1>11, OnwardSteps, OnwardRuns DEF ClaimRefused
    <2>2. CASE ~(Free /\ Claimable /\ Recurring)
      <3>1. job' = job
        BY <1>11, <2>2 DEF ClaimRefused
      <3> QED BY <2>1, <3>1, <1>p, StaysAhead DEF SameRecord
    <2>3. CASE Free /\ Claimable /\ Recurring
      <3>1. job' = [job EXCEPT !.next = now + 1] /\ job.next \in completed /\ Scheduled
        BY <1>11, <2>3 DEF ClaimRefused, Claimable
      <3>2. /\ job'.kind = job.kind /\ job'.next = now + 1 /\ job'.slot = job.slot
            /\ job'.state = job.state
        BY <1>t, <3>1 DEF Job
      <3>3. now \in completed'
        BY <2>1, <2>3, <3>1 DEF Ahead
      <3>4. tick'.at = "due" => Slotted' \/ covered' = now
        BY <2>1, <2>3, <3>1, <3>2 DEF Ahead, Slotted
      <3>5. Ahead'
        BY <1>n, <2>1, <3>2, <3>4, MovedOn
      <3> QED BY <1>q, <1>t, <2>1, <3>2, <3>3, <3>5
    <2> QED BY <2>2, <2>3
  <1>12. ASSUME job' = Recorded, covered' = now, now' = now, completed' = completed, RunsAsBefore
         PROVE  Ahead' /\ PassedIsCovered'
    <2>1. /\ job'.kind = job.kind /\ job'.slot = NoSlot
          /\ job.kind = "recurring" => job'.next = now + 1
      BY <1>12, <1>k, Schedules
    <2>2. Ahead'
      BY <1>12, <1>k, <2>1, MovedOn
    <2>3. CASE Recurring
      BY <1>12, <1>k, <1>q, <1>t, <2>1, <2>2, <2>3
    <2>4. CASE ~Recurring
      BY <1>k, <2>1, <2>2, <2>4 DEF PassedIsCovered, Recurring
    <2> QED BY <2>3, <2>4
  <1>13. ASSUME NEW g \in Gateways, Shutdown(g) PROVE Ahead' /\ PassedIsCovered'
    <2>1. PICK lost \in SUBSET Attempts : Goes(g, lost)
      BY <1>13 DEF Shutdown
    <2>2. RunsAsBefore
      BY <2>1, Effects, OnwardSteps, OnwardRuns
    <2> QED BY <1>12, <1>13, <2>2 DEF Shutdown
  <1>14. ASSUME NEW a \in Attempts, Mark(a) PROVE Ahead' /\ PassedIsCovered'
    <2>1. RunsAsBefore
      <3>1. Moved(a, "marked") \/ Left({a})
        BY <1>14, Effects DEF Mark, Stages
      <3>2. Runs(a)
        BY <1>14 DEF Mark, Runs
      <3> QED BY <3>1, <3>2 DEF Moved, Left, RunsAsBefore, Runs
    <2>2. CASE Free /\ Mine(a)
      BY <1>12, <1>14, <2>1, <2>2 DEF Mark
    <2>3. CASE ~(Free /\ Mine(a))
      BY <1>14, <2>1, <2>3, <1>p, StaysAhead DEF Mark, SameRecord
    <2> QED BY <2>2, <2>3
  <1>15. ASSUME NEW a \in Attempts, Dispatch(a) PROVE Ahead' /\ PassedIsCovered'
    <2>1. /\ now' = now /\ completed' = completed /\ covered' = covered /\ tick' = tick
      BY <1>15 DEF Dispatch
    <2>2. RunsAsBefore
      <3>1. Moved(a, "started") \/ Left({a})
        BY <1>15, Effects DEF Dispatch, Stages
      <3>2. Runs(a)
        BY <1>15 DEF Dispatch, Runs
      <3> QED BY <3>1, <3>2 DEF Moved, Left, RunsAsBefore, Runs
    <2>3. CASE Recurring
      <3>1. job' = job
        BY <1>15, <2>3 DEF Dispatch
      <3> QED BY <2>1, <2>2, <3>1, <1>p, StaysAhead DEF SameRecord
    <2>4. CASE ~Recurring
      <3>1. job'.kind = job.kind /\ (job'.slot = job.slot \/ job'.slot = NoSlot)
        <4>1. Dispatched.kind = job.kind /\ Dispatched.slot \in {job.slot, NoSlot}
          BY <1>t, Schedules DEF Dispatched, Job
        <4>2. [job EXCEPT !.done = 1].kind = job.kind /\ [job EXCEPT !.done = 1].slot = job.slot
          BY <1>t DEF Job
        <4> QED BY <1>15, <4>1, <4>2 DEF Dispatch
      <3>2. ~Recurring' /\ ~Slotted'
        BY <1>n, <2>4, <3>1 DEF Recurring, Slotted
      <3> QED BY <3>2 DEF Ahead, PassedIsCovered
    <2> QED BY <2>3, <2>4
  <1>16. ASSUME NEW a \in Attempts, Deliver(a) \/ Raises(a) PROVE Ahead' /\ PassedIsCovered'
    <2>1. /\ now' = now /\ completed' = completed /\ covered' = covered /\ tick' = tick
          /\ SameRecord
      BY <1>16, <1>t DEF Deliver, Raises, IfMine, Beaten, Refreshed, SameRecord, Job, FireClaim
    <2>2. RunsAsBefore
      <3>1. Runs(a)
        BY <1>16 DEF Deliver, Raises, Runs
      <3>2. Moved(a, "delivering") \/ Moved(a, "closing") \/ Left({a})
        BY <1>16, Effects DEF Deliver, Raises, IfMine, Stages
      <3> QED BY <3>1, <3>2 DEF Moved, Left, RunsAsBefore, Runs
    <2> QED BY <2>1, <2>2, <1>p, StaysAhead
  <1>17. ASSUME NEW a \in Attempts, Finish(a) PROVE Ahead' /\ PassedIsCovered'
    <2>1. /\ job' = job /\ now' = now /\ covered' = covered /\ tick' = tick /\ RunsAsBefore
          /\ completed \subseteq completed'
          /\ completed' \subseteq completed \cup ({att[a].inst} \ {0})
      BY <1>17, OnwardSteps, OnwardRuns DEF Finish
    <2>2. Runs(a)
      BY <1>17 DEF Finish, Runs
    <2>3. Recurring' = Recurring /\ Scheduled' = Scheduled /\ Slotted' = Slotted
      BY <2>1 DEF Recurring, Scheduled, Slotted
    <2>4. ASSUME Recurring, Scheduled
          PROVE  /\ job.next \in completed' => job.next = now
                 /\ Slotted => job.slot.inst \notin completed'
      <3>1. att[a].inst \in Nat
        BY <1>t DEF Attempt
      <3>2. att[a].inst # 0 =>
              att[a].inst < job.next /\ (Slotted => att[a].inst < job.slot.inst)
        BY <2>2, <2>4 DEF Ahead
      <3>3. att[a].inst # 0 => att[a].inst # job.next /\ (Slotted => att[a].inst # job.slot.inst)
        BY <1>t, <3>1, <3>2
      <3> QED BY <2>1, <2>4, <3>3 DEF Ahead
    <2>5. ASSUME Recurring, Scheduled, NEW b \in Attempts, Runs(b)', att'[b].inst # 0
          PROVE  att'[b].inst < job.next /\ (Slotted => att'[b].inst < job.slot.inst)
      BY <2>1, <2>5 DEF RunsAsBefore, Ahead
    <2>6. Ahead'
      BY <2>1, <2>3, <2>4, <2>5 DEF Ahead
    <2> QED BY <2>1, <2>3, <2>6 DEF PassedIsCovered
  <1>18. CASE SlotExpires
    <2>1. /\ att' = att /\ now' = now /\ completed' = completed /\ covered' = covered
          /\ tick' = tick
      BY <1>18 DEF SlotExpires
    <2>2. /\ job'.kind = job.kind /\ job'.state = job.state /\ job'.next = job.next
          /\ job'.slot.inst = job.slot.inst /\ job'.slot.host = job.slot.host
      BY <1>18, <1>t DEF SlotExpires, Aged, Job, Slot
    <2>3. Slotted
      BY <1>18 DEF SlotExpires, Slotted, NoSlot
    <2>4. Slotted'
      <3>1. job'.slot.host \in Gateways
        BY <2>2, <2>3 DEF Ahead
      <3>2. NoSlot.host = Nobody
        BY DEF NoSlot
      <3> QED BY <3>1, <3>2 DEF Slotted
    <2>5. Recurring' = Recurring /\ Scheduled' = Scheduled /\ \A a \in Attempts : Runs(a)' = Runs(a)
      BY <2>1, <2>2 DEF Recurring, Scheduled, Runs
    <2>6. Ahead'
      BY <2>1, <2>2, <2>3, <2>4, <2>5 DEF Ahead
    <2> QED BY <2>4, <2>6 DEF PassedIsCovered, Slotted
  <1>19. CASE Remove
    <2>1. job'.state = "deleted" /\ job'.slot = NoSlot
      BY <1>19, Schedules DEF Remove
    <2>2. ~Scheduled' /\ ~Slotted'
      BY <2>1 DEF Scheduled, Slotted
    <2> QED BY <2>2 DEF Ahead, PassedIsCovered
  <1>20. CASE Rearm
    <2>1. ~Recurring /\ job'.kind = job.kind /\ job'.slot = job.slot
      BY <1>20, <1>t DEF Rearm, Job
    <2>2. ~Recurring' /\ ~Slotted'
      BY <1>n, <2>1 DEF Recurring, Slotted
    <2> QED BY <2>2 DEF Ahead, PassedIsCovered
  <1>21. CASE Restore
    <2>1. PICK i \in completed : i = now /\ job' = RolledBack(i)
      BY <1>21 DEF Restore
    <2>2. /\ job'.next = now /\ job'.slot = NoSlot
      BY <2>1, Schedules
    <2>3. /\ att' = att /\ tick' = NoTick /\ now' = now /\ completed' = completed
          /\ covered' = covered /\ \A a \in Attempts : att[a].at = "idle"
      BY <1>21 DEF Restore
    <2>4. ~Slotted' /\ tick'.at # "due" /\ \A a \in Attempts : ~Runs(a)'
      BY <2>2, <2>3, Schedules DEF Slotted, Runs
    <2>5. Ahead'
      BY <2>2, <2>3, <2>4 DEF Ahead
    <2>6. now <= covered
      BY <2>1 DEF Dated
    <2>7. job'.next <= covered' + 1
      BY <1>t, <2>2, <2>3, <2>6
    <2> QED BY <2>5, <2>7 DEF PassedIsCovered
  <1>22. CASE TimePasses
    <2>1. /\ job' = job /\ att' = att /\ tick' = NoTick /\ completed' = completed
          /\ covered' = covered /\ ~(Recurring /\ job.next \in completed)
      BY <1>22 DEF TimePasses
    <2>2. /\ Recurring' = Recurring /\ Scheduled' = Scheduled /\ Slotted' = Slotted
          /\ \A a \in Attempts : Runs(a)' = Runs(a)
      BY <2>1 DEF Recurring, Scheduled, Slotted, Runs
    <2>3. Ahead'
      BY <2>1, <2>2, Schedules DEF Ahead
    <2> QED BY <2>1, <2>2, <2>3 DEF PassedIsCovered
  <1> QED
    BY <1>1, <1>2, <1>3, <1>4, <1>5, <1>6, <1>7, <1>9, <1>10, <1>11, <1>13, <1>14, <1>15, <1>16,
       <1>17, <1>18, <1>19, <1>20, <1>21, <1>22, Steps
    DEF Eventful

(***************************************************************************)
(* Occurrences: an instant of its own for every attempt                    *)
(***************************************************************************)
\* Who serves an instant did so before, and is no further from its send; what waits has not
\* moved.
Carries ==
  \A a \in Attempts :
    /\ OfInstant(a)' =>
         /\ OfInstant(a) /\ att'[a].inst = att[a].inst
         /\ att'[a].at \in Unsent => att[a].at \in Unsent
         /\ att'[a] = att[a] \/ att[a].at # "queued" \/ att'[a].at = "claimed"
    /\ att'[a].at = "queued" => att'[a] = att[a]

\* What waits is still waiting, or is over.
Keeps == \A a \in Attempts : OfInstant(a)' /\ att[a].at = "queued" => att'[a] = att[a]

\* Attempts that go on or end carry their instants.
LEMMA OnwardCarries ==
  ASSUME TypeOK, Hosted, Onward
  PROVE  Carries /\ Keeps
  <1>1. ASSUME NEW a \in Attempts
        PROVE  /\ OfInstant(a)' =>
                    /\ OfInstant(a) /\ att'[a].inst = att[a].inst
                    /\ att'[a].at \in Unsent => att[a].at \in Unsent
                    /\ att'[a] = att[a] \/ att[a].at # "queued"
               /\ att'[a].at = "queued" => att'[a] = att[a]
    <2>1. CASE att'[a].at = "idle"
      BY <2>1 DEF OfInstant
    <2>2. CASE att'[a] = att[a]
      BY <2>2 DEF OfInstant
    <2>3. CASE /\ att'[a].inst = att[a].inst /\ Runs(a) /\ Runs(a)'
               /\ (att'[a].at \in Unsent => att[a].at \in Unsent)
      BY <2>3 DEF OfInstant, Runs
    <2>4. CASE att'[a].inst = att[a].inst /\ att[a].at = "won" /\ att'[a].at = "claimed"
      BY <2>4 DEF OfInstant, Hosted
    <2> QED BY <2>1, <2>2, <2>3, <2>4 DEF Onward
  <1> QED BY <1>1 DEF Carries, Keeps

LEMMA MovedCarries ==
  ASSUME TypeOK, NEW a \in Attempts, NEW s \in Stages, Moved(a, s), Runs(a),
         s \notin {"idle", "queued", "won"}, s \in Unsent => att[a].at \in Unsent
  PROVE  Carries /\ Keeps
  BY DEF Moved, Carries, Keeps, OfInstant, Runs

\* The parts that are about attempts and ticks alone stay when nothing is sent.
LEMMA HandsStay ==
  ASSUME Carries, UnsentInHand, Distinct, TickIsNew, sent' = sent,
         tick'.at # "none" => tick.at # "none" /\ tick'.inst = tick.inst
  PROVE  UnsentInHand' /\ Distinct' /\ TickIsNew'
  <1>1. \A i : NotSent(i) => NotSent(i)'
    BY DEF NotSent
  <1>2. UnsentInHand'
    <2> SUFFICES ASSUME NEW a \in Attempts, OfInstant(a)', att'[a].at \in Unsent
                 PROVE  NotSent(att[a].inst)' /\ att'[a].inst = att[a].inst
      BY DEF UnsentInHand, NotSent
    <2>1. OfInstant(a) /\ att[a].at \in Unsent /\ att'[a].inst = att[a].inst
      BY DEF Carries
    <2> QED BY <2>1 DEF UnsentInHand, NotSent
  <1>3. Distinct'
    BY DEF Carries, Distinct
  <1>4. TickIsNew'
    BY DEF Carries, TickIsNew, NotSent
  <1> QED BY <1>2, <1>3, <1>4

\* Nobody waits who did not before.
LEMMA WaitingStays ==
  ASSUME Carries, tick'.gw \in {tick.gw, Nobody}, NEW h \in Gateways, Waiting(h)'
  PROVE  Waiting(h)
  BY DEF Carries, Waiting

\* Nor does the order change when the record and what waits stay.
LEMMA OrderStays ==
  ASSUME TypeOK, Ahead, Carries, Keeps, SlotYoung, InOrder, FutureUnsent, SameRecord,
         sent' = sent, completed \subseteq completed', tick'.gw \in {tick.gw, Nobody},
         tick'.at # "none" => tick' = tick
  PROVE  SlotYoung' /\ InOrder' /\ FutureUnsent'
  <1>1. /\ Scheduled' = Scheduled /\ Slotted' = Slotted
        /\ job'.slot = job.slot /\ job'.next = job.next
    BY DEF SameRecord, Scheduled, Slotted
  <1>2. SlotYoung'
    <2> SUFFICES ASSUME Slotted, Waiting(job.slot.host)' PROVE job.slot.fresh
      BY <1>1 DEF SlotYoung
    <2>1. job.slot.host \in Gateways
      BY DEF Ahead
    <2>2. \A h \in Gateways : Waiting(h)' => Waiting(h)
      BY WaitingStays
    <2>3. Waiting(job.slot.host)
      BY <1>1, <2>1, <2>2 DEF Waiting
    <2> QED BY <2>3 DEF SlotYoung
  <1>3. ASSUME Scheduled', NEW a \in Attempts, OfInstant(a)'
        PROVE  /\ att'[a].inst < job'.next
               /\ Slotted' => att'[a].inst < job'.slot.inst \/ Stamped(a)'
    <2>1. OfInstant(a) /\ att'[a].inst = att[a].inst /\ (att[a].at = "queued" => att'[a] = att[a])
      BY <1>3 DEF Carries, Keeps
    <2>2. Stamped(a) => Stamped(a)'
      BY <1>1, <2>1 DEF Stamped
    <2> QED BY <1>1, <1>3, <2>1, <2>2 DEF InOrder
  <1>4. InOrder'
    BY <1>1, <1>3 DEF InOrder
  <1>5. FutureUnsent'
    BY <1>1 DEF FutureUnsent
  <1> QED BY <1>2, <1>4, <1>5

\* Nor when the job moves past the present instant.
LEMMA OrderMovesOn ==
  ASSUME TypeOK, Dated, Ahead, Carries, SlotYoung, InOrder, FutureUnsent,
         job'.next = now + 1,
         job'.slot = NoSlot \/ (job'.slot = job.slot /\ job'.state = job.state /\ Keeps),
         sent' = sent, completed \subseteq completed', tick'.gw \in {tick.gw, Nobody},
         tick'.at # "none" => tick.at # "none" /\ tick'.inst = tick.inst /\ tick'.gw = tick.gw
  PROVE  SlotYoung' /\ InOrder' /\ FutureUnsent'
  <1>t. /\ now \in Nat /\ covered \in Nat /\ covered <= now /\ tick.inst \in Nat
        /\ \A a \in Attempts : att[a].inst \in Nat
    BY DEF TypeOK, Dated, Attempt
  <1>1. Slotted' => /\ Slotted /\ job'.slot = job.slot /\ job'.state = job.state /\ Keeps
                    /\ Scheduled
    BY DEF Slotted, Ahead
  <1>2. SlotYoung'
    <2> SUFFICES ASSUME Slotted', Waiting(job.slot.host)' PROVE job'.slot.fresh
      BY DEF SlotYoung, Waiting
    <2>1. job.slot.host \in Gateways /\ job'.slot = job.slot
      BY <1>1 DEF Ahead
    <2>2. \A h \in Gateways : Waiting(h)' => Waiting(h)
      BY WaitingStays
    <2>3. Waiting(job.slot.host)
      BY <2>1, <2>2 DEF Waiting
    <2> QED BY <1>1, <2>3 DEF SlotYoung
  <1>3. ASSUME NEW a \in Attempts, OfInstant(a)'
        PROVE  /\ att'[a].inst < job'.next
               /\ Slotted' => att'[a].inst < job'.slot.inst \/ Stamped(a)'
    <2>1. OfInstant(a) /\ att'[a].inst = att[a].inst
      BY <1>3 DEF Carries
    <2>2. att[a].inst <= now
      BY <2>1 DEF Dated, OfInstant
    <2>3. att'[a].inst < job'.next
      BY <1>t, <2>1, <2>2
    <2>4. CASE Slotted'
      <3>1. att[a].at = "queued" => att'[a] = att[a]
        BY <1>1, <1>3, <2>4 DEF Keeps
      <3>2. Stamped(a) => Stamped(a)'
        BY <1>1, <2>4, <3>1 DEF Stamped
      <3> QED BY <1>1, <2>1, <2>3, <2>4, <3>2 DEF InOrder
    <2> QED BY <2>3, <2>4
  <1>4. ASSUME tick'.at # "none"
        PROVE  /\ tick'.inst < job'.next
               /\ Slotted' => job'.slot.inst = tick'.inst /\ job'.slot.host = tick'.gw
    <2>1. tick.inst <= now /\ tick'.inst = tick.inst /\ tick'.gw = tick.gw /\ tick.at # "none"
      BY <1>4 DEF Dated
    <2>2. tick'.inst < job'.next
      BY <1>t, <2>1
    <2> QED BY <1>1, <2>1, <2>2 DEF InOrder
  <1>5. InOrder'
    BY <1>3, <1>4 DEF InOrder
  <1>6. ASSUME NEW i \in 1 .. MaxTime, job'.next <= i \/ (Slotted' /\ job'.slot.inst <= i)
        PROVE  sent[i] = 0 \/ i \in completed
    <2>1. CASE job'.next <= i
      <3>1. ~(i <= covered)
        BY <1>t, <2>1
      <3> QED BY <3>1 DEF Dated
    <2>2. CASE Slotted' /\ job'.slot.inst <= i
      BY <1>1, <2>2 DEF FutureUnsent
    <2> QED BY <1>6, <2>1, <2>2
  <1>7. FutureUnsent'
    BY <1>6 DEF FutureUnsent
  <1> QED BY <1>2, <1>5, <1>7

\* Every part of it stays.
OwnInstants == SlotYoung /\ UnsentInHand /\ Distinct /\ TickIsNew /\ InOrder /\ FutureUnsent

\* A slot that may be restored has no dispatch left that waits.
LEMMA RestorableIsIdle ==
  ASSUME TypeOK, Hosted, Dated, Ahead, OwnInstants, Scheduled,
         NEW g \in Gateways, NEW a \in Attempts, OfInstant(a)
  PROVE  att[a].inst < Instant(g)
  <1>1. /\ att[a].inst < job.next
        /\ Slotted => att[a].inst < job.slot.inst \/ Stamped(a)
    BY DEF OwnInstants, InOrder
  <1>2. CASE ~Restorable(g)
    BY <1>1, <1>2 DEF Instant, Restored
  <1>3. CASE Restorable(g)
    <2>1. Slotted /\ Instant(g) = job.slot.inst
      BY <1>3 DEF Restorable, Slotted, Instant, Restored, TypeOK, Job
    <2>2. ~Stamped(a)
      <3> SUFFICES ASSUME Stamped(a) PROVE FALSE
        OBVIOUS
      <3>1. att[a].at = "queued" /\ att[a].gw = job.slot.host /\ job.slot.host \in Gateways
        BY <2>1 DEF Stamped, Ahead
      <3>2. CASE job.slot.host = g
        BY <1>3, <3>1, <3>2 DEF Restorable, InFlight
      <3>3. CASE ~Live(job.slot)
        <4>1. up[job.slot.host]
          BY <3>1 DEF Hosted, Alive, Dated
        <4>2. job.slot.fresh
          BY <2>1, <3>1 DEF OwnInstants, SlotYoung, Waiting
        <4> QED BY <3>3, <4>1, <4>2 DEF Live, OwnerIsDead
      <3> QED BY <1>3, <3>2, <3>3 DEF Restorable
    <2> QED BY <1>1, <2>1, <2>2
  <1> QED BY <1>2, <1>3

\* A scan that takes an instant off the schedule takes one that nothing has touched.
LEMMA ScanKeepsInstants ==
  ASSUME TypeOK, Hosted, Dated, Ahead, OwnInstants, NEW g \in Gateways, ScanRecurring(g)
  PROVE  OwnInstants'
  <1>t. /\ now \in Nat /\ job \in Job /\ job.next \in Nat /\ job.slot.inst \in Nat
        /\ \A a \in Attempts : att[a].inst \in Nat
    BY DEF TypeOK, Job, Slot, Attempt
  <1>1. /\ Scheduled /\ att' = att /\ sent' = sent /\ completed' = completed
        /\ Instant(g) \notin completed /\ Instant(g) <= now
        /\ tick' = [gw |-> g, at |-> "due", inst |-> Instant(g)]
    BY DEF ScanRecurring, Due, Candidate
  <1>2. Restored(g) \in Job /\ Restored(g).state = job.state
    BY Records, Fields
  <1>3. /\ job'.state = job.state /\ job'.slot = Pending(g)
        /\ job'.next = IF Instant(g) < now THEN now + 1 ELSE Instant(g)
    BY <1>2 DEF ScanRecurring, Job
  <1>4. /\ Pending(g).host = g /\ Pending(g).inst = Instant(g) /\ Pending(g).fresh
        /\ Instant(g) \in Nat
    BY <1>2 DEF Pending, Instant, Job
  <1>5. Instant(g) = job.next \/ (Slotted /\ Instant(g) = job.slot.inst)
    BY <1>t DEF Instant, Restored, Restorable, Slotted, Job
  <1>6. Instant(g) <= job'.next /\ job'.next \in Nat
    BY <1>t, <1>1, <1>3, <1>4
  <1>7. \A a \in Attempts : OfInstant(a) => att[a].inst < Instant(g)
    BY <1>1, RestorableIsIdle
  <1>8. NotSent(Instant(g))
    BY <1>1, <1>4, <1>5 DEF OwnInstants, FutureUnsent, NotSent
  <1>9. SlotYoung'
    BY <1>3, <1>4 DEF SlotYoung
  <1>10. UnsentInHand' /\ Distinct'
    BY <1>1 DEF OwnInstants, UnsentInHand, Distinct, OfInstant, NotSent
  <1>11. TickIsNew'
    <2>1. \A a \in Attempts : OfInstant(a) => att[a].inst # Instant(g)
      BY <1>7, <1>t, <1>4
    <2>2. tick'.inst = Instant(g)
      BY <1>1
    <2> QED BY <1>1, <1>8, <2>1, <2>2 DEF TickIsNew, OfInstant, NotSent
  <1>12. InOrder'
    <2>1. ASSUME NEW a \in Attempts, OfInstant(a)
          PROVE  att[a].inst < job'.next /\ att[a].inst < job'.slot.inst
      <3>1. att[a].inst < Instant(g)
        BY <1>7, <2>1
      <3> QED BY <1>t, <1>3, <1>4, <1>6, <3>1
    <2>2. /\ job'.slot.inst = tick'.inst /\ job'.slot.host = tick'.gw /\ tick'.at = "due"
      BY <1>1, <1>3, <1>4
    <2> QED BY <1>1, <2>1, <2>2 DEF InOrder, OfInstant
  <1>13. FutureUnsent'
    <2>1. ASSUME NEW i \in 1 .. MaxTime, job'.next <= i \/ job'.slot.inst <= i
          PROVE  sent[i] = 0 \/ i \in completed
      <3>1. Instant(g) <= i
        BY <1>3, <1>4, <1>6, <2>1
      <3> QED BY <1>1, <1>5, <3>1 DEF OwnInstants, FutureUnsent
    <2> QED BY <1>1, <2>1 DEF FutureUnsent
  <1> QED BY <1>9, <1>10, <1>11, <1>12, <1>13 DEF OwnInstants

\* A submission hands the instant of the tick to a new attempt.
LEMMA SubmitKeepsInstants ==
  ASSUME TypeOK, Hosted, Dated, Ahead, OwnInstants, NEW g \in Gateways, Submit(g)
  PROVE  OwnInstants'
  <1>1. PICK a \in Attempts : Unused(a) /\ Born(a, "queued", g, tick.inst)
    BY DEF Submit
  <1>2. Begun(a, "queued", g, tick.inst) /\ ~OfInstant(a)
    BY <1>1, Effects DEF Stages, TypeOK, Unused, OfInstant
  <1>3. /\ job' = job /\ sent' = sent /\ completed' = completed /\ tick' = NoTick
        /\ tick.gw = g /\ tick.at = "advanced" /\ tick'.at = "none" /\ tick'.gw = Nobody
    BY DEF Submit, NoTick
  <1>4. /\ Scheduled' = Scheduled /\ Slotted' = Slotted
    BY <1>3 DEF Scheduled, Slotted
  <1>5. \A b \in Attempts \ {a} : att'[b] = att[b] /\ OfInstant(b)' = OfInstant(b)
    BY <1>2 DEF Begun, OfInstant
  <1>6. SlotYoung'
    <2> SUFFICES ASSUME Slotted, Waiting(job.slot.host)' PROVE job.slot.fresh
      BY <1>3, <1>4 DEF SlotYoung
    <2>1. job.slot.host \in Gateways
      BY DEF Ahead
    <2>2. Waiting(job.slot.host)
      BY <1>2, <1>3, <1>5, <2>1 DEF Waiting, Begun
    <2> QED BY <2>2 DEF OwnInstants, SlotYoung
  <1>7. UnsentInHand'
    <2>1. NotSent(tick.inst) /\ att'[a].inst = tick.inst
      BY <1>2, <1>3 DEF OwnInstants, TickIsNew, Begun
    <2> QED BY <1>3, <1>5, <2>1 DEF OwnInstants, UnsentInHand, NotSent
  <1>8. Distinct'
    <2>1. \A b \in Attempts : OfInstant(b) => att[b].inst # att'[a].inst
      BY <1>2, <1>3 DEF OwnInstants, TickIsNew, Begun
    <2> QED BY <1>5, <2>1 DEF OwnInstants, Distinct
  <1>9. TickIsNew'
    BY <1>3 DEF TickIsNew
  <1>10. InOrder'
    <2>1. ASSUME Scheduled, NEW b \in Attempts, OfInstant(b)'
          PROVE  /\ att'[b].inst < job.next
                 /\ Slotted => att'[b].inst < job.slot.inst \/ Stamped(b)'
      <3>1. CASE b = a
        <4>1. att'[a].inst = tick.inst /\ att'[a].gw = tick.gw /\ att'[a].at = "queued"
          BY <1>2, <1>3 DEF Begun
        <4>2. tick.inst < job.next
          BY <1>3, <2>1 DEF OwnInstants, InOrder
        <4>3. Slotted => Stamped(a)'
          BY <1>3, <2>1, <4>1 DEF OwnInstants, InOrder, Stamped
        <4> QED BY <3>1, <4>1, <4>2, <4>3
      <3>2. CASE b # a
        <4>1. att'[b] = att[b] /\ OfInstant(b) /\ Stamped(b)' = Stamped(b)
          BY <1>3, <1>5, <2>1, <3>2 DEF Stamped
        <4> QED BY <2>1, <4>1 DEF OwnInstants, InOrder
      <3> QED BY <3>1, <3>2
    <2> QED BY <1>3, <1>4, <2>1 DEF InOrder
  <1>11. FutureUnsent'
    BY <1>3, <1>4 DEF OwnInstants, FutureUnsent
  <1> QED BY <1>6, <1>7, <1>8, <1>9, <1>10, <1>11 DEF OwnInstants

\* A send is for an instant of the attempt's own.
LEMMA SendKeepsInstants ==
  ASSUME TypeOK, Hosted, Dated, Ahead, OwnInstants, Carries, Keeps, SameRecord,
         tick' = tick, completed' = completed, NEW a \in Attempts, Sent(att[a].inst),
         Runs(a), att[a].at \in Unsent, att'[a].at \notin Unsent
  PROVE  OwnInstants'
  <1>1. /\ Scheduled' = Scheduled /\ Slotted' = Slotted
        /\ job'.slot = job.slot /\ job'.next = job.next
    BY DEF SameRecord, Scheduled, Slotted
  <1>2. \A i : i # att[a].inst \/ att[a].inst = 0 => (NotSent(i) => NotSent(i)')
    BY DEF NotSent, Sent
  <1>3. OfInstant(a) \/ att[a].inst = 0
    BY DEF OfInstant, Runs
  <1>4. SlotYoung'
    <2> SUFFICES ASSUME Slotted, Waiting(job.slot.host)' PROVE job.slot.fresh
      BY <1>1 DEF SlotYoung
    <2>1. job.slot.host \in Gateways
      BY DEF Ahead
    <2>2. \A h \in Gateways : Waiting(h)' => Waiting(h)
      BY WaitingStays
    <2>3. Waiting(job.slot.host)
      BY <1>1, <2>1, <2>2 DEF Waiting
    <2> QED BY <2>3 DEF OwnInstants, SlotYoung
  <1>5. UnsentInHand'
    <2> SUFFICES ASSUME NEW b \in Attempts, OfInstant(b)', att'[b].at \in Unsent
                 PROVE  NotSent(att[b].inst)' /\ att'[b].inst = att[b].inst
      BY DEF UnsentInHand, NotSent
    <2>1. OfInstant(b) /\ att[b].at \in Unsent /\ att'[b].inst = att[b].inst /\ b # a
      BY DEF Carries
    <2>2. NotSent(att[b].inst)
      BY <2>1 DEF OwnInstants, UnsentInHand
    <2>3. att[b].inst # att[a].inst \/ att[a].inst = 0
      BY <1>3, <2>1 DEF OwnInstants, Distinct
    <2> QED BY <1>2, <2>1, <2>2, <2>3
  <1>6. Distinct'
    BY DEF Carries, OwnInstants, Distinct
  <1>7. TickIsNew'
    <2> SUFFICES ASSUME tick.at # "none"
                 PROVE  /\ NotSent(tick.inst)'
                        /\ \A b \in Attempts : OfInstant(b)' => att'[b].inst # tick.inst
      BY DEF TickIsNew, NotSent
    <2>1. /\ NotSent(tick.inst)
          /\ \A b \in Attempts : OfInstant(b) => att[b].inst # tick.inst
      BY DEF OwnInstants, TickIsNew
    <2>2. tick.inst # att[a].inst \/ att[a].inst = 0
      BY <1>3, <2>1
    <2>3. NotSent(tick.inst)'
      BY <1>2, <2>1, <2>2 DEF NotSent
    <2> QED BY <2>1, <2>3 DEF Carries
  <1>8. ASSUME Scheduled', NEW b \in Attempts, OfInstant(b)'
        PROVE  /\ att'[b].inst < job'.next
               /\ Slotted' => att'[b].inst < job'.slot.inst \/ Stamped(b)'
    <2>1. OfInstant(b) /\ att'[b].inst = att[b].inst /\ (att[b].at = "queued" => att'[b] = att[b])
      BY <1>8 DEF Carries, Keeps
    <2>2. Stamped(b) => Stamped(b)'
      BY <1>1, <2>1 DEF Stamped
    <2> QED BY <1>1, <1>8, <2>1, <2>2 DEF OwnInstants, InOrder
  <1>9. InOrder'
    BY <1>1, <1>8 DEF OwnInstants, InOrder
  <1>10. FutureUnsent'
    <2> SUFFICES ASSUME Scheduled, NEW i \in 1 .. MaxTime,
                        job.next <= i \/ (Slotted /\ job.slot.inst <= i)
                 PROVE  sent'[i] = 0 \/ i \in completed
      BY <1>1 DEF FutureUnsent
    <2>1. sent[i] = 0 \/ i \in completed
      BY DEF OwnInstants, FutureUnsent
    <2>2. i # att[a].inst
      <3> SUFFICES ASSUME i = att[a].inst PROVE FALSE
        OBVIOUS
      <3>1. att[a].inst < job.next /\ (Slotted => att[a].inst < job.slot.inst)
        BY <1>3 DEF Runs, Stamped, OwnInstants, InOrder
      <3>2. job.next \in Nat /\ job.slot.inst \in Nat
        BY DEF TypeOK, Job, Slot
      <3> QED BY <3>1, <3>2
    <2> QED BY <2>1, <2>2 DEF Sent
  <1> QED BY <1>4, <1>5, <1>6, <1>7, <1>9, <1>10 DEF OwnInstants

\* While no slot expires under a dispatch that waits, every attempt keeps an instant of its own.
LEMMA InstantsStep ==
  ASSUME TypeOK, Hosted, Dated, Ahead, OwnInstants, ~Backlog, Recurring, [Next]_vars
  PROVE  OwnInstants'
  <1>t. /\ job \in Job /\ job.kind = "recurring"
    BY DEF TypeOK, Recurring
  <1>p. SlotYoung /\ UnsentInHand /\ Distinct /\ TickIsNew /\ InOrder /\ FutureUnsent
    BY DEF OwnInstants
  <1>g. NoTick.gw = Nobody /\ NoTick.at = "none"
    BY DEF NoTick
  \* The record stays, and so do the attempts and the tick.
  <1>q. ASSUME Carries, Keeps, SameRecord, tick' \in {tick, NoTick}, sent' = sent,
               completed \subseteq completed'
        PROVE  OwnInstants'
    <2>1. tick'.gw \in {tick.gw, Nobody} /\ (tick'.at # "none" => tick' = tick)
      BY <1>g, <1>q
    <2>2. SlotYoung' /\ InOrder' /\ FutureUnsent'
      BY <1>p, <1>q, <2>1, OrderStays
    <2>3. UnsentInHand' /\ Distinct' /\ TickIsNew'
      BY <1>p, <1>q, <2>1, HandsStay
    <2> QED BY <2>2, <2>3 DEF OwnInstants
  \* The job moves past the present instant.
  <1>m. ASSUME Carries, job'.next = now + 1,
               job'.slot = NoSlot \/ (job'.slot = job.slot /\ job'.state = job.state /\ Keeps),
               sent' = sent, completed' = completed, tick'.gw \in {tick.gw, Nobody},
               tick'.at # "none" =>
                 tick.at # "none" /\ tick'.inst = tick.inst /\ tick'.gw = tick.gw
        PROVE  OwnInstants'
    <2>1. SlotYoung' /\ InOrder' /\ FutureUnsent'
      BY <1>m, <1>p, OrderMovesOn
    <2>2. UnsentInHand' /\ Distinct' /\ TickIsNew'
      BY <1>m, <1>p, HandsStay
    <2> QED BY <2>1, <2>2 DEF OwnInstants
  <1>1. CASE Quiet
    <2>1. Carries /\ Keeps
      BY <1>1, OnwardCarries DEF Quiet
    <2> QED BY <1>1, <1>q, <2>1 DEF Quiet
  <1>2. ASSUME NEW g \in Gateways, ScanSkips(g) PROVE OwnInstants'
    <2>1. /\ att' = att /\ tick' = NoTick /\ tick = NoTick /\ sent' = sent /\ completed' = completed
          /\ job' = [Restored(g) EXCEPT !.next = now + 1]
      BY <1>2 DEF ScanSkips, Candidate, Recurring
    <2>2. Carries /\ Keeps
      BY <2>1, OnwardSteps, OnwardCarries
    <2>3. /\ Restored(g) \in Job /\ Restored(g).state = job.state
          /\ Restored(g).slot = job.slot \/ Restored(g).slot = NoSlot
      BY <1>t, Records, Fields DEF Restored, Job
    <2>4. /\ job'.next = now + 1 /\ job'.state = job.state
          /\ job'.slot = NoSlot \/ job'.slot = job.slot
      BY <2>1, <2>3 DEF Job
    <2> QED BY <1>g, <1>m, <2>1, <2>2, <2>4
  <1>3. ASSUME NEW g \in Gateways, ScanRecurring(g) PROVE OwnInstants'
    BY <1>3, ScanKeepsInstants
  <1>4. ASSUME NEW g \in Gateways, ScanRetires(g) \/ ScanOneShot(g) PROVE OwnInstants'
    BY <1>4 DEF ScanRetires, ScanOneShot
  <1>5. ASSUME NEW g \in Gateways, Advance(g) PROVE OwnInstants'
    <2>1. /\ att' = att /\ sent' = sent /\ completed' = completed
          /\ tick' = [tick EXCEPT !.at = "advanced"] /\ tick.at = "due"
      BY <1>5 DEF Advance
    <2>2. tick'.gw = tick.gw /\ tick'.inst = tick.inst /\ tick.at = "due"
      BY <2>1 DEF TypeOK
    <2>3. Carries /\ Keeps
      BY <2>1, OnwardSteps, OnwardCarries
    <2>4. CASE Scheduled
      <3>1. /\ job'.next = now + 1 /\ job'.slot = job.slot /\ job'.state = job.state
        BY <1>5, <1>t, <2>4 DEF Advance, Recurring, Job
      <3> QED BY <1>m, <2>1, <2>2, <2>3, <3>1
    <2>5. CASE ~Scheduled
      <3>1. job' = job
        BY <1>5, <2>5 DEF Advance
      <3>2. ~Scheduled' /\ ~Slotted'
        BY <2>5, <3>1 DEF Ahead, Scheduled, Slotted
      <3>3. SlotYoung' /\ InOrder' /\ FutureUnsent'
        BY <3>2 DEF SlotYoung, InOrder, FutureUnsent
      <3>4. UnsentInHand' /\ Distinct' /\ TickIsNew'
        BY <1>p, <2>1, <2>2, <2>3, HandsStay
      <3> QED BY <3>3, <3>4 DEF OwnInstants
    <2> QED BY <2>4, <2>5
  <1>6. ASSUME NEW g \in Gateways, Submit(g) PROVE OwnInstants'
    BY <1>6, SubmitKeepsInstants
  <1>7. ASSUME NEW a \in Attempts, NEW g, Grant(a, g), Carries, tick' = tick, sent' = sent,
               completed' = completed
        PROVE  OwnInstants'
    <2>1. job'.next = now + 1 /\ job'.slot = NoSlot
      BY <1>7, <1>t DEF Grant, Recurring, Job
    <2> QED BY <1>7, <1>m, <2>1
  <1>8. ASSUME NEW g \in Gateways, ManualClaim(g) PROVE OwnInstants'
    <2>1. PICK a \in Attempts : Grant(a, g) /\ Born(a, "won", g, 0) /\ att[a].at = "idle"
      BY <1>8 DEF ManualClaim, Unused
    <2>2. Begun(a, "won", g, 0)
      BY <2>1, Effects DEF Stages
    <2>3. Carries
      BY <2>1, <2>2 DEF Begun, Carries, OfInstant
    <2> QED BY <1>7, <1>8, <2>1, <2>3 DEF ManualClaim
  <1>9. ASSUME NEW a \in Attempts, Claim(a) PROVE OwnInstants'
    <2>1. Moved(a, "claimed") /\ att[a].at = "queued"
      BY <1>9, Effects DEF Claim
    <2>2. Carries
      BY <2>1 DEF Moved, Carries, OfInstant, Unsent
    <2>3. Grant(a, att[a].gw) /\ tick' = tick /\ sent' = sent /\ completed' = completed
      BY <1>9 DEF Claim
    <2> QED BY <1>7, <2>2, <2>3
  <1>10. ASSUME NEW a \in Attempts, ClaimRefused(a) PROVE OwnInstants'
    <2>1. Carries /\ Keeps
      BY <1>10, OnwardSteps, OnwardCarries DEF ClaimRefused
    <2>2. tick' = tick /\ sent' = sent /\ completed' = completed
      BY <1>10 DEF ClaimRefused
    <2>3. CASE Free /\ Claimable
      <3>1. /\ job'.next = now + 1 /\ job'.slot = job.slot /\ job'.state = job.state
        BY <1>10, <1>t, <2>3 DEF ClaimRefused, Recurring, Job
      <3> QED BY <1>m, <2>1, <2>2, <3>1
    <2>4. CASE ~(Free /\ Claimable)
      <3>1. SameRecord
        BY <1>10, <2>4 DEF ClaimRefused, SameRecord
      <3> QED BY <1>q, <2>1, <2>2, <3>1
    <2> QED BY <2>3, <2>4
  <1>11. ASSUME job' = Recorded, Carries, tick' \in {tick, NoTick}, sent' = sent,
                completed' = completed
         PROVE  OwnInstants'
    <2>1. job'.next = now + 1 /\ job'.slot = NoSlot
      BY <1>11, Schedules
    <2> QED BY <1>11, <1>g, <1>m, <2>1
  <1>12. ASSUME NEW g \in Gateways, Shutdown(g) PROVE OwnInstants'
    <2>1. PICK lost \in SUBSET Attempts : Goes(g, lost)
      BY <1>12 DEF Shutdown
    <2>2. Carries /\ tick' \in {tick, NoTick}
      BY <2>1, Effects, OnwardSteps, OnwardCarries DEF Goes
    <2> QED BY <1>11, <1>12, <2>2 DEF Shutdown
  <1>13. ASSUME NEW a \in Attempts, Mark(a) PROVE OwnInstants'
    <2>1. Carries /\ Keeps
      <3>1. Moved(a, "marked") \/ Left({a})
        BY <1>13, Effects DEF Mark, Stages
      <3>2. att[a].at = "closing"
        BY <1>13 DEF Mark
      <3> QED BY <3>1, <3>2 DEF Moved, Left, Carries, Keeps, OfInstant, Unsent
    <2>2. CASE Free /\ Mine(a)
      BY <1>11, <1>13, <2>1, <2>2 DEF Mark
    <2>3. CASE ~(Free /\ Mine(a))
      BY <1>13, <1>q, <2>1, <2>3 DEF Mark, SameRecord
    <2> QED BY <2>2, <2>3
  <1>14. ASSUME NEW a \in Attempts, Dispatch(a) PROVE OwnInstants'
    <2>1. Moved(a, "started") \/ Left({a})
      BY <1>14, Effects DEF Dispatch, Stages
    <2>2. Carries /\ Keeps
      BY <1>14, <2>1 DEF Dispatch, Moved, Left, Carries, Keeps, OfInstant, Unsent
    <2>3. job' = job /\ tick' = tick /\ sent' = sent /\ completed' = completed
      BY <1>14 DEF Dispatch
    <2> QED BY <1>q, <2>2, <2>3 DEF SameRecord
  <1>15. ASSUME NEW a \in Attempts, Deliver(a) \/ Raises(a) PROVE OwnInstants'
    <2>1. /\ tick' = tick /\ completed' = completed /\ SameRecord
      BY <1>15, <1>t DEF Deliver, Raises, IfMine, Beaten, Refreshed, SameRecord, Job, FireClaim, TypeOK
    <2>2. Runs(a) /\ att[a].at \in Unsent
      BY <1>15 DEF Deliver, Raises, Runs, Unsent
    <2>3. Moved(a, "delivering") \/ Moved(a, "closing") \/ Left({a})
      BY <1>15, Effects DEF Deliver, Raises, IfMine, Stages
    <2>4. Carries /\ Keeps /\ att'[a].at \notin Unsent
      BY <2>2, <2>3 DEF Moved, Left, Carries, Keeps, OfInstant, Unsent, Runs
    <2>5. CASE Sent(att[a].inst)
      BY <2>1, <2>2, <2>4, <2>5, SendKeepsInstants
    <2>6. CASE sent' = sent
      BY <1>q, <2>1, <2>4, <2>6
    <2> QED BY <1>15, <2>5, <2>6 DEF Deliver, Raises
  <1>16. ASSUME NEW a \in Attempts, Finish(a) PROVE OwnInstants'
    <2>1. Carries /\ Keeps
      BY <1>16, OnwardSteps, OnwardCarries DEF Finish
    <2>2. SameRecord /\ tick' = tick /\ sent' = sent /\ completed \subseteq completed'
      BY <1>16 DEF Finish, SameRecord
    <2> QED BY <1>q, <2>1, <2>2
  <1>17. CASE SlotExpires
    <2>1. /\ att' = att /\ tick' = tick /\ completed' = completed /\ sent' = sent
          /\ ~Waiting(job.slot.host)
      BY <1>17 DEF SlotExpires
    <2>2. /\ job'.state = job.state /\ job'.next = job.next
          /\ job'.slot.inst = job.slot.inst /\ job'.slot.host = job.slot.host
      BY <1>17, <1>t DEF SlotExpires, Aged, Job, Slot
    <2>3. Carries
      BY <2>1, OnwardSteps, OnwardCarries
    <2>4. UnsentInHand' /\ Distinct' /\ TickIsNew'
      BY <1>p, <2>1, <2>3, HandsStay
    <2>5. Slotted
      BY <1>17 DEF SlotExpires, Slotted, NoSlot
    <2>6. SlotYoung'
      BY <2>1, <2>2 DEF SlotYoung, Waiting
    <2>7. InOrder' /\ FutureUnsent'
      BY <1>p, <2>1, <2>2, <2>5 DEF InOrder, FutureUnsent, Scheduled, OfInstant, Stamped
    <2> QED BY <2>4, <2>6, <2>7 DEF OwnInstants
  <1>18. CASE Remove
    <2>1. /\ att' = att /\ tick' = tick /\ sent' = sent /\ job'.state = "deleted"
          /\ job'.slot = NoSlot
      BY <1>18, Schedules DEF Remove
    <2>2. Carries
      BY <2>1, OnwardSteps, OnwardCarries
    <2>3. UnsentInHand' /\ Distinct' /\ TickIsNew'
      BY <1>p, <2>1, <2>2, HandsStay
    <2>4. SlotYoung' /\ InOrder' /\ FutureUnsent'
      BY <2>1 DEF SlotYoung, InOrder, FutureUnsent, Scheduled, Slotted
    <2> QED BY <2>3, <2>4 DEF OwnInstants
  <1>19. CASE Rearm
    BY <1>19 DEF Rearm
  <1>20. CASE Restore
    <2>1. PICK i \in completed : i = now /\ job' = RolledBack(i)
      BY <1>20 DEF Restore
    <2>2. job'.next = now /\ job'.slot = NoSlot /\ now \in completed
      BY <2>1, Schedules
    <2>3. /\ att' = att /\ tick' = tick /\ tick.at = "none" /\ completed' = completed /\ sent' = sent
          /\ \A a \in Attempts : ~OfInstant(a)'
      BY <1>20, <1>g DEF Restore, OfInstant
    <2>4. Carries
      BY <2>3, OnwardSteps, OnwardCarries
    <2>5. UnsentInHand' /\ Distinct' /\ TickIsNew'
      BY <1>p, <2>3, <2>4, HandsStay
    <2>6. SlotYoung' /\ InOrder'
      BY <2>2, <2>3 DEF SlotYoung, InOrder, Slotted
    <2>7. ASSUME NEW j \in 1 .. MaxTime, now <= j PROVE sent[j] = 0 \/ j \in completed
      <3>1. now \in Nat /\ covered \in Nat /\ covered <= now
        BY DEF TypeOK, Dated
      <3>2. CASE j = now
        BY <2>2, <3>2
      <3>3. CASE j # now
        <4>1. ~(j <= covered)
          BY <2>7, <3>1, <3>3
        <4> QED BY <4>1 DEF Dated
      <3> QED BY <3>2, <3>3
    <2>8. FutureUnsent'
      BY <2>2, <2>3, <2>7 DEF FutureUnsent, Slotted
    <2> QED BY <2>5, <2>6, <2>8 DEF OwnInstants
  <1>21. CASE TimePasses
    <2>1. SameRecord /\ att' = att /\ tick' = tick /\ completed' = completed /\ sent' = sent
      BY <1>21 DEF TimePasses, SameRecord
    <2>2. Carries /\ Keeps
      BY <2>1, OnwardSteps, OnwardCarries
    <2> QED BY <1>q, <2>1, <2>2
  <1> QED
    BY <1>1, <1>2, <1>3, <1>4, <1>5, <1>6, <1>8, <1>9, <1>10, <1>12, <1>13, <1>14, <1>15,
       <1>16, <1>17, <1>18, <1>19, <1>20, <1>21, Steps
    DEF Eventful

(***************************************************************************)
(* Occurrences: one budget for every arming of a one-shot                  *)
(***************************************************************************)
Budgeted == BudgetSpent /\ Armed /\ Unspent /\ OwnerSpends

\* What waits, has marked its outcome or runs before its send was there before.
Follows ==
  \A a \in Attempts :
    /\ att'[a].at \in {"queued", "marked"} => att'[a] = att[a]
    /\ Runs(a)' /\ att'[a].inst # 0 =>
         /\ Runs(a) /\ att'[a].inst = att[a].inst
         /\ att'[a].at \in {"started", "ran", "saved"} => att[a].at \in {"started", "ran", "saved"}

LEMMA OnwardFollows ==
  ASSUME TypeOK, Hosted, Onward
  PROVE  Follows
  <1>1. ASSUME NEW a \in Attempts
        PROVE  /\ att'[a].at \in {"queued", "marked"} => att'[a] = att[a]
               /\ Runs(a)' /\ att'[a].inst # 0 =>
                    /\ Runs(a) /\ att'[a].inst = att[a].inst
                    /\ att'[a].at \in {"started", "ran", "saved"}
                         => att[a].at \in {"started", "ran", "saved"}
    <2>1. CASE att'[a].at = "idle"
      BY <2>1 DEF Runs
    <2>2. CASE att'[a] = att[a]
      BY <2>2 DEF Runs
    <2>3. CASE /\ att'[a].inst = att[a].inst /\ Runs(a) /\ Runs(a)' /\ att'[a].at # "marked"
               /\ (att'[a].at \in {"started", "ran", "saved"}
                     => att[a].at \in {"started", "ran", "saved"})
      BY <2>3 DEF Runs
    <2>4. CASE att'[a].inst = att[a].inst /\ att[a].at = "won" /\ att'[a].at = "claimed"
      BY <2>4 DEF Hosted, Runs
    <2> QED BY <2>1, <2>2, <2>3, <2>4 DEF Onward
  <1> QED BY <1>1 DEF Follows

\* What arms the job and what it has spent is as before.
SameBudget ==
  /\ job'.state = job.state /\ job'.next = job.next /\ job'.done = job.done
  /\ job'.fire.by = job.fire.by

\* A step that leaves the budget alone and sends nothing keeps the invariant; so does one that
\* completes an instant before the one the job is armed for.
LEMMA BudgetStays ==
  ASSUME TypeOK, Budgeted, Follows, SameBudget, sent' = sent,
         completed \subseteq completed',
         Scheduled /\ job.next \in completed' => job.next \in completed,
         tick'.at # "none" /\ Scheduled => tick'.inst = job.next
  PROVE  Budgeted'
  <1>1. Scheduled' = Scheduled /\ \A a \in Attempts : Mine(a)' = Mine(a)
    BY DEF SameBudget, Scheduled, Mine
  <1>2. BudgetSpent'
    BY DEF Budgeted, BudgetSpent, SameBudget
  <1>3. Armed'
    BY <1>1 DEF Budgeted, Armed, SameBudget, Follows
  <1>4. Unspent'
    BY <1>1 DEF Budgeted, Unspent, SameBudget, NotSent
  <1>5. OwnerSpends'
    <2> SUFFICES ASSUME NEW a \in Attempts, Mine(a)', Runs(a)', att'[a].inst # 0
                 PROVE  /\ Scheduled' => att'[a].inst = job'.next /\ job'.next \notin completed'
                        /\ att'[a].at \in {"started", "ran", "saved"} =>
                             job'.done = 1 /\ NotSent(att[a].inst)' /\ att'[a].inst = att[a].inst
      BY DEF OwnerSpends, NotSent
    <2>1. /\ Mine(a) /\ Runs(a) /\ att'[a].inst = att[a].inst
          /\ att'[a].at \in {"started", "ran", "saved"} => att[a].at \in {"started", "ran", "saved"}
      BY <1>1 DEF Follows
    <2>2. /\ Scheduled => att[a].inst = job.next /\ job.next \notin completed
          /\ att[a].at \in {"started", "ran", "saved"} => job.done = 1 /\ NotSent(att[a].inst)
      BY <2>1 DEF Budgeted, OwnerSpends
    <2> QED BY <1>1, <2>1, <2>2 DEF SameBudget, NotSent
  <1> QED BY <1>2, <1>3, <1>4, <1>5 DEF Budgeted

\* A record that is no longer armed and carries no claim has no budget to keep.
LEMMA BudgetOver ==
  ASSUME job'.state # "scheduled", job'.fire.by = Nobody, job'.state = "completed" => job'.done = 1
  PROVE  Budgeted'
  BY DEF Budgeted, BudgetSpent, Armed, Unspent, OwnerSpends, Scheduled, Mine

\* A dispatch spends the budget of the instant that its job is armed for.
LEMMA DispatchSpends ==
  ASSUME TypeOK, ClaimsCleared, Budgeted, ~Recurring, NEW a \in Attempts, Dispatch(a)
  PROVE  Budgeted'
  <1>t. job \in Job /\ job.done \in {0, 1} /\ att \in [Attempts -> Attempt]
    BY DEF TypeOK, Job
  <1>1. /\ att[a].at = "valid" /\ tick' = tick /\ completed' = completed /\ sent' = sent
    BY DEF Dispatch
  <1>2. CASE Stored /\ job.done = 1
    <2>1. job' = Dispatched /\ Ended(a)
      BY <1>2 DEF Dispatch
    <2>2. Left({a})
      BY <2>1, Effects
    <2>3. CASE ~job.ran
      <3>1. job'.state = "retired" /\ job'.fire.by = Nobody
        BY <2>1, <2>3, Schedules DEF Dispatched
      <3> QED BY <3>1, BudgetOver
    <2>4. CASE job.ran
      <3>1. /\ job'.state = "completed" /\ job'.done = job.done /\ job'.fire.by = job.fire.by
        BY <1>t, <2>1, <2>4 DEF Dispatched, Job
      <3>2. ~Scheduled' /\ \A b \in Attempts : Mine(b)' = Mine(b)
        BY <3>1 DEF Scheduled, Mine
      <3>3. BudgetSpent' /\ Armed' /\ Unspent'
        BY <1>2, <3>1, <3>2 DEF BudgetSpent, Armed, Unspent
      <3>4. OwnerSpends'
        <4> SUFFICES ASSUME NEW b \in Attempts, Mine(b)', Runs(b)', att'[b].inst # 0,
                            att'[b].at \in {"started", "ran", "saved"}
                     PROVE  job'.done = 1 /\ NotSent(att[b].inst)'
          BY <3>2 DEF OwnerSpends, NotSent
        <4>1. att'[b] = att[b]
          BY <2>2 DEF Left, Runs
        <4>2. NotSent(att[b].inst)
          BY <3>2, <4>1 DEF Budgeted, OwnerSpends, Runs
        <4> QED BY <1>1, <1>2, <3>1, <4>1, <4>2 DEF NotSent
      <3> QED BY <3>3, <3>4 DEF Budgeted
    <2> QED BY <2>3, <2>4
  <1>3. CASE ~(Stored /\ job.done = 1)
    <2>1. /\ job' = IF Stored THEN [job EXCEPT !.done = 1] ELSE job
          /\ Became(a, "started")
      BY <1>3 DEF Dispatch
    <2>2. Moved(a, "started")
      BY <2>1, Effects DEF Stages
    <2>3. /\ job'.state = job.state /\ job'.next = job.next /\ job'.fire.by = job.fire.by
          /\ Stored => job'.done = 1
      BY <1>t, <2>1 DEF Job
    <2>4. Scheduled' = Scheduled /\ \A b \in Attempts : Mine(b)' = Mine(b)
      BY <2>3 DEF Scheduled, Mine
    <2>5. \A b \in Attempts : Mine(b) => Stored
      BY DEF ClaimsCleared, Mine, NoFire
    <2>6. BudgetSpent' /\ Unspent'
      BY <2>3, <2>4 DEF BudgetSpent, Unspent, Stored, Scheduled
    <2>7. Armed'
      BY <1>1, <2>2, <2>3, <2>4 DEF Budgeted, Armed, Moved
    <2>8. OwnerSpends'
      <3> SUFFICES ASSUME NEW b \in Attempts, Mine(b), Runs(b)', att'[b].inst # 0
                   PROVE  /\ Scheduled => att'[b].inst = job.next /\ job.next \notin completed
                          /\ att'[b].at \in {"started", "ran", "saved"} =>
                               job'.done = 1 /\ NotSent(att[b].inst) /\ att'[b].inst = att[b].inst
        BY <1>1, <2>3, <2>4 DEF OwnerSpends, NotSent
      <3>1. Runs(b) /\ att'[b].inst = att[b].inst
        BY <1>1, <2>2 DEF Moved, Runs
      <3>2. /\ Scheduled => att[b].inst = job.next /\ job.next \notin completed
            /\ att[b].at \in {"started", "ran", "saved"} => job.done = 1 /\ NotSent(att[b].inst)
        BY <3>1 DEF Budgeted, OwnerSpends
      <3>3. Stored /\ job'.done = 1
        BY <2>3, <2>5
      <3>4. job.done = 0 /\ Scheduled
        <4>1. job.done = 0
          BY <1>3, <1>t, <3>3
        <4> QED BY <3>3, <4>1 DEF Budgeted, BudgetSpent, Stored, Scheduled
      <3>5. NotSent(att[b].inst)
        BY <3>2, <3>4 DEF Budgeted, Unspent
      <3> QED BY <3>1, <3>2, <3>3, <3>5
    <2> QED BY <2>6, <2>7, <2>8 DEF Budgeted
  <1> QED BY <1>2, <1>3

\* The run that owns the claim sends once its budget is spent.
LEMMA SendSpends ==
  ASSUME TypeOK, Budgeted, SameBudget, tick' = tick, completed' = completed,
         NEW a \in Attempts, Mine(a), att[a].at \in {"started", "saved"},
         Moved(a, "delivering") \/ Moved(a, "closing"), Sent(att[a].inst)
  PROVE  Budgeted'
  <1>1. Scheduled' = Scheduled /\ \A b \in Attempts : Mine(b)' = Mine(b)
    BY DEF SameBudget, Scheduled, Mine
  <1>2. BudgetSpent'
    BY DEF Budgeted, BudgetSpent, SameBudget
  <1>3. Armed'
    BY <1>1 DEF Budgeted, Armed, SameBudget, Moved
  <1>4. Runs(a)
    BY DEF Runs
  <1>5. Unspent'
    <2> SUFFICES ASSUME Scheduled, job.done = 0
                 PROVE  job.next \in completed \/ NotSent(job.next)'
      BY <1>1 DEF Unspent, SameBudget, NotSent
    <2>1. att[a].inst = 0
      BY <1>4 DEF Budgeted, OwnerSpends
    <2>2. job.next \in completed \/ NotSent(job.next)
      BY DEF Budgeted, Unspent
    <2>3. \A j \in 1 .. MaxTime : sent'[j] = sent[j]
      BY <2>1 DEF Sent
    <2>4. NotSent(job.next) => \A j \in 1 .. MaxTime : j = job.next => sent'[j] = 0
      BY <2>3 DEF NotSent
    <2>5. job'.next = job.next
      BY DEF SameBudget
    <2> QED BY <2>2, <2>4, <2>5 DEF NotSent
  <1>6. OwnerSpends'
    <2> SUFFICES ASSUME NEW b \in Attempts, Mine(b), Runs(b)', att'[b].inst # 0
                 PROVE  /\ Scheduled => att'[b].inst = job.next /\ job.next \notin completed
                        /\ att'[b].at \notin {"started", "ran", "saved"}
      BY <1>1 DEF OwnerSpends, SameBudget
    <2>1. b = a
      BY DEF Mine
    <2> QED BY <1>4, <2>1 DEF Budgeted, OwnerSpends, Moved
  <1> QED BY <1>2, <1>3, <1>5, <1>6 DEF Budgeted

\* While nobody rearms it over a dispatch that waits, a one-shot keeps one budget per arming.
LEMMA ArmingStep ==
  ASSUME TypeOK, Hosted, ClaimsCleared, Dated, Budgeted, ~Hasty, ~Recurring, [Next]_vars
  PROVE  Budgeted'
  <1>t. /\ job \in Job /\ job.kind # "recurring" /\ att \in [Attempts -> Attempt]
        /\ now \in Nat /\ covered \in Nat /\ covered <= now
    BY DEF TypeOK, Recurring, Dated
  <1>g. NoTick.at = "none"
    BY DEF NoTick
  <1>a. tick.at # "none" /\ Scheduled => tick.inst = job.next
    BY DEF Budgeted, Armed
  \* The budget is left alone, and so is what is completed.
  <1>q. ASSUME Follows, SameBudget, sent' = sent, completed' = completed,
               tick'.at # "none" => tick'.inst = job.next \/ (tick'.inst = tick.inst /\ tick.at # "none")
        PROVE  Budgeted'
    BY <1>a, <1>q, BudgetStays
  <1>f. att' = att => Follows
    BY OnwardSteps, OnwardFollows
  <1>s. job' = job => SameBudget
    BY DEF SameBudget
  <1>1. CASE Quiet
    <2>1. Follows
      BY <1>1, OnwardFollows DEF Quiet
    <2> QED BY <1>1, <1>g, <1>q, <2>1 DEF Quiet, SameRecord, SameBudget
  <1>2. ASSUME NEW g \in Gateways, ScanSkips(g) PROVE Budgeted'
    BY <1>2, <1>f, <1>q, <1>s DEF ScanSkips
  <1>3. ASSUME NEW g \in Gateways, ScanRecurring(g) PROVE Budgeted'
    BY <1>3 DEF ScanRecurring
  <1>4. ASSUME NEW g \in Gateways, ScanRetires(g) PROVE Budgeted'
    <2>1. job'.state = "retired" /\ job'.fire.by = Nobody
      BY <1>4, Schedules DEF ScanRetires
    <2> QED BY <2>1, BudgetOver
  <1>5. ASSUME NEW g \in Gateways, ScanOneShot(g) PROVE Budgeted'
    <2>1. SameBudget
      BY <1>5, <1>t DEF ScanOneShot, SameBudget, Job
    <2>2. tick'.inst = job.next
      BY <1>5 DEF ScanOneShot
    <2> QED BY <1>5, <1>f, <1>q, <2>1, <2>2 DEF ScanOneShot
  <1>6. ASSUME NEW g \in Gateways, Advance(g) PROVE Budgeted'
    <2>1. job' = job /\ tick'.inst = tick.inst /\ tick.at = "due"
      BY <1>6 DEF Advance, TypeOK
    <2> QED BY <1>6, <1>f, <1>q, <1>s, <2>1 DEF Advance
  <1>7. ASSUME NEW g \in Gateways, Submit(g) PROVE Budgeted'
    <2>1. PICK a \in Attempts : Born(a, "queued", g, tick.inst)
      BY <1>7 DEF Submit
    <2>2. Begun(a, "queued", g, tick.inst)
      BY <2>1, Effects DEF Stages, TypeOK
    <2>3. job' = job /\ completed' = completed /\ sent' = sent /\ tick' = NoTick /\ tick.at = "advanced"
      BY <1>7 DEF Submit
    <2>4. Scheduled' = Scheduled /\ \A b \in Attempts : Mine(b)' = Mine(b)
      BY <2>3 DEF Scheduled, Mine
    <2>5. BudgetSpent' /\ Unspent'
      BY <2>3, <2>4 DEF Budgeted, BudgetSpent, Unspent, NotSent
    <2>6. Armed'
      BY <1>a, <1>g, <2>2, <2>3, <2>4 DEF Budgeted, Armed, Begun
    <2>7. OwnerSpends'
      BY <2>2, <2>3, <2>4 DEF Budgeted, OwnerSpends, Begun, Runs, NotSent
    <2> QED BY <2>5, <2>6, <2>7 DEF Budgeted
  \* A claim is for the instant the job is armed for, or by hand.
  <1>8. ASSUME NEW a \in Attempts, NEW g, Grant(a, g), Claimable, tick' = tick, sent' = sent,
               completed' = completed, \A b \in Attempts \ {a} : att'[b] = att[b],
               \/ att'[a].at = "won"
               \/ att'[a].at = "claimed" /\ att[a].at = "queued" /\ att'[a].inst = att[a].inst
                  /\ job.next \notin completed
        PROVE  Budgeted'
    <2>1. /\ job'.state = job.state /\ job'.next = job.next /\ job'.done = job.done
          /\ job'.fire.by = a /\ Scheduled
      BY <1>8, <1>t DEF Grant, Recurring, Job, Claimable
    <2>2. Scheduled' = Scheduled /\ \A b \in Attempts : Mine(b)' => b = a
      BY <2>1 DEF Scheduled, Mine
    <2>3. BudgetSpent' /\ Unspent'
      BY <1>8, <2>1, <2>2 DEF Budgeted, BudgetSpent, Unspent, NotSent
    <2>4. Armed'
      BY <1>8, <2>1, <2>2 DEF Budgeted, Armed
    <2>5. OwnerSpends'
      <3> SUFFICES ASSUME Runs(a)'
                   PROVE  /\ att'[a].inst = job'.next /\ job'.next \notin completed'
                          /\ att'[a].at \notin {"started", "ran", "saved"}
        BY <2>2 DEF OwnerSpends
      <3>1. att'[a].at = "claimed" /\ att[a].at = "queued" /\ att'[a].inst = att[a].inst
        BY <1>8 DEF Runs
      <3> QED BY <1>8, <2>1, <3>1 DEF Budgeted, Armed
    <2> QED BY <2>3, <2>4, <2>5 DEF Budgeted
  <1>9. ASSUME NEW g \in Gateways, ManualClaim(g) PROVE Budgeted'
    <2>1. PICK a \in Attempts : Grant(a, g) /\ Born(a, "won", g, 0)
      BY <1>9 DEF ManualClaim
    <2>2. Begun(a, "won", g, 0)
      BY <2>1, Effects DEF Stages
    <2> QED BY <1>8, <1>9, <2>1, <2>2 DEF ManualClaim, Begun
  <1>10. ASSUME NEW a \in Attempts, Claim(a) PROVE Budgeted'
    <2>1. Moved(a, "claimed") /\ att[a].at = "queued" /\ Grant(a, att[a].gw)
      BY <1>10, Effects DEF Claim
    <2> QED BY <1>8, <1>10, <2>1 DEF Claim, Moved
  <1>11. ASSUME NEW a \in Attempts, ClaimRefused(a) PROVE Budgeted'
    <2>1. Follows
      BY <1>11, OnwardSteps, OnwardFollows DEF ClaimRefused
    <2> QED BY <1>11, <1>q, <1>s, <2>1 DEF ClaimRefused
  <1>12. ASSUME job' = Recorded PROVE Budgeted'
    <2>1. job'.state = "completed" /\ job'.done = 1 /\ job'.fire.by = Nobody
      BY <1>12, Schedules
    <2> QED BY <2>1, BudgetOver
  <1>13. ASSUME NEW g \in Gateways, Shutdown(g) PROVE Budgeted'
    BY <1>12, <1>13 DEF Shutdown
  <1>14. ASSUME NEW a \in Attempts, Mark(a) PROVE Budgeted'
    <2>1. CASE Free /\ Mine(a)
      BY <1>12, <1>14, <2>1 DEF Mark
    <2>2. CASE ~(Free /\ Mine(a))
      <3>1. Follows
        BY <1>14, <2>2, OnwardSteps, OnwardFollows DEF Mark
      <3> QED BY <1>14, <1>q, <1>s, <2>2, <3>1 DEF Mark
    <2> QED BY <2>1, <2>2
  <1>15. ASSUME NEW a \in Attempts, Dispatch(a) PROVE Budgeted'
    BY <1>15, DispatchSpends
  <1>16. ASSUME NEW a \in Attempts, Deliver(a) \/ Raises(a) PROVE Budgeted'
    <2>1. /\ tick' = tick /\ completed' = completed /\ SameBudget
          /\ att[a].at \in {"started", "saved"}
      BY <1>16, <1>t DEF Deliver, Raises, IfMine, Beaten, Refreshed, SameBudget, Job, FireClaim, TypeOK
    <2>2. \/ Mine(a) /\ Sent(att[a].inst) /\ (Became(a, "delivering") \/ Became(a, "closing"))
          \/ sent' = sent /\ Ended(a)
      BY <1>16 DEF Deliver, Raises, IfMine
    <2>3. CASE Mine(a) /\ Sent(att[a].inst) /\ (Became(a, "delivering") \/ Became(a, "closing"))
      <3>1. Moved(a, "delivering") \/ Moved(a, "closing")
        BY <2>3, Effects DEF Stages
      <3> QED BY <2>1, <2>3, <3>1, SendSpends
    <2>4. CASE sent' = sent /\ Ended(a)
      BY <1>q, <2>1, <2>4, OnwardSteps, OnwardFollows
    <2> QED BY <2>2, <2>3, <2>4
  <1>17. ASSUME NEW a \in Attempts, Finish(a) PROVE Budgeted'
    <2>1. /\ job' = job /\ tick' = tick /\ sent' = sent /\ att[a].at = "marked"
          /\ completed \subseteq completed'
          /\ completed' \subseteq completed \cup ({att[a].inst} \ {0})
      BY <1>17 DEF Finish
    <2>2. Follows
      BY <1>17, OnwardSteps, OnwardFollows DEF Finish
    <2>3. Scheduled /\ job.next \in completed' => job.next \in completed
      <3> SUFFICES ASSUME Scheduled, att[a].inst # 0 PROVE job.next # att[a].inst
        BY <2>1
      <3>1. att[a].inst < job.next /\ job.next \in Nat /\ att[a].inst \in Nat
        BY <1>t, <2>1 DEF Budgeted, Armed, Job, Attempt
      <3> QED BY <3>1
    <2> QED BY <1>a, <1>s, <2>1, <2>2, <2>3, BudgetStays
  <1>18. CASE SlotExpires
    <2>1. SameBudget
      BY <1>18, <1>t DEF SlotExpires, SameBudget, Job
    <2> QED BY <1>18, <1>f, <1>q, <2>1 DEF SlotExpires
  <1>19. CASE Remove
    <2>1. job'.state = "deleted" /\ job'.fire.by = Nobody
      BY <1>19, Schedules DEF Remove
    <2> QED BY <2>1, BudgetOver
  <1>20. CASE Rearm
    <2>1. /\ att' = att /\ tick' = tick /\ sent' = sent /\ completed' = completed
          /\ \A g \in Gateways : ~Waiting(g)
      BY <1>20 DEF Rearm
    <2>2. /\ job'.state = "scheduled" /\ job'.next = now + 1 /\ job'.fire.by = Nobody
      BY <1>20, <1>t, Schedules DEF Rearm, Job
    <2>3. tick.at = "none" /\ \A a \in Attempts : att[a].at # "queued"
      <3>1. tick.at # "none" => tick.gw \in Gateways
        BY DEF Dated
      <3>2. \A a \in Attempts : att[a].at = "queued" => att[a].gw \in Gateways
        BY DEF Hosted
      <3> QED BY <2>1, <3>1, <3>2 DEF Waiting
    <2>4. \A a \in Attempts : att[a].at = "marked" => att[a].inst < now + 1
      <3> SUFFICES ASSUME NEW a \in Attempts, att[a].at = "marked" PROVE att[a].inst < now + 1
        OBVIOUS
      <3>1. att[a].inst <= now /\ att[a].inst \in Nat
        BY <1>t DEF Dated, Attempt
      <3> QED BY <1>t, <3>1
    <2>5. NotSent(now + 1)
      <3> SUFFICES ASSUME NEW j \in 1 .. MaxTime, j = now + 1 PROVE sent[j] = 0
        BY DEF NotSent
      <3>1. ~(j <= covered)
        BY <1>t
      <3> QED BY <3>1 DEF Dated
    <2>6. BudgetSpent' /\ OwnerSpends'
      BY <2>2 DEF BudgetSpent, OwnerSpends, Mine
    <2>7. Armed'
      BY <2>1, <2>2, <2>3, <2>4 DEF Armed
    <2>8. Unspent'
      BY <2>1, <2>2, <2>5 DEF Unspent, NotSent
    <2> QED BY <2>6, <2>7, <2>8 DEF Budgeted
  <1>21. CASE Restore
    <2>1. PICK i \in completed : i = now /\ job' = RolledBack(i)
      BY <1>21 DEF Restore
    <2>2. /\ job'.state = "scheduled" /\ job'.next \in completed /\ job'.fire.by = Nobody
      BY <2>1, Schedules
    <2>3. /\ att' = att /\ tick' = tick /\ tick.at = "none" /\ completed' = completed
          /\ \A a \in Attempts : att[a].at = "idle"
      BY <1>21, <1>g DEF Restore
    <2> QED BY <2>2, <2>3
        DEF Budgeted, BudgetSpent, Armed, Unspent, OwnerSpends, Mine
  <1>22. CASE TimePasses
    BY <1>22, <1>f, <1>q, <1>s DEF TimePasses
  <1> QED
    BY <1>1, <1>2, <1>3, <1>4, <1>5, <1>6, <1>7, <1>9, <1>10, <1>11, <1>13, <1>14, <1>15, <1>16,
       <1>17, <1>18, <1>19, <1>20, <1>21, <1>22, Steps
    DEF Eventful

\* An occurrence is sent by one attempt, once: what is sent was unsent.
LEMMA SentOnceStep ==
  ASSUME TypeOK, Hosted, OncePerInstant, OncePerArming, SentOnce, ~Backlog, ~Hasty, [Next]_vars
  PROVE  SentOnce'
  <1>1. CASE sent' = sent
    BY <1>1 DEF SentOnce
  <1>2. ASSUME NEW a \in Attempts, Deliver(a) \/ Raises(a), sent' # sent PROVE SentOnce'
    <2>1. Mine(a) /\ Sent(att[a].inst) /\ att[a].at \in {"started", "saved"}
      BY <1>2 DEF Deliver, Raises, IfMine
    <2>2. att[a].inst # 0 => NotSent(att[a].inst)
      <3> SUFFICES ASSUME att[a].inst # 0 PROVE NotSent(att[a].inst)
        OBVIOUS
      <3>1. CASE Recurring
        BY <2>1, <3>1 DEF OncePerInstant, UnsentInHand, OfInstant, Unsent
      <3>2. CASE ~Recurring
        BY <2>1, <3>2 DEF OncePerArming, OwnerSpends, Runs
      <3> QED BY <3>1, <3>2
    <2>3. ASSUME NEW j \in 1 .. MaxTime PROVE sent'[j] <= 1
      <3>1. sent[j] <= 1 /\ sent[j] \in Nat
        BY DEF SentOnce, TypeOK
      <3>2. CASE j = att[a].inst
        BY <2>1, <2>2, <3>2 DEF NotSent, Sent
      <3>3. CASE j # att[a].inst
        BY <2>1, <3>1, <3>3 DEF Sent
      <3> QED BY <3>2, <3>3
    <2> QED BY <2>3 DEF SentOnce
  <1>3. CASE Quiet
    BY <1>1, <1>3 DEF Quiet
  <1>4. ASSUME NEW a \in Attempts,
               Claim(a) \/ ClaimRefused(a) \/ Dispatch(a) \/ Mark(a) \/ Finish(a)
        PROVE  SentOnce'
    BY <1>1, <1>4 DEF Claim, ClaimRefused, Dispatch, Mark, Finish
  <1>5. ASSUME NEW g \in Gateways,
               \/ ScanSkips(g) \/ ScanRecurring(g) \/ ScanRetires(g) \/ ScanOneShot(g)
               \/ Advance(g) \/ Submit(g) \/ ManualClaim(g) \/ Shutdown(g)
        PROVE  SentOnce'
    BY <1>1, <1>5 DEF ScanSkips, ScanRecurring, ScanRetires, ScanOneShot, Advance, Submit,
       ManualClaim, Shutdown
  <1>6. CASE SlotExpires \/ Remove \/ Rearm \/ Restore \/ TimePasses
    BY <1>1, <1>6 DEF SlotExpires, Remove, Rearm, Restore, TimePasses
  <1> QED BY <1>1, <1>2, <1>3, <1>4, <1>5, <1>6, Steps DEF Eventful

(***************************************************************************)
(* The inductive invariant                                                 *)
(***************************************************************************)
\* A job stays recurring, or a one-shot.
LEMMA SameKind == TypeOK /\ [Next]_vars => Recurring' = Recurring
  <1> SUFFICES ASSUME TypeOK, [Next]_vars PROVE job'.kind = job.kind
    BY DEF Recurring
  <1>j. job \in Job
    BY DEF TypeOK
  <1>r. ASSUME NEW g \in Gateways
        PROVE  DOMAIN Restored(g) = DOMAIN job /\ Restored(g).kind = job.kind
    BY <1>j DEF Restored, Job
  <1>1. CASE Quiet
    BY <1>1 DEF Quiet, SameRecord
  <1>2. ASSUME NEW g \in Gateways, ScanSkips(g) \/ ScanRecurring(g) PROVE job'.kind = job.kind
    <2>1. CASE ScanSkips(g)
      <3>1. [Restored(g) EXCEPT !.next = now + 1].kind = job.kind
        BY <1>r DEF Job
      <3> QED BY <2>1, <3>1 DEF ScanSkips
    <2>2. CASE ScanRecurring(g)
      <3>1. \A n, s : [Restored(g) EXCEPT !.next = n, !.slot = s].kind = job.kind
        BY <1>r DEF Job
      <3> QED BY <2>2, <3>1 DEF ScanRecurring
    <2> QED BY <1>2, <2>1, <2>2
  <1>3. ASSUME NEW g \in Gateways,
               ScanRetires(g) \/ ScanOneShot(g) \/ Advance(g) \/ Submit(g) \/ Shutdown(g)
        PROVE  job'.kind = job.kind
    <2>1. CASE ScanRetires(g)
      BY <2>1, Schedules DEF ScanRetires
    <2>2. CASE ScanOneShot(g)
      BY <2>2, <1>j DEF ScanOneShot, Job
    <2>3. CASE Advance(g)
      BY <2>3, <1>j DEF Advance, Job
    <2>4. CASE Submit(g)
      BY <2>4 DEF Submit
    <2>5. CASE Shutdown(g)
      BY <2>5, Schedules DEF Shutdown
    <2> QED BY <1>3, <2>1, <2>2, <2>3, <2>4, <2>5
  <1>4. ASSUME NEW g \in Gateways, ManualClaim(g) PROVE job'.kind = job.kind
    BY <1>4, <1>j DEF ManualClaim, Grant, Job
  <1>5. ASSUME NEW a \in Attempts, Claim(a) \/ ClaimRefused(a) \/ Dispatch(a)
        PROVE  job'.kind = job.kind
    <2>1. CASE Claim(a)
      BY <2>1, <1>j DEF Claim, Grant, Job
    <2>2. CASE ClaimRefused(a)
      BY <2>2, <1>j DEF ClaimRefused, Job
    <2>3. CASE Dispatch(a)
      <3>1. Dispatched.kind = job.kind
        BY <1>j, Schedules DEF Dispatched, Job
      <3>2. [job EXCEPT !.done = 1].kind = job.kind
        BY <1>j DEF Job
      <3> QED BY <2>3, <3>1, <3>2 DEF Dispatch
    <2> QED BY <1>5, <2>1, <2>2, <2>3
  <1>6. ASSUME NEW a \in Attempts, Deliver(a) \/ Raises(a) \/ Mark(a) \/ Finish(a)
        PROVE  job'.kind = job.kind
    <2>1. CASE Deliver(a)
      BY <2>1 DEF Deliver
    <2>2. CASE Raises(a)
      BY <2>2, <1>j DEF Raises, IfMine, Beaten, Job
    <2>3. CASE Mark(a)
      BY <2>3, <1>j, Schedules DEF Mark, Job
    <2>4. CASE Finish(a)
      BY <2>4, <1>j, Schedules DEF Finish, Job
    <2> QED BY <1>6, <2>1, <2>2, <2>3, <2>4
  <1>7. CASE SlotExpires
    BY <1>7, <1>j DEF SlotExpires, Job
  <1>8. CASE Remove
    BY <1>8, Schedules DEF Remove
  <1>9. CASE Rearm
    BY <1>9, <1>j DEF Rearm, Job
  <1>10. CASE Restore
    BY <1>10, Schedules DEF Restore
  <1>11. CASE TimePasses
    BY <1>11 DEF TimePasses
  <1> QED
    BY <1>1, <1>2, <1>3, <1>4, <1>5, <1>6, <1>7, <1>8, <1>9, <1>10, <1>11, Steps DEF Eventful

\* A recurring job keeps its instants apart, and a one-shot keeps to its budget.
LEMMA OccurrencesStep == Inv /\ [Next]_vars => OncePerInstant' /\ OncePerArming'
  <1> SUFFICES ASSUME Inv, [Next]_vars PROVE OncePerInstant' /\ OncePerArming'
    OBVIOUS
  <1>1. Recurring' = Recurring
    BY SameKind DEF Inv
  <1>2. ASSUME ~Backlog, Recurring PROVE OwnInstants'
    BY <1>2, InstantsStep DEF Inv, OncePerInstant, OwnInstants
  <1>3. ASSUME ~Hasty, ~Recurring PROVE Budgeted'
    BY <1>3, ArmingStep DEF Inv, OncePerArming, Budgeted
  <1> QED BY <1>1, <1>2, <1>3 DEF OncePerInstant, OncePerArming, OwnInstants, Budgeted

\* The strengthening that is inductive: nothing of the schedule gets lost either.
IInv == Inv /\ PassedIsCovered

\* It holds at first.
LEMMA InitInv == Init => IInv
  <1> SUFFICES ASSUME Init PROVE IInv
    OBVIOUS
  <1>1. NoFire \in FireClaim /\ NoRun \in RunClaim /\ NoSlot \in Slot /\ Over \in Attempt
    BY DEF NoFire, NoRun, NoSlot, Over, FireClaim, RunClaim, Slot, Attempt, Stages
  <1>2. /\ job \in Job /\ job.state = "scheduled" /\ job.run = NoRun /\ job.fire = NoFire
        /\ job.next = 1 /\ job.slot = NoSlot /\ job.done = 0
    <2>1. PICK k \in {"once", "recurring"} :
            job = [kind |-> k, state |-> "scheduled", next |-> 1, slot |-> NoSlot,
                   fire |-> NoFire, run |-> NoRun, done |-> 0, ran |-> FALSE]
      BY DEF Init
    <2> QED BY <1>1, <2>1 DEF Job
  <1>3. \A a \in Attempts : att[a] = Over /\ Over.at = "idle"
    BY DEF Init, Over
  <1>4. TypeOK
    BY <1>1, <1>2 DEF Init, TypeOK, NoTick
  <1>5. FenceHeld /\ FencedDelivery /\ Hosted
    BY <1>3 DEF Init, FenceHeld, FencedDelivery, Hosted
  <1>6. Ticking /\ ClaimsCleared /\ RunKept
    BY <1>2 DEF Init, Ticking, ClaimsCleared, RunKept, NoTick, NoRun, Stored
  <1>7. /\ ~Slotted /\ tick.at = "none" /\ completed = {} /\ now = 0 /\ covered = 0
        /\ \A i \in 1 .. MaxTime : sent[i] = 0
        /\ \A a \in Attempts : att[a].at = "idle" /\ ~Runs(a) /\ ~OfInstant(a)
    BY <1>2, <1>3 DEF Init, Slotted, NoTick, Runs, OfInstant
  <1>8. Dated /\ Ahead /\ PassedIsCovered
    BY <1>2, <1>7 DEF Dated, Ahead, PassedIsCovered
  <1>9. OncePerInstant
    BY <1>7 DEF OncePerInstant, SlotYoung, UnsentInHand, Distinct, TickIsNew, InOrder, FutureUnsent
  <1>10. OncePerArming
    BY <1>2, <1>7 DEF OncePerArming, BudgetSpent, Armed, Unspent, OwnerSpends, NotSent
  <1> QED BY <1>4, <1>5, <1>6, <1>8, <1>9, <1>10 DEF IInv, Inv

\* Every step keeps it.
LEMMA NextInv == IInv /\ [Next]_vars => IInv'
  BY TypeStep, FenceStep, HostedStep, ClearStep, KeptStep, DatedStep, AheadStep, OccurrencesStep
  DEF IInv, Inv

LEMMA InvarianceI == Spec => []IInv
  BY InitInv, NextInv, PTL DEF Spec

\* The inductive invariant holds in every reachable state: tokens, fences, claims and
\* occurrences of the job store stay consistent (cron/jobs.py, cron/scheduler.py).
THEOREM Invariance == Spec => []Inv
  <1>1. IInv => Inv
    BY DEF IInv
  <1> QED BY InvarianceI, <1>1, PTL

\* For any number of gateways and attempts, whatever expires, crashes or waits: the schedule of
\* a recurring job never moves past an instant that no run has claimed or recorded, that no
\* pending slot names and that the ledger does not know (advance_next_run,
\* unclaimed_pending_slot, _restore_unclaimed_slot).
THEOREM NothingPassed == Spec => []PassedIsCovered
  <1>1. IInv => PassedIsCovered
    BY DEF IInv
  <1> QED BY InvarianceI, <1>1, PTL

\* For any number of gateways and attempts, also with late heartbeats and remote hosts: an
\* instant is sent once, as long as no dispatch waits in the pool for longer than its slot
\* lives (Backlog) and nobody rearms a one-shot over a waiting dispatch (Hasty).
THEOREM SentOnceHolds ==
  ASSUME ~Backlog, ~Hasty
  PROVE  Spec => []SentOnce
  <1>1. Init => SentOnce
    BY DEF Init, SentOnce
  <1>2. IInv /\ SentOnce /\ [Next]_vars => SentOnce'
    BY SentOnceStep DEF IInv, Inv
  <1> QED BY InvarianceI, <1>1, <1>2, PTL DEF Spec

\* Every reachable state is well typed; a one-shot never spends more than its budget.
THEOREM TypeCorrect == Spec => []TypeOK
  <1>1. Inv => TypeOK
    BY DEF Inv
  <1> QED BY Invariance, <1>1, PTL

\* While an attempt delivers it holds the fence, and no other attempt has the claim
\* (fire_claim_fence, claim_job_for_fire).
THEOREM Fenced == Spec => []FencedDelivery
  <1>1. Inv => FencedDelivery
    BY DEF Inv
  <1> QED BY Invariance, <1>1, PTL

\* With heartbeats on time and no backlog in the pool, a scan never removes the record of a
\* one-shot while an attempt of a running gateway is inside it: its run claim is young
\* (RunKept) and so the scan leaves the job alone.
LEMMA NotDropped ==
  ASSUME Inv, [Next]_vars, ~Asleep, ~Backlog, NEW a \in Attempts, att[a].place = "gateway"
  PROVE  ~Dropped(a)
  <1> SUFFICES ASSUME Dropped(a) PROVE FALSE
    OBVIOUS
  <1>1. Beating(a) /\ att[a].at # "idle" /\ att[a].gw \in Gateways /\ up[att[a].gw]
    BY DEF Dropped, Beating, Inv, Hosted, Alive
  <1>2. Stored
    BY DEF Dropped, Mine, Inv, ClaimsCleared, NoFire
  <1>3. Retires
    BY <1>2, Retirement DEF Inv
  <1>4. ASSUME NEW g \in Gateways, ScanRetires(g) PROVE FALSE
    <2>1. Serving(att[a].gw) /\ job.run.host = att[a].gw
      BY <1>1 DEF Serving, Dropped
    <2>2. job.run.fresh
      BY <1>1, <2>1 DEF Inv, RunKept
    <2>3. Held
      BY <1>1, <1>4, <2>1, <2>2 DEF Held, Live, OwnerIsDead, ScanRetires
    <2> QED BY <1>4, <2>3 DEF ScanRetires, Due, Candidate
  <1>5. ASSUME NEW b \in Attempts, Dispatch(b) PROVE FALSE
    <2>1. att[b].at = "valid" /\ att' = att
      BY <1>5 DEF Dispatch, Dropped
    <2>2. Moved(b, "started") \/ Left({b})
      BY <1>5, Effects DEF Dispatch, Inv, Stages
    <2> QED BY <2>1, <2>2 DEF Moved, Left
  <1> QED BY <1>3, <1>4, <1>5 DEF Retires, Dropped

\* Slow is not stale, for any number of gateways and attempts.
THEOREM SlowRunsAreKept ==
  ASSUME ~Asleep, ~Backlog
  PROVE  Spec => SlowIsNotStale
  <1>1. Inv /\ [Next]_vars => [\A a \in Attempts : att[a].place = "gateway" => ~Dropped(a)]_vars
    BY NotDropped
  <1> QED BY Invariance, <1>1, PTL DEF Spec, SlowIsNotStale
=============================================================================
