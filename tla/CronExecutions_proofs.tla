----------------------- MODULE CronExecutions_proofs ------------------------
(***************************************************************************)
(* Machine-checked proofs about CronExecutions, for any attempts,          *)
(* schedulers and retention.  They assume that the start time of every     *)
(* process can be read (Opaque = {}): without that a live owner can be     *)
(* written off.                                                            *)
(***************************************************************************)
EXTENDS CronExecutions, TLAPS

USE ConstantsAssumption

(***************************************************************************)
(* Settlements and type correctness                                        *)
(***************************************************************************)
\* What a settlement with the compaction after it does to the table: row e is settled
\* or compacted at once, and of the others only terminal rows go.
LEMMA SettleFacts ==
  ASSUME TypeOK, NEW e \in Executions, NEW STATE status, status \in Terminal,
         Settle(e, status)
  PROVE  /\ ledger' \in [Executions -> Row] /\ clock' \in Nat
         /\ \A f \in Executions \ {e} :
              \/ ledger'[f] = ledger[f]
              \/ ledger[f].status \in Terminal /\ ledger'[f] = NoRow
         /\ \/ ledger'[e] = NoRow
            \/ /\ ledger'[e].status = status /\ ledger'[e].owner = ledger[e].owner
               /\ ledger'[e].handoff = "no"
  <1> DEFINE table == [ledger EXCEPT ![e] =
       [status |-> status, owner |-> ledger[e].owner, handoff |-> "no",
          finished |-> clock + 1]]
  <1>1. table \in [Executions -> Row] /\ clock' \in Nat /\ ledger' = Prune(table)
    BY DEF Settle, TypeOK, Row
  <1>2. /\ \A f \in Executions \ {e} : table[f] = ledger[f]
        /\ table[e].status = status /\ table[e].owner = ledger[e].owner /\ table[e].handoff = "no"
    BY DEF TypeOK, Row
  <1>3. NoRow \in Row
    BY DEF NoRow, Row
  <1> HIDE DEF table
  <1>4. \A f \in Executions :
          ledger'[f] = table[f] \/ (table[f].status \in Terminal /\ ledger'[f] = NoRow)
    <2>1. Excess(table) \subseteq Ended(table)
      BY DEF Excess
    <2> QED BY <1>1, <2>1 DEF Prune, Ended
  <1>5. ledger' \in [Executions -> Row]
    BY <1>1, <1>3 DEF Prune
  <1> QED BY <1>1, <1>2, <1>4, <1>5

\* finish_execution either settles a live row of its caller or changes nothing.
LEMMA FinishFacts ==
  ASSUME TypeOK, NEW e \in Executions, NEW STATE p, NEW STATE status, status \in Terminal,
         FinishExecution(e, p, status)
  PROVE  \/ UNCHANGED store /\ ~(ledger[e].status \in Live /\ ledger[e].owner = p)
         \/ ledger[e].status \in Live /\ ledger[e].owner = p /\ Settle(e, status)
  BY DEF FinishExecution

\* No step leaves the types.
LEMMA TypeStep == TypeOK /\ ProbedIsDead /\ [Next]_vars => TypeOK'
  <1> SUFFICES ASSUME TypeOK, ProbedIsDead, [Next]_vars PROVE TypeOK'
    OBVIOUS
  <1>0. \A e \in Executions : Recorded(e) \in Terminal /\ "failed" \in Terminal /\ "unknown" \in Terminal
    BY DEF Recorded, Terminal
  <1>a. NoProbe \in [id : Executions \cup {None}, row : Row] /\ NoRow \in Row
    BY DEF NoProbe, NoRow, Row
  <1>b. ASSUME NEW e \in Executions, NEW s \in Terminal, Settle(e, s)
        PROVE  ledger' \in [Executions -> Row] /\ clock' \in Nat
    BY <1>b, SettleFacts
  <1>c. ASSUME NEW e \in Executions, NEW p \in Processes \cup {None}, NEW s \in Terminal,
     FinishExecution(e, p, s)
        PROVE  ledger' \in [Executions -> Row] /\ clock' \in Nat
    BY <1>c, <1>b DEF FinishExecution, store, TypeOK
  <1>1. ASSUME NEW d \in Dispatchers, Launch(d) \/ Crash(d) PROVE TypeOK'
    <2>1. CASE Launch(d)
      BY <2>1 DEF Launch, TypeOK, store, desk, job, history
    <2>2. CASE Crash(d)
      BY <2>2, <1>a DEF Crash, TypeOK, store, desk, job, history
    <2> QED BY <1>1, <2>1, <2>2
  <1>2. ASSUME NEW d \in Dispatchers, Recovery(d) PROVE TypeOK'
    <2>1. CASE WriteOff(d)
      <3>1. probe[d].id \in Executions
        BY <2>1 DEF WriteOff, ProbedIsDead
      <3>2. ledger' \in [Executions -> Row] /\ clock' \in Nat
        BY <2>1, <3>1, <1>0, <1>b DEF WriteOff, store, TypeOK
      <3> QED BY <2>1, <3>2, <1>a DEF WriteOff, TypeOK, desk, job, history
    <2>2. CASE \E e \in Executions : Judge(d, e)
      BY <2>2 DEF Judge, TypeOK, store, desk, job, history
    <2> QED BY <1>2, <2>1, <2>2 DEF Recovery
  <1>3. ASSUME NEW d \in Dispatchers, NEW e \in Executions, Create(d, e) PROVE TypeOK'
    BY <1>3 DEF Create, Updated, TypeOK, Row, Live, Processes, job, history
  <1>4. ASSUME NEW e \in Executions, ThreadStep(e) PROVE TypeOK'
    <2>0. by[e] \in Processes \cup {None}
      BY DEF TypeOK, Processes
    <2>1. ASSUME ledger' \in [Executions -> Row] /\ clock' \in Nat,
                 Refuse(e) \/ FinishHere(e) \/ Close(e) \/ WaitEnds(e)
          PROVE  TypeOK'
      BY <2>1 DEF Refuse, FinishHere, Close, WaitEnds, Goto, TypeOK, job, history
    <2>2. CASE Refuse(e)
      BY <2>2, <2>1, <2>0, <1>0, <1>c DEF Refuse
    <2>3. CASE FinishHere(e)
      BY <2>3, <2>1, <2>0, <1>0, <1>c DEF FinishHere
    <2>4. CASE Close(e)
      BY <2>4, <2>1, <2>0, <1>0, <1>c DEF Close
    <2>5. CASE WaitEnds(e)
      <3>1. ledger' \in [Executions -> Row] /\ clock' \in Nat
        BY <2>5, <1>0, <1>b DEF WaitEnds, store, TypeOK
      <3> QED BY <2>5, <3>1, <2>1
    <2>6a. CASE RunHere(e)
      <3>1. ASSUME ledger[e].owner = by[e] PROVE Updated(e, "running", by[e], "no") \in Row
        BY <3>1 DEF Updated, TypeOK, Row, Live
      <3>2. ledger' \in [Executions -> Row] /\ starts' \in [Executions -> Nat]
        BY <2>6a, <3>1 DEF RunHere, TypeOK
      <3> QED BY <2>6a, <3>2 DEF RunHere, Goto, TypeOK, job, history
    <2>6b. CASE HandOff(e)
      <3>1. ASSUME ledger[e].owner = by[e] PROVE Updated(e, "claimed", by[e], "fresh") \in Row
        BY <3>1 DEF Updated, TypeOK, Row, Live
      <3>2. ledger' \in [Executions -> Row]
        BY <2>6b, <3>1 DEF HandOff, TypeOK
      <3> QED BY <2>6b, <3>2 DEF HandOff, Goto, TypeOK, job, history
    <2>7a. CASE Fire(e)
      BY <2>7a DEF Fire, MarkJob, Verdicts, Goto, TypeOK, store, history
    <2>7b. CASE MarkHere(e)
      BY <2>7b DEF MarkHere, MarkJob, Verdicts, Goto, TypeOK, store, history
    <2>7c. CASE MarkUndispatched(e)
      BY <2>7c DEF MarkUndispatched, MarkOrRaise, MarkJob, Goto, TypeOK, store, job, history
    <2>7d. CASE RunRaises(e)
      BY <2>7d DEF RunRaises, MarkOrRaise, MarkJob, Goto, TypeOK, store, job
    <2>8. CASE Spawn(e) \/ SpawnFails(e) \/ LookForAck(e) \/ PollExit(e)
      <3>1. CASE Spawn(e) \/ SpawnFails(e)
        BY <3>1 DEF Spawn, SpawnFails, Goto, TypeOK, store, job, history
      <3>2. CASE LookForAck(e)
        BY <3>2 DEF LookForAck, Goto, TypeOK, store, job, history
      <3>3. CASE PollExit(e)
        BY <3>3 DEF PollExit, Goto, TypeOK, store, job, history
      <3> QED BY <2>8, <3>1, <3>2, <3>3
    <2>9. CASE DispatchRaises(e) \/ GiveUp(e)
      <3>1. at' \in [Executions -> {"none", "created", "fired", "running", "marked", "spawning",
              "awaiting", "polling", "waiting", "undispatched", "closing", "done", "lost",
              "gone"}]
        BY <2>9 DEF DispatchRaises, GiveUp, Goto, TypeOK
      <3>2. UNCHANGED <<store, life, by, worker, ack, probe, job, history>>
        BY <2>9 DEF DispatchRaises, GiveUp, Goto
      <3> QED BY <3>1, <3>2 DEF TypeOK, store, job, history
    <2> QED BY <1>4, <2>2, <2>3, <2>4, <2>5, <2>6a, <2>6b, <2>7a, <2>7b, <2>7c, <2>7d,
       <2>8, <2>9 DEF ThreadStep
  <1>5. ASSUME NEW e \in Executions, WorkerStep(e) PROVE TypeOK'
    <2>1. CASE Adopt(e)
      <3>1. Updated(e, "running", e, "no") \in Row
        BY DEF Updated, TypeOK, Row, Live, Processes
      <3>2. ledger' \in [Executions -> Row] /\ worker' \in [Executions ->
              {"none", "spawned", "adopted", "acked", "running", "marked", "closing", "exited"}]
        BY <2>1, <3>1 DEF Adopt, Become, TypeOK
      <3> QED BY <2>1, <3>2 DEF Adopt, TypeOK, desk, job, history
    <2>2. CASE WorkerRefuses(e)
      <3>1. ledger' \in [Executions -> Row] /\ clock' \in Nat
        BY <2>2, <1>0, <1>c DEF WorkerRefuses, Processes
      <3> QED BY <2>2, <3>1 DEF WorkerRefuses, Become, TypeOK, desk, job, history
    <2>3. CASE WorkerFinishes(e)
      <3>1. ledger' \in [Executions -> Row] /\ clock' \in Nat
        BY <2>3, <1>0, <1>c DEF WorkerFinishes, Processes
      <3> QED BY <2>3, <3>1 DEF WorkerFinishes, Become, TypeOK, desk, job, history
    <2>4a. CASE Acknowledge(e)
      BY <2>4a DEF Acknowledge, MarkJob, Verdicts, Become, TypeOK, store, desk, job, history
    <2>4b. CASE WorkerRuns(e)
      BY <2>4b DEF WorkerRuns, MarkJob, Verdicts, Become, TypeOK, store, desk, job, history
    <2>4c. CASE WorkerMarks(e)
      BY <2>4c DEF WorkerMarks, MarkJob, Verdicts, Become, TypeOK, store, desk, job, history
    <2>5. CASE WorkerRaises(e)
      BY <2>5 DEF WorkerRaises, MarkOrRaise, MarkJob, Become, TypeOK, store, desk, job
    <2>6. CASE WorkerCloses(e)
      <3>1. ledger' \in [Executions -> Row] /\ clock' \in Nat
        BY <2>6, <1>0, <1>c DEF WorkerCloses, Processes
      <3> QED BY <2>6, <3>1 DEF WorkerCloses, Become, TypeOK, desk, job, history
    <2> QED BY <1>5, <2>1, <2>2, <2>3, <2>4a, <2>4b, <2>4c, <2>5, <2>6 DEF WorkerStep
  <1>6. ASSUME NEW e \in Executions, WorkerExits(e) \/ GraceEnds(e) PROVE TypeOK'
    <2>1. CASE WorkerExits(e)
      BY <2>1 DEF WorkerExits, Become, TypeOK, store, desk, job, history
    <2>2. CASE GraceEnds(e)
      BY <2>2 DEF GraceEnds, Updated, TypeOK, Row, desk, job, history
    <2> QED BY <1>6, <2>1, <2>2
  <1>7. CASE UNCHANGED vars
    BY <1>7 DEF TypeOK, vars, store, desk, job, history
  <1> QED BY <1>1, <1>2, <1>3, <1>4, <1>5, <1>6, <1>7 DEF Next

(***************************************************************************)
(* The settlements                                                         *)
(***************************************************************************)
\* What the steps that may settle row e with this status have in common.
Settles(e, status) ==
  /\ ledger[e].status \in Live
  /\ Settle(e, status)
  /\ UNCHANGED <<life, by, job, history>>
  /\ at' = at \/ at' = [at EXCEPT ![e] = "done"]
  /\ worker' = worker \/ worker' = [worker EXCEPT ![e] = "exited"]
  /\ probe' = probe \/ \E d \in Dispatchers : probe' = [probe EXCEPT ![d] = NoProbe]

\* A settlement keeps the invariant if the process that owned the row has left the
\* job's side effects and the status tells the truth.
LEMMA SettlesKeeps ==
  ASSUME Inv, TypeOK', NEW e \in Executions, NEW STATE status, status \in Terminal,
         Settles(e, status),
         worker'[e] \notin {"adopted", "acked", "running", "marked", "closing"},
         at'[e] \notin {"running", "marked"},
         worker[e] = "none" => worker' = worker,
         at[e] # "none",
         status = "unknown" => ~Alive(ledger[e].owner),
         status = "completed" => jobStatus[e] = "ok" /\ starts[e] = 1,
         status = "failed" => jobStatus[e] # "ok" \/ cut[e]
  PROVE  Inv'
  <1> USE DEF Inv, TypeOK
  <1>1. /\ \A f \in Executions \ {e} :
             \/ ledger'[f] = ledger[f]
             \/ ledger[f].status \in Terminal /\ ledger'[f] = NoRow
        /\ \/ ledger'[e] = NoRow
           \/ /\ ledger'[e].status = status /\ ledger'[e].owner = ledger[e].owner
              /\ ledger'[e].handoff = "no"
    BY SettleFacts DEF Settles
  <1>2. NoRow.status = "absent" /\ NoRow.handoff = "no" /\ "absent" \notin Terminal \cup Live
    BY DEF NoRow, Terminal, Live
  <1>a. RowOwned'
    BY <1>1, <1>2 DEF Settles, RowOwned, Live
  <1>b. WorkerOwns'
    BY <1>1, <1>2 DEF Settles, WorkerOwns, Terminal
  <1>c. ProbedIsDead'
    BY DEF Settles, ProbedIsDead, Live
  <1>4. Staged'
    BY <1>1, <1>2 DEF Settles, Staged, Terminal, Live, job, history
  <1>9. StartedOnce' /\ ClaimSpentOnce'
    BY <1>1, <1>2 DEF Settles, StartedOnce, ClaimSpentOnce, Terminal, Live, job, history
  <1>8. CutAfterMark'
    BY <1>1, <1>2 DEF Settles, CutAfterMark, Terminal, job, history
  <1>5. SideEffectsOwned'
    <2> SUFFICES ASSUME NEW f \in Executions, NEW p \in Processes, RunningIn(f, p)'
                 PROVE  ledger'[f].status = "running" /\ ledger'[f].owner = p
      BY DEF SideEffectsOwned
    <2>1. f # e
      BY DEF RunningIn, Settles
    <2>2. RunningIn(f, p)
      BY <2>1 DEF RunningIn, Settles
    <2>3. ledger[f].status = "running" /\ ledger[f].owner = p
      BY <2>2 DEF SideEffectsOwned
    <2> QED BY <1>1, <2>1, <2>3 DEF Terminal
  <1>6. UnknownOwnerGone'
    BY <1>1, <1>2 DEF Settles, UnknownOwnerGone, RowOwned, Alive, WorkerUp, Terminal, Live
  <1>7. LedgerAgreesWithJob'
    BY <1>1, <1>2 DEF Settles, LedgerAgreesWithJob, Terminal, Live, job, history
  <1> QED BY <1>a, <1>b, <1>c, <1>4, <1>5, <1>6, <1>7, <1>8, <1>9

(***************************************************************************)
(* The inductive invariant                                                 *)
(***************************************************************************)
\* The invariant holds at the start.
LEMMA InvInit == Init => Inv
  <1> SUFFICES ASSUME Init PROVE Inv
    OBVIOUS
  <1> USE DEF Init
  <1>1. TypeOK
    BY DEF TypeOK, NoRow, NoProbe, Row
  <1>2. /\ RowOwned /\ WorkerOwns /\ ProbedIsDead /\ Staged /\ StartedOnce
        /\ ClaimSpentOnce /\ CutAfterMark
    BY DEF RowOwned, WorkerOwns, ProbedIsDead, Staged, StartedOnce, ClaimSpentOnce,
       CutAfterMark, NoRow
  <1>3. SideEffectsOwned /\ UnknownOwnerGone /\ LedgerAgreesWithJob
    BY DEF SideEffectsOwned, RunningIn, UnknownOwnerGone, LedgerAgreesWithJob, NoRow
  <1> QED BY <1>1, <1>2, <1>3 DEF Inv

\* Steps about one attempt that leave the ledger alone.
RowAlone(e) ==
  \/ Fire(e) \/ MarkHere(e) \/ Spawn(e) \/ SpawnFails(e) \/ LookForAck(e) \/ PollExit(e)
  \/ MarkUndispatched(e) \/ RunRaises(e) \/ DispatchRaises(e) \/ GiveUp(e)
  \/ WorkerExits(e) \/ Acknowledge(e) \/ WorkerRuns(e) \/ WorkerMarks(e) \/ WorkerRaises(e)

LEMMA RowsAloneKeeps ==
  ASSUME Opaque = {}, Inv, TypeOK', UNCHANGED ledger
  PROVE  /\ \A d \in Dispatchers :
              /\ Launch(d) \/ Crash(d) => Inv'
              /\ \A e \in Executions : Judge(d, e) => Inv'
         /\ \A e \in Executions :
              RowAlone(e) => Inv'
  <1> USE DEF Inv, TypeOK, RowOwned, WorkerOwns, ProbedIsDead, Staged, StartedOnce,
              ClaimSpentOnce, CutAfterMark, SideEffectsOwned, UnknownOwnerGone, LedgerAgreesWithJob,
              RunningIn, Alive, WorkerUp, Processes, desk, job, history
  <1>1. ASSUME NEW d \in Dispatchers, Launch(d) PROVE Inv'
    BY <1>1 DEF Launch
  <1>2. ASSUME NEW d \in Dispatchers, Crash(d) PROVE Inv'
    BY <1>2 DEF Crash
  <1>3. ASSUME NEW d \in Dispatchers, NEW e \in Executions, Judge(d, e) PROVE Inv'
    BY <1>3 DEF Judge, Abandoned, OwnerIsLive, NoProbe, Live, Row
  <1>4. ASSUME NEW e \in Executions, Fire(e) PROVE Inv'
    BY <1>4 DEF Fire, Thread, Goto
  <1>5. ASSUME NEW e \in Executions, MarkHere(e) PROVE Inv'
    BY <1>5 DEF MarkHere, Thread, Goto, MarkJob, Verdicts
  <1>6. ASSUME NEW e \in Executions, Spawn(e) PROVE Inv'
    BY <1>6 DEF Spawn, Thread, Goto
  <1>7. ASSUME NEW e \in Executions, SpawnFails(e) PROVE Inv'
    BY <1>7 DEF SpawnFails, Thread, Goto
  <1>8. ASSUME NEW e \in Executions, LookForAck(e) PROVE Inv'
    BY <1>8 DEF LookForAck, Thread, Goto
  <1>9. ASSUME NEW e \in Executions, PollExit(e) PROVE Inv'
    BY <1>9 DEF PollExit, Thread, Goto
  <1>9a. ASSUME NEW e \in Executions, NEW v \in {"error", "dispatch_failed"},
                MarkOrRaise(e, v)
         PROVE  /\ \A f \in Executions \ {e} :
                     fireClaim'[f] = fireClaim[f] /\ jobStatus'[f] = jobStatus[f]
                /\ jobStatus'[e] \in {jobStatus[e], v}
                /\ jobStatus[e] # "none" => jobStatus'[e] = jobStatus[e]
                /\ fireClaim'[e] => fireClaim[e] /\ jobStatus'[e] = jobStatus[e]
    BY <1>9a DEF MarkOrRaise, MarkJob
  <1>10. ASSUME NEW e \in Executions, MarkUndispatched(e) PROVE Inv'
    <2>1. /\ \A f \in Executions \ {e} :
               /\ fireClaim'[f] = fireClaim[f] /\ jobStatus'[f] = jobStatus[f]
               /\ at'[f] = at[f]
          /\ jobStatus'[e] \in {jobStatus[e], "dispatch_failed"}
          /\ jobStatus[e] # "none" => jobStatus'[e] = jobStatus[e]
          /\ fireClaim'[e] => fireClaim[e] /\ jobStatus'[e] = jobStatus[e]
          /\ at[e] = "undispatched" /\ at'[e] = "closing"
          /\ UNCHANGED <<store, life, by, worker, ack, probe, starts, cut>>
      BY <1>9a, <1>10 DEF MarkUndispatched, Thread, Goto, history
    <2>2. StartedOnce' /\ ClaimSpentOnce' /\ CutAfterMark' /\ LedgerAgreesWithJob'
      <3>1. StartedOnce'
        BY <2>1
      <3>2. ClaimSpentOnce'
        BY <2>1
      <3>3. CutAfterMark'
        BY <2>1
      <3>4. LedgerAgreesWithJob'
        BY <2>1
      <3> QED BY <3>1, <3>2, <3>3, <3>4
    <2>3. RowOwned' /\ WorkerOwns' /\ ProbedIsDead' /\ Staged'
      BY <2>1
    <2>4. SideEffectsOwned' /\ UnknownOwnerGone'
      BY <2>1
    <2> QED BY <2>2, <2>3, <2>4
  <1>11. ASSUME NEW e \in Executions, WorkerExits(e) PROVE Inv'
    BY <1>11 DEF WorkerExits, Become
  <1>12. ASSUME NEW e \in Executions, Acknowledge(e) PROVE Inv'
    BY <1>12 DEF Acknowledge, Become
  <1>13. ASSUME NEW e \in Executions, WorkerRuns(e) PROVE Inv'
    BY <1>13 DEF WorkerRuns, Become, Live
  <1>14. ASSUME NEW e \in Executions, WorkerMarks(e) PROVE Inv'
    BY <1>14 DEF WorkerMarks, Become, MarkJob, Verdicts
  <1>15. ASSUME NEW e \in Executions, RunRaises(e) PROVE Inv'
    <2>1. /\ \A f \in Executions \ {e} :
               /\ fireClaim'[f] = fireClaim[f] /\ jobStatus'[f] = jobStatus[f]
               /\ at'[f] = at[f] /\ cut'[f] = cut[f]
          /\ jobStatus'[e] \in {jobStatus[e], "error"}
          /\ fireClaim'[e] => fireClaim[e] /\ jobStatus'[e] = jobStatus[e]
          /\ at[e] \in {"fired", "running", "marked"} /\ at'[e] = "closing"
          /\ cut'[e] = (at[e] = "marked")
          /\ UNCHANGED <<store, life, by, worker, ack, probe, starts>>
      BY <1>9a, <1>15 DEF RunRaises, Thread, Goto
    <2>2. jobStatus'[e] = "ok" => cut'[e]
      BY <2>1
    <2>3. StartedOnce' /\ ClaimSpentOnce' /\ CutAfterMark' /\ LedgerAgreesWithJob'
      <3>1. StartedOnce'
        BY <2>1
      <3>2. ClaimSpentOnce'
        BY <2>1
      <3>3. CutAfterMark'
        BY <2>1, <2>2
      <3>4. LedgerAgreesWithJob'
        BY <2>1, <2>2
      <3> QED BY <3>1, <3>2, <3>3, <3>4
    <2>4. RowOwned' /\ WorkerOwns' /\ ProbedIsDead' /\ Staged'
      BY <2>1
    <2>5. SideEffectsOwned' /\ UnknownOwnerGone'
      BY <2>1
    <2> QED BY <2>3, <2>4, <2>5
  <1>16. ASSUME NEW e \in Executions, DispatchRaises(e) PROVE Inv'
    BY <1>16 DEF DispatchRaises, Goto
  <1>17. ASSUME NEW e \in Executions, GiveUp(e) PROVE Inv'
    BY <1>17 DEF GiveUp, Goto
  <1>18. ASSUME NEW e \in Executions, WorkerRaises(e) PROVE Inv'
    <2>1. /\ \A f \in Executions \ {e} :
               /\ fireClaim'[f] = fireClaim[f] /\ jobStatus'[f] = jobStatus[f]
               /\ worker'[f] = worker[f] /\ cut'[f] = cut[f]
          /\ jobStatus'[e] \in {jobStatus[e], "error"}
          /\ fireClaim'[e] => fireClaim[e] /\ jobStatus'[e] = jobStatus[e]
          /\ worker[e] \in {"acked", "running", "marked"} /\ worker'[e] = "closing"
          /\ cut'[e] = (worker[e] = "marked")
          /\ UNCHANGED <<store, life, by, at, ack, probe, starts>>
      BY <1>9a, <1>18 DEF WorkerRaises, Become
    <2>2. jobStatus'[e] = "ok" => cut'[e]
      BY <2>1
    <2>3. StartedOnce' /\ ClaimSpentOnce' /\ CutAfterMark' /\ LedgerAgreesWithJob'
      <3>1. StartedOnce'
        BY <2>1
      <3>2. ClaimSpentOnce'
        BY <2>1
      <3>3. CutAfterMark'
        BY <2>1, <2>2
      <3>4. LedgerAgreesWithJob'
        BY <2>1, <2>2
      <3> QED BY <3>1, <3>2, <3>3, <3>4
    <2>4. RowOwned' /\ WorkerOwns' /\ ProbedIsDead' /\ Staged'
      BY <2>1
    <2>5. SideEffectsOwned' /\ UnknownOwnerGone'
      BY <2>1
    <2> QED BY <2>3, <2>4, <2>5
  <1> QED BY <1>1, <1>2, <1>3, <1>4, <1>5, <1>6, <1>7, <1>8, <1>9, <1>10, <1>11, <1>12,
     <1>13, <1>14, <1>15, <1>16, <1>17, <1>18 DEF RowAlone

\* Steps that write the row of an open attempt.
LEMMA RowWrittenKeeps ==
  ASSUME Opaque = {}, Inv, TypeOK', NEW e \in Executions
  PROVE  /\ \A d \in Dispatchers : Create(d, e) => Inv'
         /\ RunHere(e) \/ HandOff(e) \/ GraceEnds(e) \/ Adopt(e) => Inv'
  <1> USE DEF Inv, TypeOK, RowOwned, WorkerOwns, ProbedIsDead, Staged, StartedOnce,
              ClaimSpentOnce, CutAfterMark, SideEffectsOwned, UnknownOwnerGone, LedgerAgreesWithJob,
              RunningIn, Alive, WorkerUp, Processes, Updated, desk, job, history
  <1>1. ASSUME NEW d \in Dispatchers, Create(d, e) PROVE Inv'
    BY <1>1 DEF Create
  <1>2. ASSUME RunHere(e) PROVE Inv'
    <2>1. CASE ledger[e].status = "claimed" /\ ledger[e].handoff = "no" /\ ledger[e].owner = by[e]
      <3>1. RowOwned'
        BY <1>2, <2>1 DEF RunHere, Thread, Goto
      <3>2. WorkerOwns'
        BY <1>2, <2>1 DEF RunHere, Thread, Goto
      <3>3. ProbedIsDead'
        BY <1>2, <2>1 DEF RunHere, Thread, Goto
      <3>4. Staged'
        BY <1>2, <2>1 DEF RunHere, Thread, Goto
      <3>9. CutAfterMark'
        BY <1>2, <2>1 DEF RunHere, Thread, Goto
      <3>8. StartedOnce' /\ ClaimSpentOnce'
        <4>1. /\ ledger'[e].status = "running" /\ worker' = worker /\ worker[e] = "none"
              /\ jobStatus' = jobStatus /\ fireClaim' = fireClaim /\ starts'[e] = 1
              /\ \A f \in Executions \ {e} :
                   ledger'[f] = ledger[f] /\ at'[f] = at[f] /\ starts'[f] = starts[f]
          BY <1>2, <2>1 DEF RunHere, Thread, Goto
        <4> QED BY <4>1
      <3>5. SideEffectsOwned'
        BY <1>2, <2>1 DEF RunHere, Thread, Goto
      <3>6. UnknownOwnerGone'
        BY <1>2, <2>1 DEF RunHere, Thread, Goto
      <3>7. LedgerAgreesWithJob'
        <4>1. /\ ledger'[e].status = "running" /\ jobStatus' = jobStatus
              /\ cut' = cut
              /\ \A f \in Executions \ {e} : ledger'[f] = ledger[f] /\ starts'[f] = starts[f]
          BY <1>2, <2>1 DEF RunHere
        <4> QED BY <4>1
      <3> QED BY <3>1, <3>2, <3>3, <3>4, <3>5, <3>6, <3>7, <3>8, <3>9
    <2>2. CASE UNCHANGED ledger
      BY <1>2, <2>2 DEF RunHere, Thread, Goto
    <2> QED BY <1>2, <2>1, <2>2 DEF RunHere
  <1>3. ASSUME HandOff(e) PROVE Inv'
    <2>1. CASE ledger[e].status = "claimed" /\ ledger[e].owner = by[e]
      <3>1. RowOwned'
        BY <1>3, <2>1 DEF HandOff, Thread, Goto
      <3>2. WorkerOwns'
        BY <1>3, <2>1 DEF HandOff, Thread, Goto
      <3>3. ProbedIsDead'
        BY <1>3, <2>1 DEF HandOff, Thread, Goto
      <3>4. Staged'
        BY <1>3, <2>1 DEF HandOff, Thread, Goto
      <3>8. StartedOnce' /\ ClaimSpentOnce'
        BY <1>3, <2>1 DEF HandOff, Thread, Goto
      <3>9. CutAfterMark'
        BY <1>3, <2>1 DEF HandOff, Thread, Goto
      <3>5. SideEffectsOwned'
        BY <1>3, <2>1 DEF HandOff, Thread, Goto
      <3>6. UnknownOwnerGone'
        <4>1. /\ ledger'[e].status = "claimed" /\ life' = life /\ worker' = worker
              /\ \A f \in Executions \ {e} : ledger'[f] = ledger[f]
          BY <1>3, <2>1 DEF HandOff
        <4> QED BY <4>1
      <3>7. LedgerAgreesWithJob'
        BY <1>3, <2>1 DEF HandOff, Thread, Goto
      <3> QED BY <3>1, <3>2, <3>3, <3>4, <3>5, <3>6, <3>7, <3>8, <3>9
    <2>2. CASE UNCHANGED ledger
      BY <1>3, <2>2 DEF HandOff, Thread, Goto
    <2> QED BY <1>3, <2>1, <2>2 DEF HandOff
  <1>4. ASSUME GraceEnds(e) PROVE Inv'
    BY <1>4 DEF GraceEnds, NoRow
  <1>5. ASSUME Adopt(e) PROVE Inv'
    <2>1. CASE ledger[e].status = "claimed" /\ ledger[e].handoff # "no"
      <3>1. RowOwned'
        BY <1>5, <2>1 DEF Adopt, Become
      <3>2. WorkerOwns'
        BY <1>5, <2>1 DEF Adopt, Become
      <3>3. ProbedIsDead'
        BY <1>5, <2>1 DEF Adopt, Become
      <3>4. Staged'
        BY <1>5, <2>1 DEF Adopt, Become
      <3>8. StartedOnce' /\ ClaimSpentOnce'
        BY <1>5, <2>1 DEF Adopt, Become
      <3>9. CutAfterMark'
        BY <1>5, <2>1 DEF Adopt, Become
      <3>5. SideEffectsOwned'
        <4>1. /\ worker'[e] = "adopted" /\ at' = at /\ by' = by /\ life' = life
              /\ at[e] \notin {"running", "marked"}
              /\ \A f \in Executions \ {e} :
                   ledger'[f] = ledger[f] /\ worker'[f] = worker[f]
          BY <1>5, <2>1 DEF Adopt, Become
        <4>2. ASSUME NEW f \in Executions, NEW p \in Executions \cup Dispatchers,
           RunningIn(f, p)'
              PROVE  f # e /\ RunningIn(f, p)
          BY <4>1, <4>2
        <4> QED BY <4>1, <4>2
      <3>6. UnknownOwnerGone'
        BY <1>5, <2>1 DEF Adopt, Become
      <3>7. LedgerAgreesWithJob'
        BY <1>5, <2>1 DEF Adopt, Become
      <3> QED BY <3>1, <3>2, <3>3, <3>4, <3>5, <3>6, <3>7, <3>8, <3>9
    <2>2. CASE UNCHANGED ledger
      BY <1>5, <2>2 DEF Adopt, Become
    <2> QED BY <1>5, <2>1, <2>2 DEF Adopt
  <1> QED BY <1>1, <1>2, <1>3, <1>4, <1>5

\* Steps that may settle a row.
LEMMA RowSettledKeeps ==
  ASSUME Opaque = {}, Inv, TypeOK', NEW e \in Executions
  PROVE  /\ \A d \in Dispatchers : WriteOff(d) => Inv'
         /\ Refuse(e) \/ FinishHere(e) \/ Close(e) \/ WaitEnds(e) => Inv'
         /\ WorkerRefuses(e) \/ WorkerFinishes(e) \/ WorkerCloses(e) => Inv'
  <1>0. {"completed", "failed", "unknown"} = Terminal /\ Live = {"claimed", "running"}
    BY DEF Terminal, Live
  <1>1. ASSUME NEW d \in Dispatchers, WriteOff(d) PROVE Inv'
    <2> DEFINE x == probe[d].id
    <2>1. x \in Executions /\ probe[d].row.status \in Live
      BY <1>1 DEF WriteOff, Inv, ProbedIsDead
    <2>2. CASE UNCHANGED store
      BY <1>1, <2>2 DEF WriteOff, Inv, RowOwned, WorkerOwns, ProbedIsDead, Staged,
         StartedOnce,
         ClaimSpentOnce, CutAfterMark, SideEffectsOwned, RunningIn, UnknownOwnerGone, Alive, WorkerUp,
         LedgerAgreesWithJob, TypeOK, store, desk, job, history
    <2>3. CASE ledger[x] = probe[d].row /\ Settle(x, "unknown")
      <3>1. Settles(x, "unknown")
        BY <1>1, <2>1, <2>3 DEF WriteOff, Settles, desk
      <3>2. ~Alive(ledger[x].owner)
        BY <1>1, <2>1, <2>3 DEF WriteOff, Inv, ProbedIsDead, Alive, WorkerUp
      <3>5. worker[x] \notin {"adopted", "acked", "running", "marked", "closing"}
        BY <2>1, <3>2 DEF Inv, WorkerOwns, Alive, WorkerUp
      <3>3. at[x] # "none"
        BY <2>1, <2>3, <1>0 DEF Inv, Staged, NoRow
      <3>4. at[x] \notin {"running", "marked"}
        BY <2>1, <2>3, <3>2, <3>3 DEF Inv, SideEffectsOwned, RunningIn, Staged,
           Processes, Alive
      <3> QED BY <1>0, <1>1, <2>1, <3>1, <3>2, <3>3, <3>4, <3>5, SettlesKeeps
            DEF WriteOff, desk, job, history
    <2> QED BY <1>1, <2>2, <2>3 DEF WriteOff
  <1>2. ASSUME at[e] \in {"created", "fired", "closing"},
               ledger[e].status \in Live, ledger[e].owner = by[e]
        PROVE  /\ jobStatus[e] # "ok" \/ cut[e]
               /\ worker[e] \notin {"adopted", "acked", "running", "marked", "closing"}
    BY <1>2, <1>0 DEF Inv, Staged, StartedOnce, WorkerOwns, CutAfterMark
  <1>3. ASSUME UNCHANGED <<store, life, worker, ack, probe, job, history>>, Goto(e, "done"),
               at[e] \in {"created", "fired", "closing"},
               ~(ledger[e].status \in Live /\ ledger[e].owner = by[e])
        PROVE  Inv'
    BY <1>0, <1>3 DEF Goto, Inv, RowOwned, WorkerOwns, ProbedIsDead, Staged, StartedOnce,
       ClaimSpentOnce, CutAfterMark, SideEffectsOwned, RunningIn, UnknownOwnerGone, Alive,
       WorkerUp, LedgerAgreesWithJob, TypeOK, Processes, store, job, history
  <1>4. ASSUME Refuse(e) \/ Close(e) PROVE Inv'
    <2>1. /\ FinishExecution(e, by[e], "failed") /\ Goto(e, "done")
          /\ UNCHANGED <<life, worker, ack, probe, job, history>>
          /\ at[e] \in {"created", "fired", "closing"}
      BY <1>4 DEF Refuse, Close, Thread
    <2>2. CASE UNCHANGED store /\ ~(ledger[e].status \in Live /\ ledger[e].owner = by[e])
      BY <1>3, <2>1, <2>2
    <2>3. CASE ledger[e].status \in Live /\ ledger[e].owner = by[e] /\ Settle(e, "failed")
      <3>1. Settles(e, "failed") /\ worker' = worker /\ at'[e] = "done"
        BY <2>1, <2>3 DEF Settles, Goto, Inv, TypeOK, job, history
      <3> QED BY <1>0, <1>2, <2>1, <2>3, <3>1, SettlesKeeps
    <2> QED BY <1>0, <2>1, <2>2, <2>3, FinishFacts DEF Inv
  <1>5. ASSUME FinishHere(e) PROVE Inv'
    <2>1. /\ FinishExecution(e, by[e], Recorded(e)) /\ Goto(e, "done")
          /\ UNCHANGED <<life, worker, ack, probe, job, history>>
          /\ at[e] = "marked" /\ Recorded(e) \in Terminal
      BY <1>0, <1>5 DEF FinishHere, Thread, Recorded
    <2>2. ledger[e].status = "running" /\ ledger[e].owner = by[e]
      BY <2>1 DEF Inv, SideEffectsOwned, RunningIn, Staged, Processes
    <2>3. ledger[e].status \in Live /\ Settle(e, Recorded(e))
      BY <1>0, <2>1, <2>2 DEF FinishExecution
    <2>4. Inv'
      <3>1. Settles(e, Recorded(e)) /\ worker' = worker /\ at'[e] = "done"
        BY <2>1, <2>3 DEF Settles, Goto, Inv, TypeOK, job, history
      <3>2. worker[e] = "none" /\ starts[e] = 1
        BY <2>1 DEF Inv, Staged, StartedOnce
      <3>3. /\ Recorded(e) = "completed" => jobStatus[e] = "ok"
            /\ Recorded(e) = "failed" => jobStatus[e] # "ok"
            /\ Recorded(e) # "unknown"
        BY DEF Recorded
      <3> QED BY <2>1, <3>1, <3>2, <3>3, SettlesKeeps
    <2> QED BY <2>4
  <1>6. ASSUME WaitEnds(e) PROVE Inv'
    <2>1. /\ Goto(e, "done") \/ Goto(e, "undispatched")
          /\ UNCHANGED <<life, worker, probe, job, history>>
          /\ at[e] = "waiting"
      BY <1>6 DEF WaitEnds, Thread
    <2>2. CASE UNCHANGED store
      BY <2>1, <2>2 DEF Goto, Inv, RowOwned, WorkerOwns, ProbedIsDead, Staged, StartedOnce,
         ClaimSpentOnce, CutAfterMark, SideEffectsOwned, RunningIn, UnknownOwnerGone, Alive, WorkerUp,
         LedgerAgreesWithJob, TypeOK, Processes, store, job, history
    <2>3. CASE Abandoned(by[e], e) /\ Settle(e, "unknown") /\ Goto(e, "done")
      <3>1. Settles(e, "unknown") /\ worker' = worker /\ at'[e] = "done"
        BY <2>1, <2>3 DEF Settles, Abandoned, Goto, Inv, TypeOK, job, history
      <3>2. ~Alive(ledger[e].owner)
        BY <2>3 DEF Abandoned, OwnerIsLive
      <3>3. worker[e] \notin {"adopted", "acked", "running", "marked", "closing"}
        BY <3>2 DEF Inv, WorkerOwns, Alive, WorkerUp
      <3> QED BY <1>0, <2>1, <3>1, <3>2, <3>3, SettlesKeeps
    <2> QED BY <1>6, <2>2, <2>3 DEF WaitEnds
  <1>7. ASSUME WorkerRefuses(e) \/ WorkerFinishes(e) \/ WorkerCloses(e) PROVE Inv'
    <2>1. /\ Become(e, "exited") /\ UNCHANGED <<life, desk, ack, probe, job, history>>
          /\ worker[e] \in {"acked", "marked", "closing"}
      BY <1>7 DEF WorkerRefuses, WorkerFinishes, WorkerCloses
    <2>2. /\ ledger[e].status = "running" /\ ledger[e].owner = e
          /\ at[e] \notin {"none", "running", "marked"}
      BY <2>1 DEF Inv, WorkerOwns, Staged
    <2>3. ASSUME NEW s \in Terminal, FinishExecution(e, e, s), s # "unknown",
                 s = "completed" => jobStatus[e] = "ok" /\ starts[e] = 1,
                 s = "failed" => jobStatus[e] # "ok" \/ cut[e]
          PROVE  Inv'
      <3>1. Settles(e, s) /\ worker'[e] = "exited" /\ at' = at
        BY <1>0, <2>1, <2>2, <2>3 DEF FinishExecution, Settles, Become, Inv, TypeOK,
           desk, job, history
      <3> QED BY <2>1, <2>2, <2>3, <3>1, SettlesKeeps
    <2>4. CASE WorkerRefuses(e)
      BY <1>0, <2>3, <2>4 DEF WorkerRefuses, Inv, StartedOnce
    <2>5. CASE WorkerFinishes(e)
      BY <1>0, <2>3, <2>5 DEF WorkerFinishes, Recorded, Inv, StartedOnce
    <2>6. CASE WorkerCloses(e)
      BY <1>0, <2>2, <2>3, <2>6 DEF WorkerCloses, Inv, CutAfterMark
    <2> QED BY <1>7, <2>4, <2>5, <2>6
  <1> QED BY <1>1, <1>4, <1>5, <1>6, <1>7

\* Every step keeps the invariant.
LEMMA InvStep == Opaque = {} /\ Inv /\ [Next]_vars => Inv'
  <1> SUFFICES ASSUME Opaque = {}, Inv, [Next]_vars PROVE Inv'
    OBVIOUS
  <1>1. TypeOK'
    BY TypeStep DEF Inv
  <1>2. ASSUME NEW d \in Dispatchers,
               Launch(d) \/ Crash(d) \/ \E e \in Executions : Judge(d, e)
        PROVE  Inv'
    BY <1>1, <1>2, RowsAloneKeeps DEF Launch, Crash, Judge, store
  <1>3. ASSUME NEW e \in Executions, ThreadStep(e) PROVE Inv'
    <2>1. CASE \/ Fire(e) \/ MarkHere(e) \/ Spawn(e) \/ SpawnFails(e) \/ LookForAck(e)
               \/ PollExit(e) \/ MarkUndispatched(e) \/ RunRaises(e) \/ DispatchRaises(e)
               \/ GiveUp(e)
      <3>1. UNCHANGED ledger
        BY <2>1 DEF Fire, MarkHere, Spawn, SpawnFails, LookForAck, PollExit,
           MarkUndispatched, RunRaises, DispatchRaises, GiveUp, store
      <3> QED BY <1>1, <2>1, <3>1, RowsAloneKeeps DEF RowAlone
    <2>2. CASE RunHere(e) \/ HandOff(e)
      BY <1>1, <2>2, RowWrittenKeeps
    <2>3. CASE Refuse(e) \/ FinishHere(e) \/ Close(e) \/ WaitEnds(e)
      BY <1>1, <2>3, RowSettledKeeps
    <2> QED BY <1>3, <2>1, <2>2, <2>3 DEF ThreadStep
  <1>4. ASSUME NEW e \in Executions,
               WorkerStep(e) \/ WorkerExits(e) \/ GraceEnds(e)
        PROVE  Inv'
    <2>1. CASE \/ WorkerExits(e) \/ Acknowledge(e) \/ WorkerRuns(e) \/ WorkerMarks(e)
               \/ WorkerRaises(e)
      <3>1. UNCHANGED ledger
        BY <2>1 DEF WorkerExits, Acknowledge, WorkerRuns, WorkerMarks, WorkerRaises, store
      <3> QED BY <1>1, <2>1, <3>1, RowsAloneKeeps DEF RowAlone
    <2>2. CASE Adopt(e) \/ GraceEnds(e)
      BY <1>1, <2>2, RowWrittenKeeps
    <2>3. CASE WorkerRefuses(e) \/ WorkerFinishes(e) \/ WorkerCloses(e)
      BY <1>1, <2>3, RowSettledKeeps
    <2> QED BY <1>4, <2>1, <2>2, <2>3 DEF WorkerStep
  <1>5. CASE UNCHANGED vars
    BY <1>5 DEF vars, store, desk, job, history, Inv, RowOwned, WorkerOwns, ProbedIsDead, Staged,
       StartedOnce, ClaimSpentOnce, CutAfterMark, SideEffectsOwned, RunningIn, UnknownOwnerGone, Alive,
       WorkerUp, LedgerAgreesWithJob, TypeOK
  <1> QED
    <2>1. ASSUME NEW d \in Dispatchers, NEW e \in Executions, WriteOff(d) \/ Create(d, e)
          PROVE  Inv'
      BY <1>1, <2>1, RowWrittenKeeps, RowSettledKeeps
    <2>2. ASSUME NEW d \in Dispatchers, WriteOff(d) PROVE \E e \in Executions : TRUE
      BY <2>2 DEF WriteOff, Inv, ProbedIsDead
    <2> QED BY <1>2, <1>3, <1>4, <1>5, <2>1, <2>2 DEF Next, Recovery

\* Type correctness, for any attempts, schedulers and retention.
THEOREM TypeCorrect == Opaque = {} => (Spec => []TypeOK)
  <1> SUFFICES ASSUME Opaque = {} PROVE Spec => []TypeOK
    OBVIOUS
  <1>1. Inv => TypeOK
    BY DEF Inv
  <1> QED BY <1>1, InvInit, InvStep, PTL DEF Spec

\* An attempt has one owner at a time and its side effects run in that owner alone;
\* it is written off only after its owner died, and the ledger agrees with the job
\* store (finish_execution, recover_interrupted_executions, adopt_claimed_execution).
THEOREM Invariance == Opaque = {} => (Spec => []Inv)
  <1> SUFFICES ASSUME Opaque = {} PROVE Spec => []Inv
    OBVIOUS
  <1> QED BY InvInit, InvStep, PTL DEF Spec

\* What a step may do to a settled, a pruned or a not yet started attempt.
LEMMA FinalStep ==
  ASSUME Inv, Next, NEW f \in Executions
  PROVE  /\ IsTerminal(f) => ledger'[f] \in {ledger[f], NoRow}
         /\ ledger[f] = NoRow /\ at[f] # "none" => ledger'[f] = NoRow
         /\ ledger[f].status \notin Live => starts'[f] = starts[f]
  <1> DEFINE Final == /\ IsTerminal(f) => ledger'[f] \in {ledger[f], NoRow}
                      /\ ledger[f] = NoRow /\ at[f] # "none" => ledger'[f] = NoRow
                      /\ ledger[f].status \notin Live => starts'[f] = starts[f]
  <1>0. /\ TypeOK /\ Terminal \cap Live = {}
        /\ NoRow.status \notin Terminal \cup Live /\ {"claimed", "running"} = Live
    BY DEF Inv, Terminal, Live, NoRow
  <1>1. ASSUME \/ ledger'[f] = ledger[f]
               \/ at[f] = "none" /\ ledger[f].status \notin Terminal
               \/ ledger[f].status \in Live,
               starts'[f] = starts[f] \/ ledger[f].status \in Live
        PROVE  Final
    BY <1>0, <1>1 DEF IsTerminal
  <1>2. ASSUME NEW e \in Executions, NEW s \in Terminal,
               ledger[e].status \in Live, Settle(e, s), starts' = starts
        PROVE  Final
    <2>1. CASE f = e
      BY <1>1, <1>2, <2>1
    <2>2. CASE f # e
      BY <1>0, <1>2, <2>2, SettleFacts DEF IsTerminal
    <2> QED BY <2>1, <2>2
  <1>3. ASSUME NEW e \in Executions, NEW p, NEW s \in Terminal, FinishExecution(e, p, s),
     starts' = starts
        PROVE  Final
    BY <1>1, <1>2, <1>3 DEF FinishExecution, store
  <1> HIDE DEF Final
  <1>4. ASSUME NEW d \in Dispatchers, Launch(d) \/ Crash(d) PROVE Final
    BY <1>1, <1>4 DEF Launch, Crash, store, history
  <1>5. ASSUME NEW d \in Dispatchers, WriteOff(d) PROVE Final
    <2>1. probe[d].id \in Executions /\ probe[d].row.status \in Live /\ "unknown" \in Terminal
      BY <1>5 DEF WriteOff, Inv, ProbedIsDead, Terminal
    <2> QED BY <1>1, <1>2, <1>5, <2>1 DEF WriteOff, store, history
  <1>6. ASSUME NEW d \in Dispatchers, NEW e \in Executions, Judge(d, e) \/ Create(d,
     e) PROVE Final
    <2>1. CASE Judge(d, e)
      BY <1>1, <2>1 DEF Judge, store, history
    <2>2. CASE Create(d, e)
      <3>1. at[e] = "none" /\ ledger[e].status \notin Terminal /\ starts' = starts
        BY <1>0, <2>2 DEF Create, Inv, Staged, history
      <3>2. f # e => ledger'[f] = ledger[f]
        BY <1>0, <2>2 DEF Create, TypeOK
      <3> QED BY <1>1, <3>1, <3>2
    <2> QED BY <1>6, <2>1, <2>2
  <1>7. ASSUME NEW e \in Executions, RowAlone(e) PROVE Final
    <2>1. ledger' = ledger
      BY <1>7 DEF RowAlone, Fire, MarkHere, Spawn, SpawnFails, LookForAck, PollExit,
         MarkUndispatched, RunRaises, DispatchRaises, GiveUp, WorkerExits, Acknowledge,
         WorkerRuns, WorkerMarks, WorkerRaises, store
    <2>2. CASE WorkerRuns(e)
      BY <1>0, <1>1, <2>1, <2>2 DEF WorkerRuns, Inv, WorkerOwns
    <2>3. CASE ~WorkerRuns(e)
      <3>1. starts' = starts
        BY <1>7, <2>3 DEF RowAlone, Fire, MarkHere, Spawn, SpawnFails, LookForAck, PollExit,
           MarkUndispatched, RunRaises, DispatchRaises, GiveUp, WorkerExits, Acknowledge,
           WorkerMarks, WorkerRaises, history
      <3> QED BY <1>1, <2>1, <3>1
    <2> QED BY <2>2, <2>3
  <1>8. ASSUME NEW e \in Executions,
     RunHere(e) \/ HandOff(e) \/ GraceEnds(e) \/ Adopt(e) PROVE Final
    <2>1. CASE f = e
      <3>1. ledger[e].handoff # "no" => ledger[e].status = "claimed"
        BY DEF Inv, RowOwned
      <3> QED BY <1>0, <1>1, <1>8, <2>1, <3>1 DEF RunHere, HandOff, GraceEnds, Adopt, history
    <2>2. CASE f # e
      BY <1>0, <1>1, <1>8, <2>2 DEF RunHere, HandOff, GraceEnds, Adopt, TypeOK, history
    <2> QED BY <2>1, <2>2
  <1>9. ASSUME NEW e \in Executions,
               Refuse(e) \/ FinishHere(e) \/ Close(e) \/ WaitEnds(e)
                 \/ WorkerRefuses(e) \/ WorkerFinishes(e) \/ WorkerCloses(e)
        PROVE  Final
    <2>1. {Recorded(e), "failed", "unknown"} \subseteq Terminal
      BY DEF Recorded, Terminal
    <2>2. CASE WaitEnds(e)
      BY <1>1, <1>2, <2>1, <2>2 DEF WaitEnds, Abandoned, store, history
    <2>3. CASE Refuse(e) \/ FinishHere(e) \/ Close(e)
      BY <1>3, <2>1, <2>3 DEF Refuse, FinishHere, Close, history
    <2>4. CASE WorkerRefuses(e) \/ WorkerFinishes(e) \/ WorkerCloses(e)
      BY <1>3, <2>1, <2>4 DEF WorkerRefuses, WorkerFinishes, WorkerCloses, history
    <2> QED BY <1>9, <2>2, <2>3, <2>4
  <1>10. Final
    BY <1>4, <1>5, <1>6, <1>7, <1>8, <1>9 DEF Next, Recovery, ThreadStep, WorkerStep,
       RowAlone
  <1> QED BY <1>10 DEF Final

\* "Terminal states are immutable": a settled row is only ever pruned, and a pruned
\* attempt does not come back (the WHERE clauses of finish, adopt and recover).
THEOREM SettledIsFinal == Opaque = {} => (Spec => TerminalIsFinal)
  <1> SUFFICES ASSUME Opaque = {} PROVE Spec => TerminalIsFinal
    OBVIOUS
  <1>1. Inv /\ [Next]_vars =>
          [\A e \in Executions :
             /\ IsTerminal(e) => ledger'[e] \in {ledger[e], NoRow}
             /\ ledger[e] = NoRow /\ at[e] # "none" => ledger'[e] = NoRow]_vars
    BY FinalStep
  <1> QED BY <1>1, Invariance, PTL DEF Spec, TerminalIsFinal

\* A worker that starts late, after its attempt was written off, failed or pruned,
\* does not run the job.
THEOREM LateWorkersStop == Opaque = {} => (Spec => SettledStartsNothing)
  <1> SUFFICES ASSUME Opaque = {} PROVE Spec => SettledStartsNothing
    OBVIOUS
  <1>1. Inv /\ [Next]_vars =>
          [\A e \in Executions : ledger[e].status \notin Live => starts'[e] = starts[e]]_vars
    BY FinalStep
  <1> QED BY <1>1, Invariance, PTL DEF Spec, SettledStartsNothing

\* A process inside the job's side effects owns the running row of the attempt: no
\* recovery, no failed dispatch and no second process has taken it away
\* (adopt_claimed_execution, recover_interrupted_executions).
THEOREM OneProcessRuns == Opaque = {} => (Spec => []SideEffectsOwned)
  <1> SUFFICES ASSUME Opaque = {} PROVE Spec => []SideEffectsOwned
    OBVIOUS
  <1>1. Inv => SideEffectsOwned
    BY DEF Inv
  <1> QED BY <1>1, InvInit, InvStep, PTL DEF Spec

\* An attempt completes in the ledger only if its job was recorded ok and ran once, and a
\* job recorded ok by an attempt has it on record as failed only if an error or an interrupt
\* cut the run short between the two writes (mark_job_run, finish_execution).
THEOREM StoresAgree == Opaque = {} => (Spec => []LedgerAgreesWithJob)
  <1> SUFFICES ASSUME Opaque = {} PROVE Spec => []LedgerAgreesWithJob
    OBVIOUS
  <1>1. Inv => LedgerAgreesWithJob
    BY DEF Inv
  <1> QED BY <1>1, InvInit, InvStep, PTL DEF Spec
=============================================================================
