------------------------ MODULE CronDelivery_proofs -------------------------
(***************************************************************************)
(* Machine-checked proofs about CronDelivery, for any number of executions *)
(* and gateways and any bounds.                                            *)
(***************************************************************************)
EXTENDS CronDelivery, TLAPS

USE ConstantsAssumption

(***************************************************************************)
(* Type correctness                                                        *)
(***************************************************************************)
LEMMA SettleType ==
  ASSUME TypeOK, NEW STATE S, NEW STATE status, status \in Terminal
  PROVE  Settle(S, status) \in [Executions -> Row]
  <1>1. \A e \in Executions : deliveries[e] \in Row /\ clock + 1 \in Nat
    BY DEF TypeOK
  <1>2. \A e \in Executions : Stamped(deliveries[e], status) \in Row
    BY <1>1 DEF Stamped, Row
  <1> QED BY <1>1, <1>2 DEF Settle

LEMMA PruneType ==
  ASSUME TypeOK, NEW STATE table, table \in [Executions -> Row], Prune(table)
  PROVE  /\ deliveries' \in [Executions -> Row]
         /\ tombstones' \in [Executions -> Terminal \cup {"none"}]
  <1>1. NoRow \in Row
    BY DEF NoRow, Row
  <1>2. \A e \in Excess(table) : table[e].status \in Terminal
    BY DEF Excess, Settled
  <1> QED BY <1>1, <1>2 DEF Prune, TypeOK

LEMMA SettleAndPruneType ==
  ASSUME TypeOK, NEW STATE S, NEW STATE status, status \in Terminal, SettleAndPrune(S, status)
  PROVE  /\ deliveries' \in [Executions -> Row]
         /\ tombstones' \in [Executions -> Terminal \cup {"none"}]
         /\ clock' \in Nat
  <1>1. Settle(S, status) \in [Executions -> Row]
    BY SettleType
  <1>2. Prune(Settle(S, status)) /\ clock' \in Nat
    BY DEF SettleAndPrune, TypeOK
  <1> QED BY <1>1, <1>2, PruneType

LEMMA RestType ==
  ASSUME TypeOK, NEW g \in Gateways, Rest(g)
  PROVE  /\ phase' \in [Gateways -> {"idle", "recovering", "claiming", "selected", "claimed", "sent"}]
         /\ scan' \in [Gateways -> SUBSET Executions]
         /\ item' \in [Gateways -> Executions \cup {NoItem}]
         /\ error' \in [Gateways -> BOOLEAN]
         /\ processed' \in [Gateways -> Nat]
  BY DEF Rest, TypeOK

LEMMA TypeStep == TypeOK /\ [Next]_vars => TypeOK'
  <1> SUFFICES ASSUME TypeOK, [Next]_vars
               PROVE  TypeOK'
    OBVIOUS
  <1> USE DEF TypeOK
  <1>1. ASSUME NEW g \in Gateways, Start(g) PROVE TypeOK'
    BY <1>1 DEF Start, queue, drains, workers, world
  <1>2. ASSUME NEW g \in Gateways, Crash(g) PROVE TypeOK'
    BY <1>2, RestType DEF Crash, queue, workers, world
  <1>3. ASSUME NEW g \in Gateways, RecoverScan(g) PROVE TypeOK'
    BY <1>3 DEF RecoverScan, queue, workers, world
  <1>4. ASSUME NEW g \in Gateways, RecoverFence(g) PROVE TypeOK'
    <2>1. SettleAndPrune(Abandoned(g), "unknown")
      BY <1>4 DEF RecoverFence
    <2>2. "unknown" \in Terminal
      BY DEF Terminal
    <2>3. /\ deliveries' \in [Executions -> Row]
          /\ tombstones' \in [Executions -> Terminal \cup {"none"}]
          /\ clock' \in Nat
      BY <2>1, <2>2, SettleAndPruneType
    <2> QED BY <1>4, <2>3 DEF RecoverFence, workers, world
  <1>5. ASSUME NEW g \in Gateways, Select(g) PROVE TypeOK'
    BY <1>5 DEF Select, Pending, queue, workers, world
  <1>6. ASSUME NEW g \in Gateways, DrainEnds(g) PROVE TypeOK'
    BY <1>6, RestType DEF DrainEnds, queue, workers, world
  <1>7. ASSUME NEW g \in Gateways, Claim(g) PROVE TypeOK'
    <2>1. CASE StatusOf(item[g]) = "pending"
      <3>1. [status |-> "delivering", owner |-> g, created |-> deliveries[item[g]].created,
             finished |-> deliveries[item[g]].finished] \in Row \/ item[g] \notin Executions
        BY DEF Row
      <3>2. deliveries' \in [Executions -> Row]
        BY <1>7, <2>1, <3>1 DEF Claim
      <3> QED BY <1>7, <2>1, <3>2 DEF Claim, workers, world
    <2>2. CASE StatusOf(item[g]) # "pending"
      BY <1>7, <2>2, RestType DEF Claim, workers, world
    <2> QED BY <2>1, <2>2
  <1>8. ASSUME NEW g \in Gateways, Send(g) PROVE TypeOK'
    <2>1. error' \in [Gateways -> BOOLEAN]
      BY <1>8 DEF Send
    <2>2. \A e \in Executions : (arrived[e] \/ TRUE) \in BOOLEAN /\ (arrived[e] \/ FALSE) \in BOOLEAN
      OBVIOUS
    <2>3. arrived' \in [Executions -> BOOLEAN]
      BY <1>8, <2>2 DEF Send
    <2>4. sends' \in [Executions -> Nat]
      <3>1. sends' = [sends EXCEPT ![item[g]] = @ + 1]
        BY <1>8 DEF Send
      <3>2. \A e \in Executions : sends[e] + 1 \in Nat
        OBVIOUS
      <3>3. CASE item[g] \in Executions
        BY <3>1, <3>2, <3>3
      <3>4. CASE item[g] \notin Executions
        BY <3>1, <3>4
      <3> QED BY <3>3, <3>4
    <2> QED BY <1>8, <2>1, <2>3, <2>4 DEF Send, queue, workers
  <1>9. ASSUME NEW g \in Gateways, Finish(g) PROVE TypeOK'
    <2> DEFINE mine == {e \in {item[g]} : /\ StatusOf(e) = "delivering"
                                          /\ deliveries[e].owner = g}
               verdict == IF error[g] THEN "failed" ELSE "delivered"
    <2>1. SettleAndPrune(mine, verdict)
      BY <1>9 DEF Finish
    <2>2. verdict \in Terminal
      BY DEF Terminal
    <2> HIDE DEF mine, verdict
    <2>3. /\ deliveries' \in [Executions -> Row]
          /\ tombstones' \in [Executions -> Terminal \cup {"none"}]
          /\ clock' \in Nat
      BY <2>1, <2>2, SettleAndPruneType
    <2> QED BY <1>9, <2>3 DEF Finish, workers, world
  <1>10. ASSUME NEW g \in Gateways, FinishRaises(g) PROVE TypeOK'
    BY <1>10, RestType DEF FinishRaises, queue, workers, world
  <1>11. ASSUME NEW e \in Executions, Enqueue(e) PROVE TypeOK'
    <2>1. [status |-> "pending", owner |-> NoOwner, created |-> clock + 1,
           finished |-> 0] \in Row
      BY DEF Row
    <2>2. deliveries' \in [Executions -> Row] /\ clock' \in Nat
      BY <1>11, <2>1 DEF Enqueue
    <2>3. /\ caller' \in [Executions -> {"idle", "waiting", "fencing", "gone"}]
          /\ report' \in [Executions -> {"none", "ok", "error"}]
      BY <1>11 DEF Enqueue, Return, Verdict
    <2>4. calls' \in [Executions -> Nat]
      BY <1>11 DEF Enqueue
    <2>5. UNCHANGED <<tombstones, life, drains, world>>
      BY <1>11 DEF Enqueue
    <2> QED BY <2>2, <2>3, <2>4, <2>5 DEF drains, world
  <1>12. ASSUME NEW e \in Executions, Poll(e) PROVE TypeOK'
    BY <1>12 DEF Poll, Return, Verdict, queue, drains, world
  <1>13. ASSUME NEW e \in Executions, WaitTimesOut(e) PROVE TypeOK'
    BY <1>13 DEF WaitTimesOut, Return, queue, drains, world
  <1>14. ASSUME NEW e \in Executions, Fence(e) PROVE TypeOK'
    <2> DEFINE hung == {x \in {e} : StatusOf(x) = "delivering"}
    <2>1. SettleAndPrune(hung, "unknown")
      BY <1>14 DEF Fence
    <2>2. "unknown" \in Terminal
      BY DEF Terminal
    <2>3. /\ caller' \in [Executions -> {"idle", "waiting", "fencing", "gone"}]
          /\ report' \in [Executions -> {"none", "ok", "error"}]
      BY <1>14 DEF Fence, Return, Verdict
    <2> HIDE DEF hung
    <2>4. /\ deliveries' \in [Executions -> Row]
          /\ tombstones' \in [Executions -> Terminal \cup {"none"}]
          /\ clock' \in Nat
      BY <2>1, <2>2, SettleAndPruneType
    <2> QED BY <1>14, <2>3, <2>4 DEF Fence, drains, world
  <1>15. ASSUME NEW e \in Executions, WorkerDies(e) PROVE TypeOK'
    BY <1>15 DEF WorkerDies, queue, drains, world
  <1>16. CASE UNCHANGED vars
    BY <1>16 DEF vars, queue, drains, workers, world
  <1> QED BY <1>1, <1>2, <1>3, <1>4, <1>5, <1>6, <1>7, <1>8, <1>9, <1>10, <1>11, <1>12,
             <1>13, <1>14, <1>15, <1>16
          DEF Next, GatewayStep, WorkerStep

\* The variables of CronDelivery have their types in every reachable state.
THEOREM TypeCorrect == Spec => []TypeOK
  <1>1. Init => TypeOK
    BY DEF Init, TypeOK, NoRow, Row
  <1> QED BY <1>1, TypeStep, PTL DEF Spec

(***************************************************************************)
(* What a settling transaction does to the outcomes on record: the rows in *)
(* S get the status, pruning changes nothing.                              *)
(***************************************************************************)
\* Rows that are delivering were so before, with the same owner.
OwnersKept ==
  \A e \in Executions : StatusOf(e)' = "delivering" =>
    StatusOf(e) = "delivering" /\ deliveries'[e].owner = deliveries[e].owner

LEMMA SettleOutcome ==
  ASSUME TypeOK, OneRecord,
         NEW STATE S, NEW STATE status, status \in Terminal,
         \A e \in Executions : e \in S => StatusOf(e) = "delivering",
         SettleAndPrune(S, status)
  PROVE  /\ OneRecord'
         /\ \A e \in Executions : Outcome(e)' = IF e \in S THEN status ELSE Outcome(e)
         /\ OwnersKept
  <1> DEFINE table == Settle(S, status)
  <1>1. \A e \in Executions : table[e].status = IF e \in S THEN status ELSE StatusOf(e)
    BY DEF Settle, Stamped, StatusOf
  <1>2. \A e \in Executions : tombstones[e] # "none" => table[e].status = "absent" /\ e \notin S
    BY <1>1 DEF OneRecord
  <1>3. \A e \in Executions : e \in Excess(table) => table[e].status \in Terminal
    BY DEF Excess, Settled
  <1>4. \A e \in Executions :
          /\ deliveries'[e] = IF e \in Excess(table) THEN NoRow ELSE table[e]
          /\ tombstones'[e] = IF e \in Excess(table) /\ tombstones[e] = "none"
                               THEN table[e].status ELSE tombstones[e]
    BY DEF SettleAndPrune, Prune
  <1> HIDE DEF table
  <1>5. ASSUME NEW e \in Executions
        PROVE  /\ tombstones'[e] # "none" => deliveries'[e].status = "absent"
               /\ Outcome(e)' = IF e \in S THEN status ELSE Outcome(e)
    <2>1. tombstones[e] \in Terminal \cup {"none"} /\ status # "absent" /\ "absent" \notin Terminal
          /\ "none" \notin Terminal
      BY DEF TypeOK, Terminal
    <2>2. CASE e \in Excess(table)
      <3>1. tombstones[e] = "none"
        BY <1>2, <1>3, <2>1, <2>2
      <3>2. deliveries'[e].status = "absent" /\ tombstones'[e] = table[e].status
        BY <1>4, <2>2, <3>1 DEF NoRow
      <3> QED BY <1>1, <1>3, <2>1, <2>2, <3>1, <3>2 DEF Outcome, StatusOf
    <2>3. CASE e \notin Excess(table)
      <3>1. deliveries'[e].status = table[e].status /\ tombstones'[e] = tombstones[e]
        BY <1>4, <2>3
      <3> QED BY <1>1, <1>2, <2>1, <3>1 DEF Outcome, StatusOf
    <2> QED BY <2>2, <2>3
  <1>6. ASSUME NEW e \in Executions, StatusOf(e)' = "delivering"
        PROVE  StatusOf(e) = "delivering" /\ deliveries'[e].owner = deliveries[e].owner
    <2>1. status # "delivering"
      BY DEF Terminal
    <2>2. deliveries'[e] = table[e]
      BY <1>4, <1>6 DEF StatusOf, NoRow
    <2>3. e \notin S
      BY <1>1, <1>6, <2>1, <2>2 DEF StatusOf
    <2>4. table[e] = deliveries[e]
      BY <2>3 DEF table, Settle
    <2> QED BY <1>6, <2>2, <2>4 DEF StatusOf
  <1> QED BY <1>5, <1>6 DEF OneRecord, StatusOf, OwnersKept

(***************************************************************************)
(* Every step is of one of four kinds, told by what it does to the         *)
(* outcomes on record and to the message in a gateway's hand.              *)
(***************************************************************************)
\* No gateway gets a message in hand.
NoneTaken ==
  \A g \in Gateways :
    /\ phase'[g] = "claimed" => phase[g] = "claimed" /\ item'[g] = item[g]
    /\ phase'[g] = "sent" =>
         phase[g] = "sent" /\ item'[g] = item[g] /\ error'[g] = error[g]

OutcomesChange(S, status) ==
  \A e \in Executions : Outcome(e)' = IF e \in S THEN status ELSE Outcome(e)

Settles(S, status) ==
  /\ \A e \in S : Outcome(e) = "delivering" /\ (status = "delivered" => arrived[e])
  /\ \/ status = "unknown"
     \/ /\ \E e \in Executions : S \subseteq {e}
        /\ \A g \in Gateways : phase[g] = "claimed" => item[g] \notin S
  /\ OutcomesChange(S, status) /\ OwnersKept
  /\ NoneTaken /\ UNCHANGED world

Requests(e) ==
  /\ Outcome(e) = "absent" /\ OutcomesChange({e}, "pending") /\ OwnersKept
  /\ NoneTaken /\ UNCHANGED world

Claims(g) ==
  /\ item[g] \in Executions /\ Outcome(item[g]) = "pending"
  /\ OutcomesChange({item[g]}, "delivering")
  /\ deliveries'[item[g]].owner = g
  /\ \A e \in Executions : e # item[g] => deliveries'[e] = deliveries[e]
  /\ phase' = [phase EXCEPT ![g] = "claimed"]
  /\ UNCHANGED <<item, error, world>>

Sends(g) ==
  /\ phase[g] = "claimed" /\ phase' = [phase EXCEPT ![g] = "sent"]
  /\ \E failed, got \in BOOLEAN :
       /\ ~failed => got
       /\ error' = [error EXCEPT ![g] = failed]
       /\ arrived' = [arrived EXCEPT ![item[g]] = got]
  /\ sends' = [sends EXCEPT ![item[g]] = 1]
  /\ OutcomesChange({}, "unknown") /\ OwnersKept /\ UNCHANGED item

Kind ==
  \/ \E S \in SUBSET Executions, status \in Terminal : Settles(S, status)
  \/ \E e \in Executions : Requests(e)
  \/ \E g \in Gateways : Claims(g) \/ Sends(g)

\* A step that leaves the queue alone and takes no message in hand.
LEMMA QuietStep ==
  ASSUME Inv, HeldItem', NoneTaken, UNCHANGED <<queue, world>>
  PROVE  HeldItem' /\ OneRecord' /\ Kind
  <1>1. OneRecord'
    BY DEF Inv, OneRecord, StatusOf, queue
  <1>2. OutcomesChange({}, "unknown") /\ OwnersKept
    BY DEF OutcomesChange, OwnersKept, Outcome, StatusOf, queue
  <1>3. Settles({}, "unknown")
    BY <1>2 DEF Settles
  <1>4. {} \in SUBSET Executions /\ "unknown" \in Terminal
    BY DEF Terminal
  <1> QED BY <1>1, <1>3, <1>4 DEF Kind

LEMMA StepKind ==
  ASSUME Inv, [Next]_vars, TypeOK'
  PROVE  HeldItem' /\ OneRecord' /\ Kind
  <1> USE DEF Inv
  <1>0. \A g \in Gateways : Rest(g) =>
          /\ \A h \in Gateways : h # g => phase'[h] = phase[h] /\ item'[h] = item[h] /\ error'[h] = error[h]
          /\ phase'[g] = "idle"
    BY DEF Rest, TypeOK
  <1>1. \A g \in Gateways : Rest(g) => HeldItem' /\ NoneTaken
    BY <1>0 DEF HeldItem, NoneTaken
  <1>2. UNCHANGED drains => HeldItem' /\ NoneTaken
    BY DEF HeldItem, NoneTaken, drains
  <1>3. ASSUME NEW g \in Gateways, Start(g) PROVE HeldItem' /\ OneRecord' /\ Kind
    BY <1>2, <1>3, QuietStep DEF Start
  <1>4. ASSUME NEW g \in Gateways, Crash(g) PROVE HeldItem' /\ OneRecord' /\ Kind
    BY <1>1, <1>4, QuietStep DEF Crash
  <1>5. ASSUME NEW g \in Gateways, RecoverScan(g) PROVE HeldItem' /\ OneRecord' /\ Kind
    <2>1. HeldItem' /\ NoneTaken
      BY <1>5 DEF RecoverScan, HeldItem, NoneTaken, TypeOK
    <2> QED BY <1>5, <2>1, QuietStep DEF RecoverScan
  <1>6. ASSUME NEW g \in Gateways, RecoverFence(g) PROVE HeldItem' /\ OneRecord' /\ Kind
    <2>1. HeldItem' /\ NoneTaken
      BY <1>6 DEF RecoverFence, HeldItem, NoneTaken, TypeOK
    <2>2. /\ Abandoned(g) \in SUBSET Executions /\ "unknown" \in Terminal
          /\ \A e \in Abandoned(g) : StatusOf(e) = "delivering" /\ Outcome(e) = "delivering"
      BY DEF Abandoned, TypeOK, Outcome, Terminal
    <2>3. SettleAndPrune(Abandoned(g), "unknown") /\ UNCHANGED world
      BY <1>6 DEF RecoverFence
    <2>4. OneRecord' /\ OwnersKept /\ OutcomesChange(Abandoned(g), "unknown")
      BY <2>2, <2>3, SettleOutcome DEF OutcomesChange
    <2>5. Settles(Abandoned(g), "unknown")
      BY <2>1, <2>2, <2>3, <2>4 DEF Settles
    <2> QED BY <2>1, <2>2, <2>4, <2>5 DEF Kind
  <1>7. ASSUME NEW g \in Gateways, Select(g) PROVE HeldItem' /\ OneRecord' /\ Kind
    <2>1. PICK e \in Pending : item' = [item EXCEPT ![g] = e]
      BY <1>7 DEF Select
    <2>2. e \in Executions
      BY DEF Pending
    <2>3. HeldItem' /\ NoneTaken
      BY <1>7, <2>1, <2>2 DEF Select, HeldItem, NoneTaken, TypeOK
    <2> QED BY <1>7, <2>3, QuietStep DEF Select
  <1>8. ASSUME NEW g \in Gateways, DrainEnds(g) PROVE HeldItem' /\ OneRecord' /\ Kind
    BY <1>1, <1>8, QuietStep DEF DrainEnds
  <1>9. ASSUME NEW g \in Gateways, Claim(g) PROVE HeldItem' /\ OneRecord' /\ Kind
    <2>1. item[g] \in Executions /\ phase[g] = "selected"
      BY <1>9 DEF Claim, HeldItem
    <2>2. CASE StatusOf(item[g]) = "pending"
      <3>1. /\ deliveries' = [deliveries EXCEPT ![item[g]] =
                 [status |-> "delivering", owner |-> g,
                  created |-> @.created, finished |-> @.finished]]
            /\ phase' = [phase EXCEPT ![g] = "claimed"]
            /\ UNCHANGED <<tombstones, item, error, world>>
        BY <1>9, <2>2 DEF Claim
      <3>2. \A e \in Executions :
              StatusOf(e)' = IF e = item[g] THEN "delivering" ELSE StatusOf(e)
        BY <2>1, <3>1 DEF StatusOf, TypeOK
      <3>3. OneRecord'
        BY <2>2, <3>1, <3>2 DEF OneRecord
      <3>4. HeldItem'
        BY <2>1, <3>1 DEF HeldItem, TypeOK
      <3>5. OutcomesChange({item[g]}, "delivering") /\ Outcome(item[g]) = "pending"
        BY <2>2, <3>1, <3>2 DEF OutcomesChange, Outcome
      <3>7. /\ deliveries'[item[g]].owner = g
            /\ \A e \in Executions : e # item[g] => deliveries'[e] = deliveries[e]
        BY <2>1, <3>1 DEF TypeOK
      <3>6. Claims(g)
        BY <2>1, <3>1, <3>5, <3>7 DEF Claims
      <3> QED BY <3>3, <3>4, <3>6 DEF Kind
    <2>3. CASE StatusOf(item[g]) # "pending"
      <3>1. Rest(g) /\ UNCHANGED <<deliveries, tombstones, clock, world>>
        BY <1>9, <2>3 DEF Claim
      <3> QED BY <1>1, <3>1, QuietStep DEF queue
    <2> QED BY <2>2, <2>3
  <1>10. ASSUME NEW g \in Gateways, Send(g) PROVE HeldItem' /\ OneRecord' /\ Kind
    <2>1. /\ phase[g] = "claimed" /\ item[g] \in Executions
          /\ sends[item[g]] = 0 /\ ~arrived[item[g]]
          /\ phase' = [phase EXCEPT ![g] = "sent"]
          /\ sends' = [sends EXCEPT ![item[g]] = @ + 1]
          /\ UNCHANGED <<queue, item>>
      BY <1>10 DEF Send, HeldItem, ClaimedUnsent
    <2>2. sends' = [sends EXCEPT ![item[g]] = 1]
      BY <2>1
    <2>3. PICK failed, got \in BOOLEAN :
            /\ ~failed => got
            /\ error' = [error EXCEPT ![g] = failed]
            /\ arrived' = [arrived EXCEPT ![item[g]] = arrived[item[g]] \/ got]
      BY <1>10 DEF Send
    <2>4. (arrived[item[g]] \/ got) = got
      BY <2>1
    <2>5. arrived' = [arrived EXCEPT ![item[g]] = got]
      BY <2>3, <2>4, Zenon
    <2>6. HeldItem'
      BY <2>1 DEF HeldItem, TypeOK
    <2>7. OneRecord' /\ OwnersKept /\ OutcomesChange({}, "unknown")
      BY <2>1 DEF OneRecord, OwnersKept, OutcomesChange, Outcome, StatusOf, queue
    <2>8. Sends(g)
      BY <2>1, <2>2, <2>3, <2>5, <2>7 DEF Sends
    <2> QED BY <2>6, <2>7, <2>8 DEF Kind
  <1>11. ASSUME NEW g \in Gateways, Finish(g) PROVE HeldItem' /\ OneRecord' /\ Kind
    <2> DEFINE mine == {e \in {item[g]} : /\ StatusOf(e) = "delivering"
                                          /\ deliveries[e].owner = g}
               verdict == IF error[g] THEN "failed" ELSE "delivered"
    <2>1. /\ item[g] \in Executions /\ phase[g] = "sent"
          /\ SettleAndPrune(mine, verdict) /\ UNCHANGED world
      BY <1>11 DEF Finish, HeldItem
    <2>2. HeldItem' /\ NoneTaken
      BY <1>11 DEF Finish, HeldItem, NoneTaken, TypeOK
    <2>3. /\ mine \in SUBSET Executions /\ mine \subseteq {item[g]} /\ verdict \in Terminal
          /\ \A e \in mine : StatusOf(e) = "delivering" /\ Outcome(e) = "delivering"
          /\ \A e \in mine : verdict = "delivered" => arrived[e]
          /\ \A h \in Gateways : phase[h] = "claimed" => item[h] \notin mine
      BY <2>1 DEF Outcome, Terminal, SentArrived, ClaimOwned
    <2> HIDE DEF mine, verdict
    <2>4. OneRecord' /\ OwnersKept /\ OutcomesChange(mine, verdict)
      BY <2>1, <2>3, SettleOutcome DEF OutcomesChange
    <2>5. Settles(mine, verdict)
      BY <2>1, <2>2, <2>3, <2>4 DEF Settles
    <2> QED BY <2>2, <2>3, <2>4, <2>5 DEF Kind
  <1>12. ASSUME NEW g \in Gateways, FinishRaises(g) PROVE HeldItem' /\ OneRecord' /\ Kind
    BY <1>1, <1>12, QuietStep DEF FinishRaises
  <1>13. ASSUME NEW e \in Executions, Enqueue(e) PROVE HeldItem' /\ OneRecord' /\ Kind
    <2>1. HeldItem' /\ NoneTaken /\ UNCHANGED <<tombstones, world>>
      BY <1>2, <1>13 DEF Enqueue
    <2>2. CASE Outcome(e) = "absent"
      <3>1. deliveries' = [deliveries EXCEPT ![e] =
                 [status |-> "pending", owner |-> NoOwner, created |-> clock + 1, finished |-> 0]]
        BY <1>13, <2>2 DEF Enqueue
      <3>2. \A x \in Executions : StatusOf(x)' = IF x = e THEN "pending" ELSE StatusOf(x)
        BY <3>1 DEF StatusOf, TypeOK
      <3>3. tombstones[e] = "none"
        BY <2>2 DEF Outcome, OneRecord, TypeOK, Terminal
      <3>4. OneRecord'
        BY <2>1, <3>2, <3>3 DEF OneRecord
      <3>5. OutcomesChange({e}, "pending") /\ OwnersKept
        BY <2>1, <3>1, <3>2 DEF OutcomesChange, OwnersKept, Outcome, TypeOK
      <3>6. Requests(e)
        BY <2>1, <2>2, <3>5 DEF Requests
      <3> QED BY <2>1, <3>4, <3>6 DEF Kind
    <2>3. CASE Outcome(e) # "absent"
      <3>1. UNCHANGED queue
        BY <1>13, <2>1, <2>3 DEF Enqueue, queue
      <3> QED BY <2>1, <3>1, QuietStep
    <2> QED BY <2>2, <2>3
  <1>14. ASSUME NEW e \in Executions, Poll(e) PROVE HeldItem' /\ OneRecord' /\ Kind
    BY <1>2, <1>14, QuietStep DEF Poll
  <1>15. ASSUME NEW e \in Executions, WaitTimesOut(e) PROVE HeldItem' /\ OneRecord' /\ Kind
    BY <1>2, <1>15, QuietStep DEF WaitTimesOut
  <1>16. ASSUME NEW e \in Executions, Fence(e) PROVE HeldItem' /\ OneRecord' /\ Kind
    <2> DEFINE hung == {x \in {e} : StatusOf(x) = "delivering"}
    <2>1. SettleAndPrune(hung, "unknown") /\ UNCHANGED world
      BY <1>16 DEF Fence
    <2>2. HeldItem' /\ NoneTaken
      BY <1>2, <1>16 DEF Fence
    <2>3. /\ hung \in SUBSET Executions /\ "unknown" \in Terminal
          /\ \A x \in hung : StatusOf(x) = "delivering" /\ Outcome(x) = "delivering"
      BY DEF Outcome, Terminal
    <2> HIDE DEF hung
    <2>4. OneRecord' /\ OwnersKept /\ OutcomesChange(hung, "unknown")
      BY <2>1, <2>3, SettleOutcome DEF OutcomesChange
    <2>5. Settles(hung, "unknown")
      BY <2>1, <2>2, <2>3, <2>4 DEF Settles
    <2> QED BY <2>2, <2>3, <2>4, <2>5 DEF Kind
  <1>17. ASSUME NEW e \in Executions, WorkerDies(e) PROVE HeldItem' /\ OneRecord' /\ Kind
    BY <1>2, <1>17, QuietStep DEF WorkerDies
  <1>18. CASE UNCHANGED vars
    BY <1>2, <1>18, QuietStep DEF vars
  <1> QED BY <1>3, <1>4, <1>5, <1>6, <1>7, <1>8, <1>9, <1>10, <1>11, <1>12, <1>13, <1>14,
             <1>15, <1>16, <1>17, <1>18
          DEF Next, GatewayStep, WorkerStep

(***************************************************************************)
(* The inductive invariant                                                 *)
(***************************************************************************)
LEMMA InvInit == Init => Inv
  <1> SUFFICES ASSUME Init PROVE Inv
    OBVIOUS
  <1>1. TypeOK
    BY DEF Init, TypeOK, NoRow, Row
  <1>2. \A e \in Executions : StatusOf(e) = "absent" /\ Outcome(e) = "absent" /\ tombstones[e] = "none"
    BY DEF Init, StatusOf, Outcome, NoRow
  <1> QED BY <1>1, <1>2 DEF Init, Inv, HeldItem, OneRecord, ClaimedUnsent, OneClaimant,
             Untouched, SentArrived, DeliveredArrived, AtMostOnce, ClaimOwned

LEMMA InvStep == Inv /\ [Next]_vars => Inv'
  <1> SUFFICES ASSUME Inv, [Next]_vars PROVE Inv'
    OBVIOUS
  <1> USE DEF Inv
  <1>1. TypeOK'
    BY TypeStep
  <1>2. HeldItem' /\ OneRecord' /\ Kind
    BY <1>1, StepKind
  <1>3. "absent" \notin Terminal /\ "pending" \notin Terminal
    BY DEF Terminal
  <1>4. ASSUME NEW S \in SUBSET Executions, NEW status \in Terminal, Settles(S, status)
        PROVE  Inv'
    <2>1. sends' = sends /\ arrived' = arrived
      BY <1>4 DEF Settles, world
    <2>2. ClaimedUnsent'
      BY <1>2, <1>3, <1>4, <2>1 DEF Settles, OutcomesChange, NoneTaken, ClaimedUnsent, HeldItem
    <2>7. ClaimOwned'
      BY <1>4 DEF Settles, OwnersKept, NoneTaken, ClaimOwned, HeldItem, StatusOf
    <2>3. OneClaimant'
      BY <1>4 DEF Settles, NoneTaken, OneClaimant
    <2>4. Untouched'
      BY <1>3, <1>4, <2>1 DEF Settles, OutcomesChange, Untouched
    <2>5. SentArrived' /\ AtMostOnce'
      BY <1>4, <2>1 DEF Settles, NoneTaken, SentArrived, AtMostOnce
    <2>6. DeliveredArrived'
      BY <1>4, <2>1 DEF Settles, OutcomesChange, DeliveredArrived
    <2> QED BY <1>1, <1>2, <2>2, <2>3, <2>4, <2>5, <2>6, <2>7
  <1>5. ASSUME NEW e \in Executions, Requests(e) PROVE Inv'
    <2>1. sends' = sends /\ arrived' = arrived
      BY <1>5 DEF Requests, world
    <2>2. ClaimedUnsent'
      BY <1>2, <1>5, <2>1 DEF Requests, OutcomesChange, NoneTaken, ClaimedUnsent, HeldItem
    <2>7. ClaimOwned'
      BY <1>5 DEF Requests, OwnersKept, NoneTaken, ClaimOwned, HeldItem, StatusOf
    <2>3. OneClaimant'
      BY <1>5 DEF Requests, NoneTaken, OneClaimant
    <2>4. Untouched'
      BY <1>5, <2>1 DEF Requests, OutcomesChange, Untouched
    <2>5. SentArrived' /\ AtMostOnce'
      BY <1>5, <2>1 DEF Requests, NoneTaken, SentArrived, AtMostOnce
    <2>6. DeliveredArrived'
      BY <1>5, <2>1 DEF Requests, OutcomesChange, DeliveredArrived
    <2> QED BY <1>1, <1>2, <2>2, <2>3, <2>4, <2>5, <2>6, <2>7
  <1>6. ASSUME NEW g \in Gateways, Claims(g) PROVE Inv'
    <2>1. sends' = sends /\ arrived' = arrived /\ item' = item /\ error' = error
      BY <1>6 DEF Claims, world
    <2>2. \A h \in Gateways : phase'[h] = IF h = g THEN "claimed" ELSE phase[h]
      BY <1>6 DEF Claims, TypeOK
    <2>3. \A h \in Gateways : phase[h] = "claimed" => item[h] # item[g]
      BY <1>6 DEF Claims, ClaimedUnsent
    <2>4. ClaimedUnsent'
      <3> SUFFICES ASSUME NEW h \in Gateways, phase'[h] = "claimed"
                   PROVE  /\ sends[item[h]] = 0 /\ ~arrived[item[h]]
                          /\ Outcome(item[h])' \in {"delivering", "unknown"}
        BY <2>1 DEF ClaimedUnsent, Outcome, StatusOf
      <3>1. CASE h = g
        BY <1>6, <3>1 DEF Claims, OutcomesChange, Untouched
      <3>2. CASE h # g
        <4>1. phase[h] = "claimed" /\ item[h] \in Executions
          BY <2>2, <3>2 DEF HeldItem
        <4>2. /\ sends[item[h]] = 0 /\ ~arrived[item[h]]
              /\ Outcome(item[h]) \in {"delivering", "unknown"}
          BY <4>1 DEF ClaimedUnsent
        <4>3. Outcome(item[h])' = IF item[h] = item[g] THEN "delivering" ELSE Outcome(item[h])
          BY <1>6, <4>1, <2>1 DEF Claims, OutcomesChange, Outcome, StatusOf
        <4> QED BY <4>2, <4>3
      <3> QED BY <3>1, <3>2
    <2>5. OneClaimant'
      BY <2>1, <2>2, <2>3 DEF OneClaimant
    <2>6. Untouched'
      BY <1>6, <2>1 DEF Claims, OutcomesChange, Untouched
    <2>7. SentArrived' /\ AtMostOnce'
      BY <2>1, <2>2 DEF SentArrived, AtMostOnce
    <2>8. DeliveredArrived'
      BY <1>6, <2>1 DEF Claims, OutcomesChange, DeliveredArrived
    <2>9. ClaimOwned'
      BY <1>6, <2>1, <2>2, <2>3 DEF Claims, ClaimOwned, HeldItem, StatusOf
    <2> QED BY <1>1, <1>2, <2>4, <2>5, <2>6, <2>7, <2>8, <2>9
  <1>7. ASSUME NEW g \in Gateways, Sends(g) PROVE Inv'
    <2>1. PICK failed, got \in BOOLEAN :
            /\ ~failed => got
            /\ error' = [error EXCEPT ![g] = failed]
            /\ arrived' = [arrived EXCEPT ![item[g]] = got]
      BY <1>7 DEF Sends
    <2>2. /\ phase[g] = "claimed" /\ phase' = [phase EXCEPT ![g] = "sent"]
          /\ sends' = [sends EXCEPT ![item[g]] = 1] /\ item' = item
          /\ item[g] \in Executions /\ sends[item[g]] = 0
          /\ ~arrived[item[g]] /\ Outcome(item[g]) \in {"delivering", "unknown"}
      BY <1>7 DEF Sends, HeldItem, ClaimedUnsent, DeliveredArrived
    <2>3. \A e \in Executions : Outcome(e)' = Outcome(e)
      BY <1>7 DEF Sends, OutcomesChange
    <2>4. \A h \in Gateways : phase'[h] = "claimed" => phase[h] = "claimed" /\ item[h] # item[g]
      BY <2>2 DEF OneClaimant, TypeOK
    <2>5. \A e \in Executions :
            e # item[g] => sends'[e] = sends[e] /\ arrived'[e] = arrived[e]
      BY <2>1, <2>2 DEF TypeOK
    <2>6. ClaimedUnsent'
      <3> SUFFICES ASSUME NEW h \in Gateways, phase'[h] = "claimed"
                   PROVE  /\ sends'[item[h]] = 0 /\ ~arrived'[item[h]]
                          /\ Outcome(item[h])' \in {"delivering", "unknown"}
        BY <2>2 DEF ClaimedUnsent, Outcome, StatusOf
      <3>1. phase[h] = "claimed" /\ item[h] # item[g] /\ item[h] \in Executions
        BY <2>4 DEF HeldItem
      <3>2. /\ sends[item[h]] = 0 /\ ~arrived[item[h]]
            /\ Outcome(item[h]) \in {"delivering", "unknown"}
        BY <3>1 DEF ClaimedUnsent
      <3>3. Outcome(item[h])' = Outcome(item[h])
        BY <2>2, <2>3, <3>1 DEF Outcome, StatusOf
      <3> QED BY <2>5, <3>1, <3>2, <3>3
    <2>7. OneClaimant'
      BY <2>2, <2>4 DEF OneClaimant
    <2>8. Untouched'
      BY <2>2, <2>3, <2>5 DEF Untouched
    <2>9. SentArrived'
      <3> SUFFICES ASSUME NEW h \in Gateways, phase'[h] = "sent", ~error'[h]
                   PROVE  arrived'[item[h]]
        BY <2>2 DEF SentArrived
      <3>1. CASE h = g
        <4>1. error'[g] = failed
          BY <2>1 DEF TypeOK
        <4>2. got
          BY <2>1, <3>1, <4>1
        <4>3. arrived'[item[g]] = got
          BY <2>1, <2>2 DEF TypeOK
        <4> QED BY <3>1, <4>2, <4>3
      <3>2. CASE h # g
        <4>1. phase[h] = "sent" /\ ~error[h] /\ item[h] \in Executions
          BY <2>1, <2>2, <3>2 DEF TypeOK, HeldItem
        <4>2. arrived[item[h]]
          BY <4>1 DEF SentArrived
        <4> QED BY <2>2, <2>5, <4>1, <4>2
      <3> QED BY <3>1, <3>2
    <2>10. DeliveredArrived'
      BY <2>2, <2>3, <2>5 DEF DeliveredArrived
    <2>11. AtMostOnce'
      BY <2>2, <2>5 DEF AtMostOnce, TypeOK
    <2>12. ClaimOwned'
      BY <1>7, <2>2, <2>4 DEF Sends, OwnersKept, ClaimOwned, HeldItem, StatusOf
    <2> QED BY <1>1, <1>2, <2>6, <2>7, <2>8, <2>9, <2>10, <2>11, <2>12
  <1> QED BY <1>2, <1>4, <1>5, <1>6, <1>7 DEF Kind

\* The strengthened invariant holds in every reachable state.
THEOREM Invariance == Spec => []Inv
  BY InvInit, InvStep, PTL DEF Spec

(***************************************************************************)
(* What the queue guarantees                                               *)
(***************************************************************************)
\* No message is handed to a transport twice, for any number of gateways,
\* crashes, timeouts, repeated requests and retention bound.
THEOREM SentAtMostOnce == Spec => []AtMostOnce
  <1>1. Inv => AtMostOnce
    BY DEF Inv
  <1> QED BY <1>1, Invariance, PTL

\* A row that is still pending was never attempted.
THEOREM PendingIsUntouched == Spec => []PendingUntouched
  <1>1. Inv => PendingUntouched
    BY DEF Inv, Untouched, PendingUntouched, Outcome
  <1> QED BY <1>1, Invariance, PTL

\* What is on record as delivered has arrived.
THEOREM DeliveredHasArrived == Spec => []DeliveredArrived
  <1>1. Inv => DeliveredArrived
    BY DEF Inv
  <1> QED BY <1>1, Invariance, PTL

\* The outcome on record for a message stays once it is terminal, whatever step is taken.
LEMMA OutcomeStays ==
  ASSUME Inv, [Next]_vars, NEW e \in Executions, Outcome(e) \in Terminal
  PROVE  Outcome(e)' = Outcome(e)
  <1>1. Kind
    BY StepKind, TypeStep DEF Inv
  <1>2. Outcome(e) \notin {"absent", "pending", "delivering"}
    BY DEF Terminal
  <1> QED BY <1>1, <1>2 DEF Kind, Settles, Requests, Claims, Sends, OutcomesChange

\* A terminal outcome never changes, in a row or on its way to a tombstone.
THEOREM OutcomesAreFinal == Spec => OutcomeIsFinal
  <1>1. Inv /\ [Next]_vars =>
          [\A e \in Executions : Outcome(e) \in Terminal => Outcome(e)' = Outcome(e)]_vars
    BY OutcomeStays
  <1> QED BY <1>1, Invariance, PTL DEF Spec, OutcomeIsFinal

\* What a worker is told: the answer changes in a step of that worker only, and is "ok" when the
\* message is on record as delivered, or waits in the queue after a timeout (enqueue_and_wait,
\* _terminalize_wait_timeout).
LEMMA OkStep ==
  ASSUME Inv, Next, NEW e \in Executions, report[e] # "ok", report'[e] = "ok"
  PROVE  Outcome(e) = "delivered" \/ Outcome(e)' = "pending"
  <1>1. report \in [Executions -> {"none", "ok", "error"}]
    BY DEF Inv, TypeOK
  <1>2. ASSUME NEW g \in Gateways, Start(g) \/ Crash(g) \/ GatewayStep(g) PROVE FALSE
    <2>1. report' = report
      BY <1>2 DEF Start, Crash, GatewayStep, RecoverScan, RecoverFence, Select, DrainEnds, Claim, Send,
                  Finish, FinishRaises, workers
    <2> QED BY <2>1
  <1>3. PICK x \in Executions : WorkerStep(x)
    BY <1>2 DEF Next
  <1>4. ASSUME NEW verdict, Return(x, verdict) PROVE x = e /\ verdict = "ok"
    BY <1>1, <1>4 DEF Return
  <1>5. \A status : Verdict(status) = "ok" => status = "delivered"
    BY DEF Verdict
  <1>6. CASE Enqueue(x)
    <2>1. CASE Outcome(x) \in Terminal
      <3>1. Return(x, Verdict(Outcome(x)))
        BY <1>6, <2>1 DEF Enqueue
      <3> QED BY <1>4, <1>5, <3>1
    <2>2. CASE Outcome(x) \notin Terminal
      BY <1>1, <1>6, <2>2 DEF Enqueue
    <2> QED BY <2>1, <2>2
  <1>7. CASE Poll(x)
    <2>1. Return(x, Verdict(Outcome(x)))
      BY <1>7 DEF Poll
    <2> QED BY <1>4, <1>5, <2>1
  <1>8. CASE WaitTimesOut(x)
    <2>1. CASE StatusOf(x) = "pending"
      <3>1. x = e
        BY <1>4, <1>8, <2>1 DEF WaitTimesOut
      <3> QED BY <1>8, <2>1, <3>1 DEF WaitTimesOut, queue, Outcome, StatusOf
    <2>2. CASE StatusOf(x) # "pending"
      BY <1>8, <2>2 DEF WaitTimesOut
    <2> QED BY <2>1, <2>2
  <1>9. CASE Fence(x)
    <2> DEFINE hung == {y \in {x} : StatusOf(y) = "delivering"}
    <2>1. Return(x, Verdict(Settle(hung, "unknown")[x].status))
      BY <1>9 DEF Fence
    <2>2. x = e /\ Settle(hung, "unknown")[x].status = "delivered"
      BY <1>4, <1>5, <2>1
    <2>3. StatusOf(x) # "delivering"
      BY <2>2 DEF Settle, Stamped
    <2>4. StatusOf(x) = "delivered"
      BY <2>2, <2>3 DEF Settle, StatusOf
    <2> QED BY <2>2, <2>4 DEF Outcome
  <1>10. CASE WorkerDies(x)
    BY <1>10 DEF WorkerDies
  <1> QED BY <1>3, <1>6, <1>7, <1>8, <1>9, <1>10 DEF WorkerStep

\* No worker is told "ok" of a message that was lost: it was delivered, or is still queued.
THEOREM OkIsTrue == Spec => OkIsDeliveredOrQueued
  <1>1. Inv /\ [Next]_vars =>
          [\A e \in Executions : report[e] # "ok" /\ report'[e] = "ok"
             => Outcome(e)' \in {"delivered", "pending"}]_vars
    <2> SUFFICES ASSUME Inv, Next, NEW e \in Executions, report[e] # "ok", report'[e] = "ok"
                 PROVE  Outcome(e)' \in {"delivered", "pending"}
      OBVIOUS
    <2>1. Outcome(e) = "delivered" \/ Outcome(e)' = "pending"
      BY OkStep
    <2>2. Outcome(e) = "delivered" => Outcome(e)' = "delivered"
      BY OutcomeStays DEF Terminal
    <2> QED BY <2>1, <2>2
  <1> QED BY <1>1, Invariance, PTL DEF Spec, OkIsDeliveredOrQueued

\* The queue implements AtMostOnceSend: every step settles, writes off,
\* requests, claims or sends there, or changes nothing.
THEOREM ImplementsPromise == Spec => PromiseSpec
  <1> DEFINE outcomes == [e \in Executions |-> Outcome(e)]
  <1>1. Init => Promise!Init
    <2> SUFFICES ASSUME Init PROVE Promise!Init
      OBVIOUS
    <2>1. \A e \in Executions : Outcome(e) = "absent"
      BY DEF Init, Outcome, StatusOf, NoRow
    <2> QED BY <2>1 DEF Init, Promise!Init
  <1>2. Inv /\ [Next]_vars => [Promise!Next]_(Promise!vars)
    <2> SUFFICES ASSUME Inv, [Next]_vars PROVE [Promise!Next]_(Promise!vars)
      OBVIOUS
    <2>1. Kind
      BY StepKind, TypeStep DEF Inv
    <2>2. ASSUME NEW S \in SUBSET Executions, NEW status \in Terminal, Settles(S, status)
          PROVE  [Promise!Next]_(Promise!vars)
      <3>1. /\ \A e \in Executions : Outcome(e)' = IF e \in S THEN status ELSE Outcome(e)
            /\ \A e \in S : Outcome(e) = "delivering" /\ (status = "delivered" => arrived[e])
            /\ sends' = sends /\ arrived' = arrived
        BY <2>2 DEF Settles, OutcomesChange, world
      <3>2. outcomes' = [e \in Executions |-> IF e \in S THEN status ELSE Outcome(e)]
        BY <3>1
      <3>3. CASE status = "unknown"
        <4>1. Promise!WriteOff(S)
          BY <3>1, <3>2, <3>3 DEF Promise!WriteOff
        <4> QED BY <4>1 DEF Promise!Next
      <3>4. CASE S = {}
        BY <3>1, <3>2, <3>4 DEF Promise!vars
      <3>5. ASSUME NEW e \in Executions, S = {e}
            PROVE  [Promise!Next]_(Promise!vars)
        <4>1. outcomes' = [outcomes EXCEPT ![e] = status]
          BY <3>2, <3>5
        <4>2. Promise!Settle(e, status)
          BY <3>1, <3>5, <4>1 DEF Promise!Settle
        <4>3. status \in Promise!Terminal
          BY DEF Terminal, Promise!Terminal
        <4> QED BY <4>2, <4>3 DEF Promise!Next
      <3>6. status = "unknown" \/ S = {} \/ \E e \in Executions : S = {e}
        BY <2>2 DEF Settles
      <3> QED BY <3>3, <3>4, <3>5, <3>6
    <2>3. ASSUME NEW e \in Executions, Requests(e)
          PROVE  [Promise!Next]_(Promise!vars)
      <3>1. outcomes' = [outcomes EXCEPT ![e] = "pending"]
        BY <2>3 DEF Requests, OutcomesChange
      <3>2. Promise!Request(e)
        BY <2>3, <3>1 DEF Requests, world, Promise!Request
      <3> QED BY <3>2 DEF Promise!Next
    <2>4. ASSUME NEW g \in Gateways, Claims(g)
          PROVE  [Promise!Next]_(Promise!vars)
      <3>1. outcomes' = [outcomes EXCEPT ![item[g]] = "delivering"] /\ item[g] \in Executions
        BY <2>4 DEF Claims, OutcomesChange
      <3>2. Promise!Claim(item[g])
        BY <2>4, <3>1 DEF Claims, world, Promise!Claim
      <3> QED BY <3>1, <3>2 DEF Promise!Next
    <2>5. ASSUME NEW g \in Gateways, Sends(g)
          PROVE  [Promise!Next]_(Promise!vars)
      <3>1. outcomes' = outcomes
        BY <2>5 DEF Sends, OutcomesChange
      <3>2. /\ item[g] \in Executions /\ sends[item[g]] = 0
            /\ Outcome(item[g]) \in {"delivering", "unknown"}
        BY <2>5 DEF Sends, Inv, HeldItem, ClaimedUnsent
      <3>3. PICK got \in BOOLEAN : arrived' = [arrived EXCEPT ![item[g]] = got]
        BY <2>5 DEF Sends
      <3>4. sends' = [sends EXCEPT ![item[g]] = 1]
        BY <2>5 DEF Sends
      <3>5. Promise!Send(item[g])
        BY <3>1, <3>2, <3>3, <3>4 DEF Promise!Send
      <3> QED BY <3>2, <3>5 DEF Promise!Next
    <2> QED BY <2>1, <2>2, <2>3, <2>4, <2>5 DEF Kind
  <1> QED BY <1>1, <1>2, Invariance, PTL DEF Spec, PromiseSpec, Promise!Spec
=============================================================================
