------------------------ MODULE DeliveryLedger_proofs -----------------------
(***************************************************************************)
(* Machine-checked proofs about DeliveryLedger, for any replies, gateway   *)
(* processes, attempts cap and table size, with crashes at any point and   *)
(* ledger writes that may raise.                                           *)
(***************************************************************************)
EXTENDS DeliveryLedger, FiniteSetTheorems, TLAPS

USE ConstantsAssumption

(***************************************************************************)
(* Types                                                                   *)
(***************************************************************************)
\* The initial values are typed.
LEMMA Values ==
  /\ NoRow \in Row /\ Empty \in Hand
  /\ NoHands \in [Paths -> [Replies -> Hand]]
  /\ NoBatch \in [Sweeps -> {"idle", "scanned", "sending", "done"}]
  /\ NothingSeen \in [Replies -> Row]
  /\ \A marker \in BOOLEAN, prior \in Errors : Claimed(marker, prior) \in Hand
  <1>1. NoRow \in Row
    BY DEF NoRow, Row, Open, Closed, Errors
  <1>2. Empty \in Hand
    BY DEF Empty, Hand, Errors
  <1>3. \A marker \in BOOLEAN, prior \in Errors : Claimed(marker, prior) \in Hand
    BY DEF Claimed, Hand, Errors
  <1> QED BY <1>1, <1>2, <1>3 DEF NoHands, NoBatch, NothingSeen

\* What Put does: one hand changes.
LEMMA PutFacts ==
  ASSUME TypeOK, NEW g \in Gateways, NEW p \in Paths, NEW r \in Replies, NEW STATE h, h \in Hand,
         Put(g, p, r, h)
  PROVE  /\ hand' \in [Gateways -> [Paths -> [Replies -> Hand]]]
         /\ hand'[g][p][r] = h
         /\ \A x \in Gateways, q \in Paths, s \in Replies :
              x # g \/ q # p \/ s # r => hand'[x][q][s] = hand[x][q][s]
  BY DEF Put, TypeOK

\* An update of a row by its id keeps its owner, its attempts and whether it is there.
LEMMA UpdatedFacts ==
  ASSUME TypeOK, NEW r \in Replies, NEW STATE s, s \in Open \cup Closed, NEW STATE e, e \in Errors
  PROVE  /\ Updated(r, s, e) \in Row
         /\ Updated(r, s, e).owner = IF row[r].state = "none" THEN NoOwner ELSE row[r].owner
         /\ Updated(r, s, e).attempts = IF row[r].state = "none" THEN 0 ELSE row[r].attempts
         /\ Updated(r, s, e).state = IF row[r].state = "none" THEN "none" ELSE s
  <1>1. row[r] \in Row
    BY DEF TypeOK
  <1> QED BY <1>1, Values DEF Updated, Row, NoRow

\* Arming or waking the flood worker touches that of one process.
LEMMA ScheduleFacts ==
  ASSUME TypeOK, NEW g \in Gateways, Schedule(g) \/ UNCHANGED flood
  PROVE  /\ timer' \in [Gateways -> {"none", "head", "reading", "read", "sleeping", "sweeping"}]
         /\ wake' \in [Gateways -> BOOLEAN] /\ found' \in [Gateways -> BOOLEAN]
         /\ \A x \in Gateways \ {g} : timer'[x] = timer[x]
  BY DEF Schedule, flood, TypeOK

\* What a boot sweep's UPDATEs do to a row and to the hand of the boot path.
LEMMA BootClaimFacts ==
  ASSUME TypeOK, NEW g \in Gateways, BootClaim(g)
  PROVE  /\ hand' \in [Gateways -> [Paths -> [Replies -> Hand]]]
         /\ row' \in [Replies -> Row]
         /\ \A x \in Gateways, p \in Paths, r \in Replies :
              x # g \/ p # "boot" => hand'[x][p][r] = hand[x][p][r]
         /\ late' \in [Gateways -> SUBSET Replies]
         /\ \A x \in Gateways : late[x] \subseteq late'[x] /\ (x # g => late'[x] = late[x])
         /\ \A r \in held[g] : hand'[g]["boot"][r].place = "due" => r \in late'[g]
         /\ \A r \in Replies :
              LET then == seen[g][r]
                  h == hand'[g]["boot"][r]
              IN  \/ /\ then.state \in Open /\ ~Exhausted(then) /\ Unchanged(g, r)
                     /\ row[r].state # "none"
                     /\ row'[r].owner = g /\ row'[r].attempts = row[r].attempts + 1
                     /\ row'[r].state # "none"
                     /\ \/ row'[r].state = row[r].state
                        \/ row'[r].state = "attempting" /\ then.state = "failed"
                     /\ h.place = "due" /\ h.marker = (then.state # "pending")
                  \/ /\ then.state \in Open /\ Unchanged(g, r) /\ row[r].state # "none"
                     /\ row'[r] = [row[r] EXCEPT !.owner = g]
                     /\ h = Empty
                  \/ /\ row'[r] \in {row[r], [row[r] EXCEPT !.state = "abandoned"]}
                     /\ row[r].state = "none" => row'[r] = row[r]
                     /\ h = Empty
  <1>1. PICK connected \in BOOLEAN :
       LET open == {r \in Replies : seen[g][r].state \in Open}
           spent == {r \in open : Exhausted(seen[g][r])}
           mine == {r \in open \ spent : connected /\ Unchanged(g, r) /\ row[r].state # "none"}
           isFlood(r) == seen[g][r].state = "failed" /\ seen[g][r].error = "flood"
           adopted == {r \in mine : isFlood(r) /\ seen[g][r].waiting}
           claimed == mine \ adopted
       IN  /\ row' = [r \in Replies |->
                CASE r \in spent /\ row[r].state # "none" -> [row[r] EXCEPT !.state = "abandoned"]
                  [] r \in adopted -> [row[r] EXCEPT !.owner = g]
                  [] r \in claimed ->
                       [state |-> IF isFlood(r) THEN "attempting" ELSE row[r].state,
                        owner |-> g, attempts |-> row[r].attempts + 1,
                        error |-> IF isFlood(r) THEN "none" ELSE row[r].error,
                        waiting |-> row[r].waiting /\ ~isFlood(r), stale |-> row[r].stale]
                  [] OTHER -> row[r]]
           /\ hand' = [hand EXCEPT ![g]["boot"] = [r \in Replies |->
                IF r \in claimed
                  THEN Claimed(seen[g][r].state # "pending", seen[g][r].error) ELSE Empty]]
           /\ late' = [late EXCEPT ![g] = @ \cup (claimed \cap held[g])]
    BY DEF BootClaim
  <1> DEFINE open == {r \in Replies : seen[g][r].state \in Open}
             spent == {r \in open : Exhausted(seen[g][r])}
             mine == {r \in open \ spent : connected /\ Unchanged(g, r) /\ row[r].state # "none"}
             isFlood(r) == seen[g][r].state = "failed" /\ seen[g][r].error = "flood"
             adopted == {r \in mine : isFlood(r) /\ seen[g][r].waiting}
             claimed == mine \ adopted
             moved(r) == [state |-> IF isFlood(r) THEN "attempting" ELSE row[r].state,
                          owner |-> g, attempts |-> row[r].attempts + 1,
                          error |-> IF isFlood(r) THEN "none" ELSE row[r].error,
                          waiting |-> row[r].waiting /\ ~isFlood(r), stale |-> row[r].stale]
             taken == [r \in Replies |->
                IF r \in claimed
                  THEN Claimed(seen[g][r].state # "pending", seen[g][r].error) ELSE Empty]
  <1>2. /\ row' = [r \in Replies |->
                CASE r \in spent /\ row[r].state # "none" -> [row[r] EXCEPT !.state = "abandoned"]
                  [] r \in adopted -> [row[r] EXCEPT !.owner = g]
                  [] r \in claimed -> moved(r)
                  [] OTHER -> row[r]]
        /\ hand' = [hand EXCEPT ![g]["boot"] = taken]
        /\ late' = [late EXCEPT ![g] = @ \cup (claimed \cap held[g])]
    BY <1>1
  <1>3. \A r \in Replies : row[r] \in Row /\ seen[g][r] \in Row
    BY DEF TypeOK
  <1>4. taken \in [Replies -> Hand]
    BY <1>3, Values DEF Row
  <1>5. \A r \in Replies : moved(r) \in Row
    BY <1>3 DEF Row, Open, Closed, Errors
  <1>5a. \A r \in Replies : [row[r] EXCEPT !.state = "abandoned"] \in Row
                         /\ [row[r] EXCEPT !.owner = g] \in Row
    BY <1>3 DEF Row, Open, Closed
  <1>6. \A r \in Replies : row'[r] \in Row
    <2> HIDE DEF moved, claimed, adopted, mine, spent
    <2> QED BY <1>2, <1>3, <1>5, <1>5a
  <1>7. row' \in [Replies -> Row]
    <2>1. row' = [r \in Replies |-> row'[r]]
      BY <1>2
    <2> QED BY <2>1, <1>6
  <1>8. /\ hand' \in [Gateways -> [Paths -> [Replies -> Hand]]]
        /\ \A r \in Replies : hand'[g]["boot"][r] = taken[r]
        /\ \A x \in Gateways, p \in Paths, r \in Replies :
              x # g \/ p # "boot" => hand'[x][p][r] = hand[x][p][r]
    <2> HIDE DEF taken
    <2> QED BY <1>2, <1>4 DEF TypeOK, Paths, Sweeps
  <1>9. ASSUME NEW r \in Replies
        PROVE  \/ r \in claimed /\ row'[r] = moved(r)
               \/ r \in adopted /\ row'[r] = [row[r] EXCEPT !.owner = g]
               \/ /\ r \notin claimed
                  /\ row'[r] \in {row[r], [row[r] EXCEPT !.state = "abandoned"]}
                  /\ row[r].state = "none" => row'[r] = row[r]
    <2>1. claimed \cap spent = {} /\ adopted \cap spent = {} /\ claimed \cap adopted = {}
      OBVIOUS
    <2> HIDE DEF moved, claimed, adopted, mine, spent
    <2> QED BY <2>1, <1>2
  <1>10. ASSUME NEW r \in Replies, r \in claimed, row'[r] = moved(r)
         PROVE  /\ seen[g][r].state \in Open /\ ~Exhausted(seen[g][r]) /\ Unchanged(g, r)
                /\ row[r].state # "none"
                /\ row'[r].owner = g /\ row'[r].attempts = row[r].attempts + 1
                /\ row'[r].state # "none"
                /\ \/ row'[r].state = row[r].state
                   \/ row'[r].state = "attempting" /\ seen[g][r].state = "failed"
                /\ taken[r].place = "due" /\ taken[r].marker = (seen[g][r].state # "pending")
    BY <1>10 DEF Claimed
  <1>11. \A r \in adopted : seen[g][r].state \in Open /\ Unchanged(g, r) /\ row[r].state # "none"
                            /\ taken[r] = Empty
    OBVIOUS
  <1>12. \A r \in Replies \ claimed : taken[r] = Empty
    OBVIOUS
  <1>13. claimed \subseteq Replies
    OBVIOUS
  <1> HIDE DEF moved, claimed, adopted, mine, spent, taken
  <1>14. /\ late' \in [Gateways -> SUBSET Replies]
         /\ \A x \in Gateways : late[x] \subseteq late'[x] /\ (x # g => late'[x] = late[x])
         /\ claimed \cap held[g] \subseteq late'[g]
    BY <1>2, <1>13 DEF TypeOK
  <1>15. \A r \in held[g] : hand'[g]["boot"][r].place = "due" => r \in late'[g]
    <2>1. held[g] \subseteq Replies /\ Empty.place = "none"
      BY DEF TypeOK, Empty
    <2> QED BY <1>8, <1>12, <1>14, <2>1
  <1> QED BY <1>7, <1>8, <1>9, <1>10, <1>11, <1>12, <1>14, <1>15

\* What the reconnect sweep's or the timer's transaction does to a row and to their hands.
LEMMA RuntimeClaimFacts ==
  ASSUME TypeOK, NEW g \in Gateways, NEW p \in Sweeps, RuntimeClaim(g, p)
  PROVE  /\ hand' \in [Gateways -> [Paths -> [Replies -> Hand]]]
         /\ row' \in [Replies -> Row]
         /\ batch' \in [Gateways -> [Sweeps -> {"idle", "scanned", "sending", "done"}]]
         /\ \A x \in Gateways \ {g} : batch'[x] = batch[x]
         /\ \A x \in Gateways, q \in Paths, r \in Replies :
              x # g \/ q # p => hand'[x][q][r] = hand[x][q][r]
         /\ \A r \in Replies :
              \/ /\ row[r].state = "failed" /\ row[r].owner = g /\ ~Exhausted(row[r])
                 /\ row'[r].state = "attempting" /\ row'[r].owner = g
                 /\ row'[r].attempts = row[r].attempts + 1
                 /\ hand'[g][p][r].place = "due" /\ hand'[g][p][r].marker
              \/ /\ row[r].state = "failed" /\ row[r].owner = g
                 /\ row'[r] = [row[r] EXCEPT !.state = "abandoned"]
                 /\ hand'[g][p][r] = Empty
              \/ row'[r] = row[r] /\ hand'[g][p][r] = Empty
  <1> DEFINE mine == {r \in Replies : /\ row[r].state = "failed" /\ row[r].owner = g
                                      /\ row[r].error \in {"flood", "degraded"}}
             spent == {r \in mine : Exhausted(row[r])}
             claimed == {r \in mine \ spent : ~(row[r].error = "flood" /\ row[r].waiting)}
             moved(r) == [state |-> "attempting", owner |-> g, attempts |-> row[r].attempts + 1,
                          error |-> "none", waiting |-> FALSE, stale |-> row[r].stale]
             taken == [r \in Replies |->
                IF r \in claimed THEN Claimed(TRUE, row[r].error) ELSE Empty]
  <1>1. /\ row' = [r \in Replies |->
           CASE r \in spent -> [row[r] EXCEPT !.state = "abandoned"]
             [] r \in claimed -> moved(r)
             [] OTHER -> row[r]]
        /\ hand' = [hand EXCEPT ![g][p] = taken]
        /\ batch' = [batch EXCEPT ![g][p] = IF claimed = {} THEN "idle" ELSE "sending"]
    BY DEF RuntimeClaim
  <1>2. \A r \in Replies : row[r] \in Row
    BY DEF TypeOK
  <1>3. taken \in [Replies -> Hand]
    BY <1>2, Values DEF Row
  <1>4. \A r \in Replies : moved(r) \in Row /\ [row[r] EXCEPT !.state = "abandoned"] \in Row
    BY <1>2 DEF Row, Open, Closed, Errors
  <1>5. \A r \in Replies : row'[r] \in Row
    <2> HIDE DEF moved, claimed, mine, spent
    <2> QED BY <1>1, <1>2, <1>4
  <1>6. row' \in [Replies -> Row]
    <2>1. row' = [r \in Replies |-> row'[r]]
      BY <1>1
    <2> QED BY <2>1, <1>5
  <1>7. /\ hand' \in [Gateways -> [Paths -> [Replies -> Hand]]]
        /\ \A r \in Replies : hand'[g][p][r] = taken[r]
        /\ \A x \in Gateways, q \in Paths, r \in Replies :
              x # g \/ q # p => hand'[x][q][r] = hand[x][q][r]
    <2> HIDE DEF taken, claimed, spent, mine, moved
    <2>1. p \in Paths /\ hand \in [Gateways -> [Paths -> [Replies -> Hand]]]
      BY DEF TypeOK, Paths
    <2>2. hand' = [hand EXCEPT ![g][p] = taken]
      BY <1>1
    <2> QED BY <2>1, <2>2, <1>3
  <1>8. /\ batch' \in [Gateways -> [Sweeps -> {"idle", "scanned", "sending", "done"}]]
        /\ \A x \in Gateways \ {g} : batch'[x] = batch[x]
    <2> HIDE DEF claimed
    <2> QED BY <1>1 DEF TypeOK
  <1>9. ASSUME NEW r \in Replies
        PROVE  \/ r \in claimed /\ row'[r] = moved(r)
               \/ r \in spent /\ row'[r] = [row[r] EXCEPT !.state = "abandoned"]
               \/ r \notin claimed /\ row'[r] = row[r]
    <2> HIDE DEF moved, claimed, mine, spent
    <2> QED BY <1>1
  <1>10. ASSUME NEW r \in Replies, r \in claimed, row'[r] = moved(r)
         PROVE  /\ row[r].state = "failed" /\ row[r].owner = g /\ ~Exhausted(row[r])
                /\ row'[r].state = "attempting" /\ row'[r].owner = g
                /\ row'[r].attempts = row[r].attempts + 1
                /\ taken[r].place = "due" /\ taken[r].marker
    BY <1>10 DEF Claimed
  <1>11. \A r \in spent : row[r].state = "failed" /\ row[r].owner = g /\ taken[r] = Empty
    OBVIOUS
  <1>12. \A r \in Replies \ claimed : taken[r] = Empty
    OBVIOUS
  <1> HIDE DEF moved, claimed, mine, spent, taken
  <1> QED BY <1>6, <1>7, <1>8, <1>9, <1>10, <1>11, <1>12

\* What recording a reply does: its row is new or pruned at once, and of the others some
\* are pruned.
LEMMA RecordFacts ==
  ASSUME TypeOK, NEW g \in Gateways, NEW r \in Replies, Record(g, r)
  PROVE  /\ row' \in [Replies -> Row]
         /\ hand' \in [Gateways -> [Paths -> [Replies -> Hand]]]
         /\ owed' \in [Replies -> BOOLEAN]
         /\ hand'[g]["turn"][r].place = "recorded"
         /\ \A x \in Gateways, q \in Paths, s \in Replies :
              x # g \/ q # "turn" \/ s # r => hand'[x][q][s] = hand[x][q][s]
         /\ owed'[r] /\ \A s \in Replies \ {r} : owed'[s] = owed[s]
         /\ \/ row'[r] = NoRow
            \/ row'[r].state = "pending" /\ row'[r].owner = g /\ row'[r].attempts = 0
         /\ \A s \in Replies \ {r} : row'[s] \in {NoRow, row[s]}
  <1> DEFINE new == [NoRow EXCEPT !.state = "pending", !.owner = g]
             table == [row EXCEPT ![r] = new]
             h == [Empty EXCEPT !.place = "recorded"]
  <1>1. new \in Row /\ new.state = "pending" /\ new.owner = g /\ new.attempts = 0
    BY Values DEF NoRow, Row, Open, Closed
  <1>2. h \in Hand /\ h.place = "recorded"
    BY Values DEF Empty, Hand
  <1>3. /\ Put(g, "turn", r, h) /\ "turn" \in Paths
    BY DEF Record, Paths
  <1>4. /\ hand' \in [Gateways -> [Paths -> [Replies -> Hand]]]
        /\ hand'[g]["turn"][r].place = "recorded"
        /\ \A x \in Gateways, q \in Paths, s \in Replies :
              x # g \/ q # "turn" \/ s # r => hand'[x][q][s] = hand[x][q][s]
    <2> HIDE DEF h
    <2> QED BY <1>2, <1>3, PutFacts
  <1>5. table \in [Replies -> Row] /\ table[r] = new /\ \A s \in Replies \ {r} : table[s] = row[s]
    <2> HIDE DEF new
    <2> QED BY <1>1 DEF TypeOK
  <1>6. Prune(table)
    BY DEF Record
  <1>7. row' \in [Replies -> Row] /\ \A s \in Replies : row'[s] \in {NoRow, table[s]}
    <2> HIDE DEF table
    <2> QED BY <1>5, <1>6, Values DEF Prune
  <1>8. owed' \in [Replies -> BOOLEAN] /\ owed'[r] /\ \A s \in Replies \ {r} : owed'[s] = owed[s]
    BY DEF Record, TypeOK
  <1> HIDE DEF new, table, h
  <1> QED BY <1>1, <1>4, <1>5, <1>7, <1>8

\* What a send does to the history.
LEMMA TransmitFacts ==
  ASSUME TypeOK, NEW r \in Replies, NEW STATE marker, marker \in BOOLEAN, NEW STATE result,
         Transmit(r, marker, result)
  PROVE  /\ plain' \in [Replies -> Nat] /\ marked' \in [Replies -> Nat]
         /\ arrived' \in [Replies -> BOOLEAN] /\ owed' = owed /\ late' = late
         /\ plain'[r] + marked'[r] = plain[r] + marked[r] + 1
         /\ \A s \in Replies \ {r} : plain'[s] = plain[s] /\ marked'[s] = marked[s]
         /\ \A s \in Replies : arrived[s] => arrived'[s]
         /\ result = "success" => arrived'[r]
  <1>1. /\ plain' = [plain EXCEPT ![r] = IF marker THEN @ ELSE @ + 1]
        /\ marked' = [marked EXCEPT ![r] = IF marker THEN @ + 1 ELSE @]
        /\ owed' = owed /\ late' = late
    BY DEF Transmit
  <1>2. PICK got \in BOOLEAN : /\ result = "success" => got
                               /\ arrived' = [arrived EXCEPT ![r] = @ \/ got]
    BY DEF Transmit
  <1>3. /\ plain' \in [Replies -> Nat] /\ marked' \in [Replies -> Nat]
        /\ plain'[r] + marked'[r] = plain[r] + marked[r] + 1
        /\ \A s \in Replies \ {r} : plain'[s] = plain[s] /\ marked'[s] = marked[s]
    <2>1. plain \in [Replies -> Nat] /\ marked \in [Replies -> Nat]
      BY DEF TypeOK
    <2>2. CASE marker
      <3>1. /\ plain' = [plain EXCEPT ![r] = plain[r]]
            /\ marked' = [marked EXCEPT ![r] = marked[r] + 1]
        BY <1>1, <2>2
      <3> QED BY <2>1, <3>1
    <2>3. CASE ~marker
      <3>1. /\ plain' = [plain EXCEPT ![r] = plain[r] + 1]
            /\ marked' = [marked EXCEPT ![r] = marked[r]]
        BY <1>1, <2>3
      <3> QED BY <2>1, <3>1
    <2> QED BY <2>2, <2>3
  <1>4. /\ arrived' \in [Replies -> BOOLEAN]
        /\ arrived'[r] = (arrived[r] \/ got)
        /\ \A s \in Replies \ {r} : arrived'[s] = arrived[s]
    BY <1>2, Zenon DEF TypeOK
  <1> QED BY <1>1, <1>2, <1>3, <1>4

\* What a step with a reply in hand does: one hand changes, and the row of the reply keeps
\* its owner and stays, or stays away.
Handles(g, p, r) ==
  /\ hand[g][p][r].place # "none"
  /\ hand' \in [Gateways -> [Paths -> [Replies -> Hand]]]
  /\ row' \in [Replies -> Row]
  /\ \A x \in Gateways, q \in Paths, s \in Replies :
        x # g \/ q # p \/ s # r => hand'[x][q][s] = hand[x][q][s]
  /\ hand'[g][p][r].place = "due" => p = "turn"
  /\ \A s \in Replies \ {r} : row'[s] = row[s]
  /\ row'[r].state = "none" <=> row[r].state = "none"
  /\ row[r].state # "none" => row'[r].owner = row[r].owner /\ row'[r].attempts <= row[r].attempts
  /\ UNCHANGED <<life, batch, seen, held, owed, late>>

\* Marking the attempt leaves the reply due in its turn's hand.
LEMMA MarkAttemptingHandles ==
  ASSUME TypeOK, NEW g \in Gateways, NEW r \in Replies, MarkAttempting(g, r)
  PROVE  /\ Handles(g, "turn", r) /\ UNCHANGED <<flood, world>>
         /\ hand[g]["turn"][r].place = "recorded"
         /\ hand'[g]["turn"][r].place = "due"
         /\ row[r].state # "none" => row'[r].attempts = row[r].attempts
         /\ row'[r].state # "delivered"
  <1>1. "turn" \in Paths /\ "none" \in Errors /\ "attempting" \in Open \cup Closed
    BY DEF Paths, Errors, Open
  <1> DEFINE h == Claimed(FALSE, "none")
  <1>2. h \in Hand /\ h.place = "due"
    BY Values, <1>1 DEF Claimed
  <1>3. Put(g, "turn", r, h)
    BY DEF MarkAttempting
  <1>4. row' = [row EXCEPT ![r] = Updated(r, "attempting", "none")]
    BY DEF MarkAttempting
  <1>5. row' \in [Replies -> Row] /\ row'[r] = Updated(r, "attempting", "none")
        /\ \A s \in Replies \ {r} : row'[s] = row[s]
    <2>1. Updated(r, "attempting", "none") \in Row
      BY <1>1, UpdatedFacts
    <2> QED BY <1>4, <2>1 DEF TypeOK
  <1>6. hand[g]["turn"][r].place = "recorded" /\ UNCHANGED <<life, batch, sight, flood, world>>
    BY DEF MarkAttempting
  <1>7. /\ row[r].state # "none" => /\ row'[r].owner = row[r].owner
                                   /\ row'[r].attempts = row[r].attempts
                                   /\ row'[r].state = "attempting"
        /\ row[r].state = "none" => row'[r].state = "none"
    <2> DEFINE new == Updated(r, "attempting", "none")
    <2>1. /\ new.owner = IF row[r].state = "none" THEN NoOwner ELSE row[r].owner
          /\ new.attempts = IF row[r].state = "none" THEN 0 ELSE row[r].attempts
          /\ new.state = IF row[r].state = "none" THEN "none" ELSE "attempting"
      BY <1>1, UpdatedFacts
    <2>2. row'[r] = new
      BY <1>5
    <2> HIDE DEF new
    <2>3. CASE row[r].state = "none"
      BY <2>1, <2>2, <2>3
    <2>4. CASE row[r].state # "none"
      BY <2>1, <2>2, <2>4
    <2> QED BY <2>3, <2>4
  <1>8. /\ hand' \in [Gateways -> [Paths -> [Replies -> Hand]]]
        /\ hand'[g]["turn"][r].place = "due"
        /\ \A x \in Gateways, q \in Paths, s \in Replies :
              x # g \/ q # "turn" \/ s # r => hand'[x][q][s] = hand[x][q][s]
    <2> HIDE DEF h
    <2> QED BY <1>1, <1>2, <1>3, PutFacts
  <1>9. row[r].state # "none" => row'[r].attempts <= row[r].attempts
    BY <1>7 DEF TypeOK, Row
  <1> QED BY <1>5, <1>6, <1>7, <1>8, <1>9 DEF Handles, sight, world

\* A mark that raises leaves it to be sent without its obligation.
LEMMA MarkAttemptingRaisesHandles ==
  ASSUME TypeOK, NEW g \in Gateways, NEW r \in Replies, MarkAttemptingRaises(g, r)
  PROVE  /\ Handles(g, "turn", r) /\ UNCHANGED <<row, flood, world>>
         /\ hand[g]["turn"][r].place = "recorded"
         /\ hand'[g]["turn"][r].place = "loose"
  <1> DEFINE h == [Empty EXCEPT !.place = "loose"]
  <1>1. "turn" \in Paths /\ h \in Hand /\ h.place = "loose"
    BY Values DEF Paths, Empty, Hand
  <1>2. Put(g, "turn", r, h) /\ hand[g]["turn"][r].place = "recorded"
    BY DEF MarkAttemptingRaises
  <1>3. UNCHANGED <<row, life, batch, sight, flood, world>>
    BY DEF MarkAttemptingRaises
  <1> HIDE DEF h
  <1>4. row[r].attempts <= row[r].attempts
    BY DEF TypeOK, Row
  <1> QED BY <1>1, <1>2, <1>3, <1>4, PutFacts DEF Handles, TypeOK, sight, world

\* A send records its result in the hand and is counted once.
LEMMA SendHandles ==
  ASSUME TypeOK, NEW g \in Gateways, NEW p \in Paths, NEW r \in Replies, Send(g, p, r)
  PROVE  /\ Handles(g, p, r) /\ UNCHANGED <<row, flood>>
         /\ hand[g][p][r].place = "due"
         /\ hand'[g][p][r].place = "sent"
         /\ hand'[g][p][r].result = "success" => arrived'[r]
         /\ \E marker \in BOOLEAN : \E result : Transmit(r, marker, result)
         /\ \A s \in Replies : arrived[s] => arrived'[s]
  <1>1. PICK result \in {"success", "flood", "degraded", "other"} :
          /\ Transmit(r, hand[g][p][r].marker, result)
          /\ Put(g, p, r, [hand[g][p][r] EXCEPT !.place = "sent", !.result = result])
    BY DEF Send
  <1>2. hand[g][p][r] \in Hand /\ hand[g][p][r].marker \in BOOLEAN
    BY DEF TypeOK, Hand
  <1> DEFINE h == [hand[g][p][r] EXCEPT !.place = "sent", !.result = result]
  <1>3. h \in Hand /\ h.place = "sent" /\ h.result = result
    BY <1>2 DEF Hand, Errors
  <1>4. Put(g, p, r, h)
    BY <1>1
  <1>5. hand[g][p][r].place = "due" /\ UNCHANGED <<row, life, batch, sight, flood>>
    BY DEF Send
  <1>6. /\ owed' = owed /\ late' = late
        /\ \A s \in Replies : arrived[s] => arrived'[s]
        /\ result = "success" => arrived'[r]
    BY <1>1, <1>2, TransmitFacts
  <1> HIDE DEF h
  <1>7. hand'[g][p][r] = h
    BY <1>3, <1>4, PutFacts
  <1>8. Handles(g, p, r)
    <2>1. row[r].attempts <= row[r].attempts
      BY DEF TypeOK, Row
    <2> QED BY <1>3, <1>4, <1>5, <1>6, <2>1, PutFacts DEF Handles, TypeOK, sight
  <1> QED BY <1>1, <1>2, <1>3, <1>5, <1>6, <1>7, <1>8

\* A send without its obligation empties the hand and is counted once.
LEMMA SendLooseHandles ==
  ASSUME TypeOK, NEW g \in Gateways, NEW r \in Replies, SendLoose(g, r)
  PROVE  /\ Handles(g, "turn", r) /\ UNCHANGED <<row, flood>>
         /\ hand[g]["turn"][r].place = "loose"
         /\ hand'[g]["turn"][r] = Empty
         /\ \E marker \in BOOLEAN : \E result : Transmit(r, marker, result)
         /\ \A s \in Replies : arrived[s] => arrived'[s]
  <1>1. PICK result \in {"success", "other"} : Transmit(r, FALSE, result)
    BY DEF SendLoose
  <1>2. "turn" \in Paths /\ Empty \in Hand /\ Empty.place = "none" /\ Put(g, "turn", r, Empty)
    BY Values DEF Paths, Empty, SendLoose
  <1>3. hand[g]["turn"][r].place = "loose" /\ UNCHANGED <<row, life, batch, sight, flood>>
    BY DEF SendLoose
  <1>4. owed' = owed /\ late' = late /\ \A s \in Replies : arrived[s] => arrived'[s]
    BY <1>1, TransmitFacts
  <1>5. /\ hand' \in [Gateways -> [Paths -> [Replies -> Hand]]]
        /\ hand'[g]["turn"][r] = Empty
        /\ \A x \in Gateways, q \in Paths, s \in Replies :
              x # g \/ q # "turn" \/ s # r => hand'[x][q][s] = hand[x][q][s]
    BY <1>2, PutFacts
  <1>6. Handles(g, "turn", r)
    <2>1. row[r].attempts <= row[r].attempts
      BY DEF TypeOK, Row
    <2> QED BY <1>2, <1>3, <1>4, <1>5, <2>1 DEF Handles, TypeOK, sight
  <1> QED BY <1>1, <1>3, <1>4, <1>5, <1>6

\* Settling empties the hand; a row becomes delivered only after a success.
LEMMA SettleHandles ==
  ASSUME TypeOK, NEW g \in Gateways, NEW p \in Paths, NEW r \in Replies, Settle(g, p, r)
  PROVE  /\ Handles(g, p, r) /\ UNCHANGED world /\ (Schedule(g) \/ UNCHANGED flood)
         /\ hand[g][p][r].place = "sent"
         /\ hand'[g][p][r] = Empty
         /\ row[r].state # "none" => row'[r].attempts = row[r].attempts
         /\ row'[r].state = "delivered" => hand[g][p][r].result = "success"
  <1> DEFINE result == hand[g][p][r].result
             new == IF result = "success"
                      THEN Updated(r, "delivered", "none") ELSE Updated(r, "failed", result)
  <1>1. result \in {"success"} \cup Errors
    BY DEF TypeOK, Hand
  <1>2. /\ new \in Row
        /\ new.owner = IF row[r].state = "none" THEN NoOwner ELSE row[r].owner
        /\ new.attempts = IF row[r].state = "none" THEN 0 ELSE row[r].attempts
        /\ new.state = IF row[r].state = "none" THEN "none"
                       ELSE IF result = "success" THEN "delivered" ELSE "failed"
    <2>1. {"delivered", "failed"} \subseteq Open \cup Closed /\ "none" \in Errors
      BY DEF Open, Closed, Errors
    <2>2. CASE result = "success"
      <3>1. new = Updated(r, "delivered", "none")
        BY <2>2
      <3> QED BY <2>1, <2>2, <3>1, UpdatedFacts
    <2>3. CASE result # "success"
      <3>1. new = Updated(r, "failed", result) /\ result \in Errors
        BY <2>3, <1>1
      <3> QED BY <2>1, <2>3, <3>1, UpdatedFacts
    <2> QED BY <2>2, <2>3
  <1>3. row' = [row EXCEPT ![r] = new]
    BY DEF Settle
  <1> HIDE DEF new
  <1>4. row' \in [Replies -> Row] /\ row'[r] = new /\ \A s \in Replies \ {r} : row'[s] = row[s]
    BY <1>2, <1>3 DEF TypeOK
  <1>5. Empty \in Hand /\ Empty.place = "none" /\ Put(g, p, r, Empty)
    BY Values DEF Empty, Settle
  <1>6. /\ hand' \in [Gateways -> [Paths -> [Replies -> Hand]]]
        /\ hand'[g][p][r] = Empty
        /\ \A x \in Gateways, q \in Paths, s \in Replies :
              x # g \/ q # p \/ s # r => hand'[x][q][s] = hand[x][q][s]
    BY <1>5, PutFacts
  <1>7. /\ hand[g][p][r].place = "sent" /\ UNCHANGED <<life, batch, sight, world>>
        /\ Schedule(g) \/ UNCHANGED flood
    BY DEF Settle
  <1>8. Handles(g, p, r)
    <2>1. row[r].state # "none" => row'[r].attempts <= row[r].attempts
      BY <1>2, <1>4 DEF TypeOK, Row
    <2> QED BY <1>2, <1>4, <1>5, <1>6, <1>7, <2>1 DEF Handles, sight, world
  <1>9. /\ row[r].state # "none" => row'[r].attempts = row[r].attempts
        /\ row'[r].state = "delivered" => result = "success"
    BY <1>2, <1>4
  <1> QED BY <1>6, <1>7, <1>8, <1>9

\* A settlement that raises empties the hand and leaves the row.
LEMMA SettleRaisesHandles ==
  ASSUME TypeOK, NEW g \in Gateways, NEW p \in Paths, NEW r \in Replies, SettleRaises(g, p, r)
  PROVE  /\ Handles(g, p, r) /\ UNCHANGED <<row, world, flood>>
         /\ hand[g][p][r].place = "sent"
         /\ hand'[g][p][r] = Empty
  <1>1. Empty \in Hand /\ Empty.place = "none" /\ Put(g, p, r, Empty)
    BY Values DEF Empty, SettleRaises
  <1>2. /\ hand' \in [Gateways -> [Paths -> [Replies -> Hand]]]
        /\ hand'[g][p][r] = Empty
        /\ \A x \in Gateways, q \in Paths, s \in Replies :
              x # g \/ q # p \/ s # r => hand'[x][q][s] = hand[x][q][s]
    BY <1>1, PutFacts
  <1>3. hand[g][p][r].place = "sent" /\ UNCHANGED <<row, life, batch, sight, flood, world>>
    BY DEF SettleRaises
  <1>4. row[r].attempts <= row[r].attempts
    BY DEF TypeOK, Row
  <1> QED BY <1>1, <1>2, <1>3, <1>4 DEF Handles, TypeOK, sight, world

\* A release empties the hand and gives back at most one attempt.
LEMMA ReleaseHandles ==
  ASSUME TypeOK, NEW g \in Gateways, NEW p \in Paths, NEW r \in Replies, Release(g, p, r)
  PROVE  /\ Handles(g, p, r) /\ UNCHANGED <<world, flood>>
         /\ hand[g][p][r].place = "due"
         /\ hand'[g][p][r] = Empty
         /\ row[r].state # "none" =>
              \/ row'[r].attempts = row[r].attempts
              \/ row[r].attempts > 0 /\ row'[r].attempts = row[r].attempts - 1
         /\ row'[r].state \in {row[r].state, "failed"}
  <1> DEFINE x == row[r]
             y == GivenBack(r, hand[g][p][r].prior)
             new == IF p # "boot" /\ x.state = "attempting" /\ x.owner = g THEN y ELSE x
  <1>1. x \in Row /\ hand[g][p][r].prior \in Errors
    BY DEF TypeOK, Hand
  <1>2. /\ y \in Row /\ y.state = "failed" /\ y.owner = x.owner
        /\ x.attempts > 0 => y.attempts = x.attempts - 1
        /\ ~(x.attempts > 0) => y.attempts = x.attempts
    BY <1>1 DEF GivenBack, Row, Open, Closed
  <1>3. row' = [row EXCEPT ![r] = new]
    BY DEF Release
  <1>4. /\ new \in Row /\ new.owner = x.owner /\ new.state \in {x.state, "failed"}
        /\ new.state = "none" <=> x.state = "none"
        /\ \/ new.attempts = x.attempts
           \/ x.attempts > 0 /\ new.attempts = x.attempts - 1
    BY <1>1, <1>2 DEF Row
  <1> HIDE DEF new
  <1>5. row' \in [Replies -> Row] /\ row'[r] = new /\ \A s \in Replies \ {r} : row'[s] = row[s]
    BY <1>3, <1>4 DEF TypeOK
  <1>6. Empty \in Hand /\ Empty.place = "none" /\ Put(g, p, r, Empty)
    BY Values DEF Empty, Release
  <1>7. /\ hand' \in [Gateways -> [Paths -> [Replies -> Hand]]]
        /\ hand'[g][p][r] = Empty
        /\ \A w \in Gateways, q \in Paths, s \in Replies :
              w # g \/ q # p \/ s # r => hand'[w][q][s] = hand[w][q][s]
    BY <1>6, PutFacts
  <1>8. hand[g][p][r].place = "due" /\ UNCHANGED <<life, batch, sight, flood, world>>
    BY DEF Release
  <1>9. row'[r].attempts <= row[r].attempts
    BY <1>1, <1>4, <1>5 DEF Row
  <1> QED BY <1>4, <1>5, <1>6, <1>7, <1>8, <1>9 DEF Handles, sight, world

(***************************************************************************)
(* Every step keeps the types                                              *)
(***************************************************************************)
\* The owner of a row is a gateway.
Owned == \A r \in Replies : row[r].state # "none" => row[r].owner \in Gateways

\* A step with a reply in hand keeps the types if it sends at most once.
LEMMA HandlesTypes ==
  ASSUME TypeOK, NEW g \in Gateways, NEW p \in Paths, NEW r \in Replies, Handles(g, p, r),
         Schedule(g) \/ UNCHANGED flood,
         UNCHANGED world \/ \E marker \in BOOLEAN : \E result : Transmit(r, marker, result)
  PROVE  TypeOK'
  <1>1. /\ row' \in [Replies -> Row] /\ Owned'
        /\ hand' \in [Gateways -> [Paths -> [Replies -> Hand]]]
        /\ UNCHANGED <<life, batch, seen, held, owed, late>>
    BY DEF Handles, TypeOK, Owned
  <1>2. /\ plain' \in [Replies -> Nat] /\ marked' \in [Replies -> Nat]
        /\ arrived' \in [Replies -> BOOLEAN]
    <2>1. CASE UNCHANGED world
      BY <2>1 DEF world, TypeOK
    <2>2. CASE \E marker \in BOOLEAN : \E result : Transmit(r, marker, result)
      BY <2>2, TransmitFacts
    <2> QED BY <2>1, <2>2
  <1> QED BY <1>1, <1>2, ScheduleFacts DEF TypeOK, Owned

\* The cases of a step that has a reply in hand.
Handling(g, p, r) ==
  \/ p = "turn" /\ TurnStep(g, r)
  \/ HandStep(g, p, r)

\* Each of the seven does.
LEMMA HandlingTypes ==
  ASSUME TypeOK, NEW g \in Gateways, NEW p \in Paths, NEW r \in Replies, Handling(g, p, r)
  PROVE  TypeOK'
  <1>1. CASE p = "turn" /\ MarkAttempting(g, r)
    BY <1>1, MarkAttemptingHandles, HandlesTypes
  <1>2. CASE p = "turn" /\ MarkAttemptingRaises(g, r)
    BY <1>2, MarkAttemptingRaisesHandles, HandlesTypes
  <1>3. CASE p = "turn" /\ SendLoose(g, r)
    BY <1>3, SendLooseHandles, HandlesTypes
  <1>4. CASE Send(g, p, r)
    BY <1>4, SendHandles, HandlesTypes
  <1>5. CASE Settle(g, p, r)
    BY <1>5, SettleHandles, HandlesTypes
  <1>6. CASE SettleRaises(g, p, r)
    BY <1>6, SettleRaisesHandles, HandlesTypes
  <1>7. CASE Release(g, p, r)
    BY <1>7, ReleaseHandles, HandlesTypes
  <1> QED BY <1>1, <1>2, <1>3, <1>4, <1>5, <1>6, <1>7 DEF Handling, TurnStep, HandStep

\* The steps that do not touch hands, rows' owners and attempts, or the history.
Quietly(g) ==
  \/ Start(g) \/ BootScan(g) \/ (\E r \in Replies : BootSkips(g, r)) \/ TimerClears(g) \/ TimerReads(g) \/ TimerDecides(g)
  \/ TimerIsWoken(g) \/ TimerSwept(g) \/ \E p \in Sweeps : BatchEnds(g, p)

\* The quiet steps keep the types.
LEMMA QuietTypes ==
  ASSUME TypeOK, NEW g \in Gateways, Quietly(g)
  PROVE  TypeOK'
  <1>1. CASE Start(g)
    BY <1>1 DEF Start, TypeOK, sight, flood, world
  <1>2. CASE BootScan(g)
    <2> DEFINE scan == [r \in Replies |->
       IF row[r].state \in Open /\ row[r].owner # g THEN row[r] ELSE NoRow]
    <2>1. scan \in [Replies -> Row] /\ "boot" \in Sweeps
      BY Values DEF TypeOK, Sweeps
    <2>2. seen' = [seen EXCEPT ![g] = scan] /\ batch' = [batch EXCEPT ![g]["boot"] = "scanned"]
      BY <1>2 DEF BootScan
    <2> HIDE DEF scan
    <2>3. seen' \in [Gateways -> [Replies -> Row]]
      BY <2>1, <2>2 DEF TypeOK
    <2>4. batch' \in [Gateways -> [Sweeps -> {"idle", "scanned", "sending", "done"}]]
      BY <2>1, <2>2 DEF TypeOK
    <2>5. held' \in [Gateways -> SUBSET Replies]
      BY <1>2 DEF BootScan, TypeOK
    <2> QED BY <1>2, <2>3, <2>4, <2>5 DEF BootScan, TypeOK, flood, world
  <1>2a. ASSUME NEW r \in Replies, BootSkips(g, r) PROVE TypeOK'
    <2>1. held' \in [Gateways -> SUBSET Replies]
      BY <1>2a DEF BootSkips, TypeOK
    <2>2. seen' \in [Gateways -> [Replies -> Row]]
      BY <1>2a, Values DEF BootSkips, TypeOK
    <2> QED BY <1>2a, <2>1, <2>2 DEF BootSkips, TypeOK, flood, world
  <1>3. CASE TimerClears(g) \/ TimerReads(g) \/ TimerIsWoken(g) \/ TimerSwept(g)
    BY <1>3 DEF TimerClears, TimerReads, TimerIsWoken, TimerSwept, TypeOK, sight, world
  <1>4. CASE TimerDecides(g)
    BY <1>4 DEF TimerDecides, TypeOK, sight, world
  <1>5. ASSUME NEW p \in Sweeps, BatchEnds(g, p) PROVE TypeOK'
    <2>1. batch' \in [Gateways -> [Sweeps -> {"idle", "scanned", "sending", "done"}]]
      BY <1>5 DEF BatchEnds, TypeOK
    <2>2. Schedule(g) \/ UNCHANGED flood
      BY <1>5 DEF BatchEnds
    <2> QED BY <1>5, <2>1, <2>2, ScheduleFacts DEF BatchEnds, TypeOK, sight, world
  <1> QED BY <1>1, <1>2, <1>2a, <1>3, <1>4, <1>5 DEF Quietly

\* No step leaves the types.
LEMMA TypeStep == TypeOK /\ [Next]_vars => TypeOK'
  <1> SUFFICES ASSUME TypeOK, [Next]_vars PROVE TypeOK'
    OBVIOUS
  <1>1. ASSUME NEW g \in Gateways, Crash(g) PROVE TypeOK'
    BY <1>1, Values DEF Crash, TypeOK, world
  <1>2. ASSUME NEW g \in Gateways, BootClaim(g) PROVE TypeOK'
    <2>1. /\ row' \in [Replies -> Row]
          /\ hand' \in [Gateways -> [Paths -> [Replies -> Hand]]]
      BY <1>2, BootClaimFacts
    <2>2. Owned'
      <3> SUFFICES ASSUME NEW r \in Replies, row'[r].state # "none"
                   PROVE  row'[r].owner \in Gateways
        BY DEF Owned
      <3>1. row[r] \in Row
        BY DEF TypeOK
      <3>2. \/ row'[r].owner = g
            \/ row'[r] = [row[r] EXCEPT !.owner = g]
            \/ /\ row'[r] \in {row[r], [row[r] EXCEPT !.state = "abandoned"]}
               /\ row[r].state = "none" => row'[r] = row[r]
        BY <1>2, BootClaimFacts, Zenon
      <3> QED BY <3>1, <3>2 DEF TypeOK, Row
    <2>3. /\ seen' \in [Gateways -> [Replies -> Row]]
          /\ batch' \in [Gateways -> [Sweeps -> {"idle", "scanned", "sending", "done"}]]
          /\ held' \in [Gateways -> SUBSET Replies]
          /\ UNCHANGED <<life, flood, owed, plain, marked, arrived>>
      BY <1>2, Values DEF BootClaim, TypeOK, Sweeps
    <2>4. late' \in [Gateways -> SUBSET Replies]
      BY <1>2, BootClaimFacts
    <2> QED BY <2>1, <2>2, <2>3, <2>4 DEF TypeOK, Owned, flood, world
  <1>3. ASSUME NEW g \in Gateways, NEW p \in Sweeps, RuntimeClaim(g, p),
               UNCHANGED <<life, sight, wake, found, world>>,
               timer' \in [Gateways -> {"none", "head", "reading", "read", "sleeping", "sweeping"}]
        PROVE  TypeOK'
    <2>1. /\ row' \in [Replies -> Row]
          /\ hand' \in [Gateways -> [Paths -> [Replies -> Hand]]]
          /\ batch' \in [Gateways -> [Sweeps -> {"idle", "scanned", "sending", "done"}]]
      BY <1>3, RuntimeClaimFacts
    <2>2. Owned'
      <3> SUFFICES ASSUME NEW r \in Replies, row'[r].state # "none"
                   PROVE  row'[r].owner \in Gateways
        BY DEF Owned
      <3>1. row[r] \in Row
        BY DEF TypeOK
      <3>2. \/ row'[r].owner = g
            \/ row[r].owner = g /\ row'[r] = [row[r] EXCEPT !.state = "abandoned"]
            \/ row'[r] = row[r]
        BY <1>3, RuntimeClaimFacts
      <3> QED BY <3>1, <3>2 DEF TypeOK, Row
    <2> QED BY <1>3, <2>1, <2>2 DEF TypeOK, Owned, sight, world
  <1>4. ASSUME NEW g \in Gateways, Reconnect(g) PROVE TypeOK'
    BY <1>4, <1>3 DEF Reconnect, flood, Sweeps, TypeOK
  <1>5. ASSUME NEW g \in Gateways, TimerFires(g) PROVE TypeOK'
    <2>1. timer' \in [Gateways -> {"none", "head", "reading", "read", "sleeping", "sweeping"}]
      BY <1>5 DEF TimerFires, TypeOK
    <2> QED BY <1>5, <1>3, <2>1 DEF TimerFires, Sweeps
  <1>6. ASSUME NEW g \in Gateways, NEW r \in Replies, Record(g, r) PROVE TypeOK'
    <2>1. /\ row' \in [Replies -> Row]
          /\ hand' \in [Gateways -> [Paths -> [Replies -> Hand]]]
          /\ owed' \in [Replies -> BOOLEAN]
      BY <1>6, RecordFacts
    <2>2. Owned'
      <3>1. \A s \in Replies : row'[s] = NoRow \/ row'[s] = row[s] \/ row'[s].owner = g
        BY <1>6, RecordFacts
      <3>2. NoRow.state = "none"
        BY DEF NoRow
      <3>3. \A s \in Replies : row[s].state # "none" => row[s].owner \in Gateways
        BY DEF TypeOK
      <3> QED BY <3>1, <3>2, <3>3 DEF Owned
    <2>3. UNCHANGED <<life, batch, sight, flood, plain, marked, arrived, late>>
      BY <1>6 DEF Record
    <2> QED BY <2>1, <2>2, <2>3 DEF TypeOK, Owned, sight, flood
  <1>7. ASSUME NEW r \in Replies, WaitPasses(r) PROVE TypeOK'
    <2> DEFINE new == [row[r] EXCEPT !.waiting = FALSE]
    <2>1. new \in Row /\ new.state = row[r].state /\ new.owner = row[r].owner
      <3>1. row[r] \in Row
        BY DEF TypeOK
      <3> QED BY <3>1 DEF Row
    <2>2. row' = [row EXCEPT ![r] = new]
      BY <1>7 DEF WaitPasses
    <2> HIDE DEF new
    <2>3. row' \in [Replies -> Row] /\ Owned'
      <3>1. /\ row' \in [Replies -> Row] /\ row'[r] = new
            /\ \A s \in Replies \ {r} : row'[s] = row[s]
        BY <2>1, <2>2 DEF TypeOK
      <3>2. \A s \in Replies : row[s].state # "none" => row[s].owner \in Gateways
        BY DEF TypeOK
      <3> QED BY <2>1, <3>1, <3>2 DEF Owned
    <2> QED BY <1>7, <2>3 DEF WaitPasses, TypeOK, Owned, sight, flood, world
  <1>8. ASSUME NEW r \in Replies, Age(r) PROVE TypeOK'
    <2> DEFINE new == [row[r] EXCEPT !.stale = TRUE]
    <2>1. new \in Row /\ new.state = row[r].state /\ new.owner = row[r].owner
      <3>1. row[r] \in Row
        BY DEF TypeOK
      <3> QED BY <3>1 DEF Row
    <2>2. row' = [row EXCEPT ![r] = new]
      BY <1>8 DEF Age
    <2> HIDE DEF new
    <2>3. row' \in [Replies -> Row] /\ Owned'
      <3>1. /\ row' \in [Replies -> Row] /\ row'[r] = new
            /\ \A s \in Replies \ {r} : row'[s] = row[s]
        BY <2>1, <2>2 DEF TypeOK
      <3>2. \A s \in Replies : row[s].state # "none" => row[s].owner \in Gateways
        BY DEF TypeOK
      <3> QED BY <2>1, <3>1, <3>2 DEF Owned
    <2> QED BY <1>8, <2>3 DEF Age, TypeOK, Owned, sight, flood, world
  <1>9. CASE UNCHANGED vars
    BY <1>9 DEF vars, sight, flood, world, TypeOK
  <1> QED
    BY <1>1, <1>2, <1>4, <1>5, <1>6, <1>7, <1>8, <1>9, QuietTypes, HandlingTypes
    DEF Next, BootStep, TimerStep, TurnStep, HandStep, Quietly, Handling, Paths

(***************************************************************************)
(* Steps with a reply in hand keep the ownership invariants                *)
(***************************************************************************)
Ownership == Recorded /\ InHand /\ OneHolder /\ SeenWasOpen /\ PlainIsAlone

\* What process g's boot scan has seen of reply r.
SeenWas(g, r) ==
  LET then == seen[g][r]
  IN  then.state # "none" =>
        /\ then.state \in Open /\ then.owner \in Gateways /\ life[then.owner] # "new"
        /\ owed[r]
        /\ r \notin held[g] => life[then.owner] = "dead"
        /\ row[r].state # "none" /\ life[then.owner] = "up" => row[r].owner = then.owner
        /\ row[r].state # "none" /\ row[r].owner = then.owner =>
             /\ then.attempts < MaxAttempts => row[r].attempts <= MaxAttempts
             /\ r \notin held[g] =>
                  /\ row[r].state \in {then.state, "abandoned"}
                  /\ row[r].attempts = then.attempts

\* What the scans have seen, one process and one reply at a time.
LEMMA SeenAll == SeenWasOpen <=> \A g \in Gateways, r \in Replies : SeenWas(g, r)
  BY DEF SeenWasOpen, SeenWas

\* It stays so when the row goes, is left alone or abandoned, is handled by an owner that
\* runs, or moves from a dead owner to a running one.
LEMMA SeenKept ==
  ASSUME TypeOK, TypeOK', NEW g \in Gateways, NEW r \in Replies, SeenWas(g, r),
         \A h \in Gateways : \/ life'[h] = life[h]
                             \/ life[h] = "new" /\ life'[h] = "up"
                             \/ life[h] = "up" /\ life'[h] = "dead",
         owed[r] => owed'[r],
         seen'[g][r] = seen[g][r], r \in held'[g] <=> r \in held[g],
         \/ row'[r].state = "none"
         \/ /\ row[r].state # "none" /\ row'[r].owner = row[r].owner
            /\ \/ /\ row'[r].state \in {row[r].state, "abandoned"}
                  /\ row'[r].attempts = row[r].attempts
               \/ /\ life[row[r].owner] = "up"
                  /\ row'[r].attempts <= row[r].attempts \/ row'[r].attempts <= MaxAttempts
         \/ row[r].state # "none" /\ life[row[r].owner] = "dead" /\ life[row'[r].owner] = "up"
  PROVE  SeenWas(g, r)'
  <1> DEFINE then == seen[g][r]
             o == then.owner
             x == row[r]
             y == row'[r]
  <1> SUFFICES ASSUME then.state # "none"
               PROVE  /\ then.state \in Open /\ o \in Gateways /\ life'[o] # "new"
                      /\ owed'[r]
                      /\ r \notin held[g] => life'[o] = "dead"
                      /\ y.state # "none" /\ life'[o] = "up" => y.owner = o
                      /\ y.state # "none" /\ y.owner = o =>
                           /\ then.attempts < MaxAttempts => y.attempts <= MaxAttempts
                           /\ r \notin held[g] => /\ y.state \in {then.state, "abandoned"}
                                                  /\ y.attempts = then.attempts
    BY DEF SeenWas
  <1>1. /\ then.state \in Open /\ o \in Gateways /\ life[o] # "new" /\ owed[r]
        /\ r \notin held[g] => life[o] = "dead"
        /\ x.state # "none" /\ life[o] = "up" => x.owner = o
        /\ x.state # "none" /\ x.owner = o =>
             /\ then.attempts < MaxAttempts => x.attempts <= MaxAttempts
             /\ r \notin held[g] => x.state \in {then.state, "abandoned"} /\ x.attempts = then.attempts
    BY DEF SeenWas
  <1>2. x.attempts \in Nat /\ y.attempts \in Nat /\ then.attempts \in Nat
    BY DEF TypeOK, Row
  <1>3. /\ life'[o] # "new" /\ owed'[r] /\ r \notin held[g] => life'[o] = "dead"
        /\ life'[o] = "up" => life[o] = "up"
    BY <1>1
  <1>4. \/ y.state = "none"
        \/ /\ x.state # "none" /\ y.owner = x.owner
           /\ \/ y.state \in {x.state, "abandoned"} /\ y.attempts = x.attempts
              \/ /\ life[x.owner] = "up"
                 /\ y.attempts <= x.attempts \/ y.attempts <= MaxAttempts
        \/ x.state # "none" /\ life[x.owner] = "dead" /\ life[y.owner] = "up"
    OBVIOUS
  <1> HIDE DEF then, o, x, y
  <1>5. CASE y.state = "none"
    BY <1>1, <1>3, <1>5
  <1>6. CASE /\ x.state # "none" /\ y.owner = x.owner
             /\ y.state \in {x.state, "abandoned"} /\ y.attempts = x.attempts
    BY <1>1, <1>3, <1>6
  <1>7. CASE /\ x.state # "none" /\ y.owner = x.owner /\ life[x.owner] = "up"
             /\ y.attempts <= x.attempts \/ y.attempts <= MaxAttempts
    <2>1. ASSUME y.owner = o PROVE r \in held[g]
      BY <1>1, <1>7, <2>1
    <2>2. ASSUME y.owner = o, then.attempts < MaxAttempts PROVE y.attempts <= MaxAttempts
      <3>1. x.attempts <= MaxAttempts
        BY <1>1, <1>7, <2>2
      <3> QED BY <1>2, <1>7, <3>1
    <2> QED BY <1>1, <1>3, <1>7, <2>1, <2>2
  <1>8. CASE x.state # "none" /\ life[x.owner] = "dead" /\ life[y.owner] = "up"
    <2>1. y.owner # o
      BY <1>1, <1>8
    <2>2. life[o] # "up"
      BY <1>1, <1>8
    <2> QED BY <1>1, <1>3, <2>1, <2>2
  <1> QED BY <1>4, <1>5, <1>6, <1>7, <1>8

\* The process whose hand changes runs and owns the row, if it is still there; no
\* process gains a reply.
LEMMA HandlesFacts ==
  ASSUME TypeOK, Recorded, InHand, OneHolder,
         NEW g \in Gateways, NEW p \in Paths, NEW r \in Replies, Handles(g, p, r)
  PROVE  /\ owed[r] /\ life[g] = "up"
         /\ row[r].state # "none" => row[r].owner = g
         /\ \A x \in Gateways \ {g} : ~Has(x, r)
         /\ \A x \in Gateways, s \in Replies : Has(x, s)' => Has(x, s)
  <1>1. hand[g][p][r].place # "none" /\ Has(g, r)
    BY DEF Handles, Has
  <1>2. owed[r]
    BY <1>1 DEF Recorded
  <1>3. life[g] = "up" /\ (row[r].state # "none" => row[r].owner = g)
    BY <1>1 DEF InHand
  <1>4. \A x \in Gateways \ {g} : ~Has(x, r)
    BY <1>1 DEF OneHolder
  <1>5. \A x \in Gateways, s \in Replies : Has(x, s)' => Has(x, s)
    <2> SUFFICES ASSUME NEW x \in Gateways, NEW s \in Replies, Has(x, s)' PROVE Has(x, s)
      OBVIOUS
    <2>1. PICK q \in Paths : hand'[x][q][s].place # "none"
      BY DEF Has
    <2>2. CASE x = g /\ q = p /\ s = r
      BY <1>1, <2>2
    <2>3. CASE ~(x = g /\ q = p /\ s = r)
      BY <2>1, <2>3 DEF Handles, Has
    <2> QED BY <2>2, <2>3
  <1> QED BY <1>2, <1>3, <1>4, <1>5

\* A step with a reply in hand keeps the ownership invariants.
LEMMA HandlesOwnership ==
  ASSUME TypeOK, TypeOK', Ownership,
         NEW g \in Gateways, NEW p \in Paths, NEW r \in Replies, Handles(g, p, r),
         \A s \in Replies \ {r} : plain'[s] = plain[s] /\ marked'[s] = marked[s]
  PROVE  Ownership'
  <1> USE DEF Ownership
  <1>1. /\ owed[r] /\ life[g] = "up"
        /\ row[r].state # "none" => row[r].owner = g
        /\ \A x \in Gateways \ {g} : ~Has(x, r)
        /\ \A x \in Gateways, s \in Replies : Has(x, s)' => Has(x, s)
    BY HandlesFacts
  <1>2. UNCHANGED <<life, batch, seen, held, owed, late>>
    BY DEF Handles
  <1>3. \A s \in Replies : /\ row'[s].state = "none" <=> row[s].state = "none"
                           /\ row[s].state # "none" => row'[s].owner = row[s].owner
    BY DEF Handles
  <1>4. Recorded'
    <2>1. \A s \in Replies : row'[s].state # "none" => owed'[s] /\ life'[row'[s].owner] # "new"
      BY <1>2, <1>3 DEF Recorded
    <2>2. \A x \in Gateways, q \in Paths, s \in Replies : hand'[x][q][s].place # "none" => owed'[s]
      <3> SUFFICES ASSUME NEW x \in Gateways, NEW q \in Paths, NEW s \in Replies,
                          hand'[x][q][s].place # "none"
                   PROVE  owed[s]
        BY <1>2
      <3>1. Has(x, s)
        BY <1>1 DEF Has
      <3> QED BY <3>1 DEF Has, Recorded
    <2>3. \A s \in Replies : ~owed'[s] => plain'[s] + marked'[s] = 0
      BY <1>1, <1>2 DEF Recorded
    <2> QED BY <2>1, <2>2, <2>3 DEF Recorded
  <1>5. InHand'
    <2> SUFFICES ASSUME NEW x \in Gateways, NEW s \in Replies, Has(x, s)'
                 PROVE  life'[x] = "up" /\ (row'[s].state # "none" => row'[s].owner = x)
      BY DEF InHand
    <2>1. life[x] = "up" /\ (row[s].state # "none" => row[s].owner = x)
      BY <1>1 DEF InHand
    <2> QED BY <1>2, <1>3, <2>1
  <1>6. OneHolder'
    BY <1>1 DEF OneHolder
  <1>7. SeenWasOpen'
    <2>1. ASSUME NEW x \in Gateways, NEW s \in Replies PROVE SeenWas(x, s)'
      <3>1. SeenWas(x, s)
        BY SeenAll
      <3>2. \/ row'[s].state = "none"
            \/ /\ row[s].state # "none" /\ row'[s].owner = row[s].owner
               /\ \/ /\ row'[s].state \in {row[s].state, "abandoned"}
                     /\ row'[s].attempts = row[s].attempts
                  \/ /\ life[row[s].owner] = "up"
                     /\ row'[s].attempts <= row[s].attempts
        BY <1>1, <1>3 DEF Handles
      <3> QED BY <1>2, <3>1, <3>2, SeenKept
    <2> QED BY <2>1 DEF SeenWasOpen, SeenWas
  <1>8. PlainIsAlone'
    <2> SUFFICES ASSUME NEW x \in Gateways, NEW q \in Sweeps, NEW s \in Replies,
                        hand'[x][q][s].place = "due", ~hand'[x][q][s].marker
                 PROVE  /\ q = "boot"
                        /\ s \notin late'[x] =>
                             /\ \A o \in Paths \ {q} : hand'[x][o][s].place = "none"
                             /\ row'[s].state \in {"pending", "none", "abandoned"}
      BY DEF PlainIsAlone
    <2>1. q \in Paths /\ q # "turn"
      BY DEF Paths, Sweeps
    <2>2. ~(x = g /\ q = p /\ s = r)
      BY <2>1 DEF Handles
    <2>3. hand[x][q][s].place = "due" /\ ~hand[x][q][s].marker
      BY <2>1, <2>2 DEF Handles
    <2>4. /\ q = "boot"
          /\ s \notin late[x] =>
               /\ \A o \in Paths \ {q} : hand[x][o][s].place = "none"
               /\ row[s].state \in {"pending", "none", "abandoned"}
      BY <2>3 DEF PlainIsAlone
    <2>5. s \notin late[x] => s # r
      <3>1. SUFFICES ASSUME s \notin late[x], s = r PROVE FALSE
        OBVIOUS
      <3>2. Has(x, r)
        BY <2>1, <2>3, <3>1 DEF Has
      <3>3. x = g
        BY <1>1, <3>2
      <3>4. p \in Paths \ {q}
        BY <2>2, <3>1, <3>3
      <3> QED BY <2>4, <3>1, <3>3, <3>4 DEF Handles
    <2>6. s # r => row'[s] = row[s] /\ \A o \in Paths : hand'[x][o][s] = hand[x][o][s]
      BY DEF Handles
    <2> QED BY <1>2, <2>4, <2>5, <2>6
  <1> QED BY <1>4, <1>5, <1>6, <1>7, <1>8

(***************************************************************************)
(* Steps with a reply in hand keep the attempts covered                    *)
(***************************************************************************)
Waiting == {"recorded", "due", "loose"}

\* The hands waiting for a reply: the one that changes stays, joins or leaves.
LEMMA HandlesInTurn ==
  ASSUME NEW g \in Gateways, NEW p \in Paths, NEW r \in Replies, Handles(g, p, r),
         hand[g][p][r].place \in Waiting \/ hand'[g][p][r].place \notin Waiting
  PROVE  /\ InTurn(r)' = IF hand'[g][p][r].place \in Waiting THEN InTurn(r)
                         ELSE InTurn(r) \ {<<g, p>>}
         /\ hand[g][p][r].place \in Waiting => <<g, p>> \in InTurn(r)
         /\ hand[g][p][r].place \notin Waiting => <<g, p>> \notin InTurn(r)
         /\ \A s \in Replies \ {r} : InTurn(s)' = InTurn(s)
  <1>1. \A x \in Gateways, q \in Paths, s \in Replies :
          x # g \/ q # p \/ s # r => hand'[x][q][s] = hand[x][q][s]
    BY DEF Handles
  <1>2. ASSUME NEW s \in Replies \ {r} PROVE InTurn(s)' = InTurn(s)
    <2>1. \A x \in Gateways \X Paths : hand'[x[1]][x[2]][s] = hand[x[1]][x[2]][s]
      BY <1>1
    <2> QED BY <2>1 DEF InTurn
  <1>3. \A x \in Gateways \X Paths : x # <<g, p>> => hand'[x[1]][x[2]][r] = hand[x[1]][x[2]][r]
    BY <1>1
  <1>4. <<g, p>> \in Gateways \X Paths /\ <<g, p>>[1] = g /\ <<g, p>>[2] = p
    OBVIOUS
  <1>5. /\ hand[g][p][r].place \in Waiting <=> <<g, p>> \in InTurn(r)
        /\ hand'[g][p][r].place \in Waiting <=> <<g, p>> \in InTurn(r)'
    BY <1>4 DEF InTurn, Waiting
  <1>6. \A x \in Gateways \X Paths : x # <<g, p>> => (x \in InTurn(r)' <=> x \in InTurn(r))
    BY <1>3 DEF InTurn
  <1>7. InTurn(r) \subseteq Gateways \X Paths /\ InTurn(r)' \subseteq Gateways \X Paths
    BY DEF InTurn
  <1>8. CASE hand'[g][p][r].place \in Waiting
    <2>1. InTurn(r)' = InTurn(r)
      BY <1>5, <1>6, <1>7, <1>8
    <2> QED BY <1>2, <1>5, <1>8, <2>1
  <1>9. CASE hand'[g][p][r].place \notin Waiting
    <2>1. InTurn(r)' = InTurn(r) \ {<<g, p>>}
      BY <1>5, <1>6, <1>7, <1>9
    <2> QED BY <1>2, <1>5, <1>9, <2>1
  <1> QED BY <1>8, <1>9

\* The sum of a reply whose hand is left waiting, is sent, or is let go.
LEMMA HandlesCovered ==
  ASSUME TypeOK, TypeOK', Covered,
         NEW g \in Gateways, NEW p \in Paths, NEW r \in Replies, Handles(g, p, r),
         \A s \in Replies \ {r} : plain'[s] = plain[s] /\ marked'[s] = marked[s],
         \/ /\ hand[g][p][r].place \in Waiting \/ hand'[g][p][r].place \notin Waiting
            /\ plain'[r] + marked'[r] = plain[r] + marked[r]
            /\ row[r].state # "none" => row'[r].attempts = row[r].attempts
         \/ /\ hand[g][p][r].place \in Waiting /\ hand'[g][p][r].place \notin Waiting
            /\ plain'[r] + marked'[r] = plain[r] + marked[r] + 1
            /\ row[r].state # "none" => row'[r].attempts = row[r].attempts
         \/ /\ hand[g][p][r].place \in Waiting /\ hand'[g][p][r].place \notin Waiting
            /\ plain'[r] + marked'[r] = plain[r] + marked[r]
            /\ row[r].state # "none" => row'[r].attempts = row[r].attempts - 1
  PROVE  Covered'
  <1>1. /\ InTurn(r)' = IF hand'[g][p][r].place \in Waiting THEN InTurn(r)
                        ELSE InTurn(r) \ {<<g, p>>}
        /\ hand[g][p][r].place \in Waiting => <<g, p>> \in InTurn(r)
        /\ hand[g][p][r].place \notin Waiting => <<g, p>> \notin InTurn(r)
        /\ \A s \in Replies \ {r} : InTurn(s)' = InTurn(s)
    BY HandlesInTurn
  <1>2. \A s \in Replies :
          /\ row[s].state # "none" => row[s].attempts <= Cap(s)
          /\ IsFiniteSet(InTurn(s))
          /\ plain[s] + marked[s] + Cardinality(InTurn(s)) <= Budget(s) + 1
    BY DEF Covered
  <1>0. \A s \in Replies : Cap(s)' = Cap(s) /\ Cap(s) \in Nat
    <2>1. late' = late
      BY DEF Handles
    <2> QED BY <2>1 DEF Cap, LateClaims
  <1>3. \A s \in Replies : /\ row[s].attempts \in Nat /\ row'[s].attempts \in Nat
                           /\ plain[s] + marked[s] \in Nat /\ plain'[s] + marked'[s] \in Nat
    BY DEF TypeOK, Row
  <1>4. ASSUME NEW s \in Replies \ {r}
        PROVE  /\ row'[s].state # "none" => row'[s].attempts <= Cap(s)'
               /\ IsFiniteSet(InTurn(s)')
               /\ plain'[s] + marked'[s] + Cardinality(InTurn(s)') <= Budget(s)' + 1
    <2>1. row'[s] = row[s] /\ plain'[s] = plain[s] /\ marked'[s] = marked[s] /\ InTurn(s)' = InTurn(s)
      BY <1>1 DEF Handles
    <2>2. Budget(s)' = Budget(s)
      BY <1>0, <2>1 DEF Budget
    <2> QED BY <1>0, <1>2, <2>1, <2>2
  <1>5. /\ IsFiniteSet(InTurn(r)')
        /\ Cardinality(InTurn(r)) \in Nat /\ Cardinality(InTurn(r)') \in Nat
        /\ Cardinality(InTurn(r)') <= Cardinality(InTurn(r))
        /\ hand[g][p][r].place \in Waiting /\ hand'[g][p][r].place \notin Waiting =>
             Cardinality(InTurn(r)') = Cardinality(InTurn(r)) - 1
    <2>1. IsFiniteSet(InTurn(r)) /\ Cardinality(InTurn(r)) \in Nat
      BY <1>2, FS_CardinalityType
    <2>2. CASE hand'[g][p][r].place \in Waiting
      BY <1>1, <2>1, <2>2
    <2>3. CASE hand'[g][p][r].place \notin Waiting
      <3>1. InTurn(r)' = InTurn(r) \ {<<g, p>>}
        BY <1>1, <2>3
      <3>2. /\ IsFiniteSet(InTurn(r)')
            /\ Cardinality(InTurn(r)') = IF <<g, p>> \in InTurn(r)
                 THEN Cardinality(InTurn(r)) - 1 ELSE Cardinality(InTurn(r))
        <4>1. \A S : IsFiniteSet(S) =>
                /\ IsFiniteSet(S \ {<<g, p>>})
                /\ Cardinality(S \ {<<g, p>>}) =
                     IF <<g, p>> \in S THEN Cardinality(S) - 1 ELSE Cardinality(S)
          BY FS_RemoveElement, Zenon
        <4> QED BY <2>1, <3>1, <4>1, Zenon
      <3>3. Cardinality(InTurn(r)') \in Nat
        BY <3>2, FS_CardinalityType
      <3> QED BY <1>1, <2>1, <3>2, <3>3
    <2> QED BY <2>2, <2>3
  <1>6. row'[r].state = "none" <=> row[r].state = "none"
    BY DEF Handles
  <1>7. row'[r].state # "none" => row'[r].attempts <= Cap(r)'
    BY <1>0, <1>2, <1>3, <1>6
  <1>8. plain'[r] + marked'[r] + Cardinality(InTurn(r)') <= Budget(r)' + 1
    <2> DEFINE n == plain[r] + marked[r]
               m == plain'[r] + marked'[r]
               c == Cardinality(InTurn(r))
               d == Cardinality(InTurn(r)')
    <2>0. Cap(r)' = Cap(r) /\ Cap(r) \in Nat
      BY <1>0
    <2>1. n \in Nat /\ m \in Nat /\ c \in Nat /\ d \in Nat /\ n + c <= Budget(r) + 1
      BY <1>2, <1>3, <1>5
    <2>2. \/ m + d <= n + c /\ (row[r].state # "none" => row'[r].attempts = row[r].attempts)
          \/ m + d = n + c - 1 /\ (row[r].state # "none" => row'[r].attempts = row[r].attempts - 1)
      <3>1. m \in Nat /\ n \in Nat /\ c \in Nat /\ d \in Nat /\ d <= c
        BY <2>1, <1>5
      <3> HIDE DEF n, m, c, d
      <3>2. \/ /\ m = n
               /\ row[r].state # "none" => row'[r].attempts = row[r].attempts
            \/ /\ m = n + 1 /\ d = c - 1
               /\ row[r].state # "none" => row'[r].attempts = row[r].attempts
            \/ /\ m = n /\ d = c - 1
               /\ row[r].state # "none" => row'[r].attempts = row[r].attempts - 1
        BY <1>5 DEF n, m, c, d
      <3> QED BY <3>1, <3>2
    <2>3. /\ Budget(r) = IF row[r].state = "none" THEN Cap(r) ELSE row[r].attempts
          /\ Budget(r)' = IF row'[r].state = "none" THEN Cap(r) ELSE row'[r].attempts
      BY <2>0 DEF Budget
    <2> HIDE DEF n, m, c, d
    <2>4. m + d <= Budget(r)' + 1
      <3>1. CASE row[r].state = "none"
        BY <2>0, <2>1, <2>2, <2>3, <1>6, <3>1
      <3>2. CASE row[r].state # "none"
        BY <2>1, <2>2, <2>3, <1>3, <1>6, <3>2
      <3> QED BY <3>1, <3>2
    <2> QED BY <2>4 DEF m, d
  <1> QED BY <1>4, <1>5, <1>7, <1>8 DEF Covered

Arrival == DeliveredArrived /\ SuccessArrived

\* It keeps the truth of delivered rows if its own row is marked delivered truthfully.
LEMMA HandlesArrival ==
  ASSUME TypeOK, Arrival,
         NEW g \in Gateways, NEW p \in Paths, NEW r \in Replies, Handles(g, p, r),
         \A s \in Replies : arrived[s] => arrived'[s],
         row'[r].state = "delivered" => row[r].state = "delivered" \/ arrived'[r],
         hand'[g][p][r].place = "sent" /\ hand'[g][p][r].result = "success" => arrived'[r]
  PROVE  Arrival'
  <1>1. DeliveredArrived'
    BY DEF Arrival, DeliveredArrived, Handles
  <1>2. SuccessArrived'
    <2> SUFFICES ASSUME NEW x \in Gateways, NEW q \in Paths, NEW s \in Replies,
                        hand'[x][q][s].place = "sent", hand'[x][q][s].result = "success"
                 PROVE  arrived'[s]
      BY DEF SuccessArrived
    <2>1. CASE x = g /\ q = p /\ s = r
      BY <2>1
    <2>2. CASE ~(x = g /\ q = p /\ s = r)
      <3>1. hand'[x][q][s] = hand[x][q][s]
        BY <2>2 DEF Handles
      <3> QED BY <3>1 DEF Arrival, SuccessArrived
    <2> QED BY <2>1, <2>2
  <1> QED BY <1>1, <1>2 DEF Arrival

\* It is a step of a running process, so only that one's worker can start.
LEMMA HandlesRunning ==
  ASSUME TypeOK, Ownership, Running,
         NEW g \in Gateways, NEW p \in Paths, NEW r \in Replies, Handles(g, p, r),
         Schedule(g) \/ UNCHANGED flood
  PROVE  Running'
  <1>1. life[g] = "up"
    BY HandlesFacts DEF Ownership
  <1>2. UNCHANGED <<life, batch>>
    BY DEF Handles
  <1>3. \A x \in Gateways \ {g} : timer'[x] = timer[x]
    BY ScheduleFacts
  <1> QED BY <1>1, <1>2, <1>3 DEF Running

\* The invariant by its concerns.
LEMMA InvParts == Inv <=> TypeOK /\ Running /\ Ownership /\ Arrival /\ Covered
  BY DEF Inv, Ownership, Arrival

\* The seven steps with a reply in hand keep the invariant.
LEMMA HandlingStep ==
  ASSUME Inv, NEW g \in Gateways, NEW p \in Paths, NEW r \in Replies, Handling(g, p, r)
  PROVE  Inv'
  <1>1. TypeOK /\ TypeOK' /\ Running /\ Ownership /\ Arrival /\ Covered
    BY InvParts, HandlingTypes
  <1>2. "recorded" \in Waiting /\ "due" \in Waiting /\ "loose" \in Waiting
        /\ "sent" \notin Waiting /\ Empty.place \notin Waiting /\ Empty.place = "none"
    BY DEF Waiting, Empty
  <1> DEFINE Past == /\ \A s \in Replies : plain'[s] = plain[s] /\ marked'[s] = marked[s]
                     /\ \A s \in Replies : arrived[s] => arrived'[s]
             Sent == /\ \A s \in Replies \ {r} : plain'[s] = plain[s] /\ marked'[s] = marked[s]
                     /\ plain'[r] + marked'[r] = plain[r] + marked[r] + 1
  <1>3. ASSUME UNCHANGED world PROVE Past
    BY <1>3 DEF world
  <1>4. ASSUME \E marker \in BOOLEAN : \E result : Transmit(r, marker, result) PROVE Sent
    BY <1>1, <1>4, TransmitFacts
  <1>5. ASSUME Handles(g, p, r), Schedule(g) \/ UNCHANGED flood, Past \/ Sent, Covered', Arrival'
        PROVE  Inv'
    <2>1. \A s \in Replies \ {r} : plain'[s] = plain[s] /\ marked'[s] = marked[s]
      BY <1>5
    <2>2. Ownership'
      BY <1>1, <1>5, <2>1, HandlesOwnership
    <2>3. Running'
      BY <1>1, <1>5, HandlesRunning
    <2> QED BY <1>1, <1>5, <2>2, <2>3 DEF Inv, Ownership, Arrival
  <1> HIDE DEF Past, Sent
  <1>6. CASE p = "turn" /\ MarkAttempting(g, r)
    <2>1. /\ Handles(g, p, r) /\ UNCHANGED flood /\ Past
          /\ hand[g][p][r].place \in Waiting /\ hand'[g][p][r].place \in Waiting
          /\ hand'[g][p][r].place # "sent"
          /\ row[r].state # "none" => row'[r].attempts = row[r].attempts
          /\ row'[r].state # "delivered"
      BY <1>1, <1>2, <1>3, <1>6, MarkAttemptingHandles
    <2>2. Covered'
      BY <1>1, <2>1, HandlesCovered DEF Past
    <2>3. Arrival'
      BY <1>1, <2>1, HandlesArrival DEF Past
    <2> QED BY <1>5, <2>1, <2>2, <2>3
  <1>7. CASE p = "turn" /\ MarkAttemptingRaises(g, r)
    <2>1. /\ Handles(g, p, r) /\ UNCHANGED <<row, flood>> /\ Past
          /\ hand[g][p][r].place \in Waiting /\ hand'[g][p][r].place \in Waiting
          /\ hand'[g][p][r].place # "sent"
      BY <1>1, <1>2, <1>3, <1>7, MarkAttemptingRaisesHandles
    <2>2. Covered'
      BY <1>1, <2>1, HandlesCovered DEF Past
    <2>3. Arrival'
      BY <1>1, <2>1, HandlesArrival DEF Past
    <2> QED BY <1>5, <2>1, <2>2, <2>3
  <1>8. CASE p = "turn" /\ SendLoose(g, r)
    <2>1. /\ Handles(g, p, r) /\ UNCHANGED <<row, flood>> /\ Sent
          /\ hand[g][p][r].place \in Waiting /\ hand'[g][p][r].place \notin Waiting
          /\ hand'[g][p][r].place # "sent"
          /\ \A s \in Replies : arrived[s] => arrived'[s]
      BY <1>1, <1>2, <1>4, <1>8, SendLooseHandles
    <2>2. Covered'
      BY <1>1, <2>1, HandlesCovered DEF Sent
    <2>3. Arrival'
      BY <1>1, <2>1, HandlesArrival
    <2> QED BY <1>5, <2>1, <2>2, <2>3
  <1>9. CASE Send(g, p, r)
    <2>1. /\ Handles(g, p, r) /\ UNCHANGED <<row, flood>> /\ Sent
          /\ hand[g][p][r].place \in Waiting /\ hand'[g][p][r].place \notin Waiting
          /\ hand'[g][p][r].result = "success" => arrived'[r]
          /\ \A s \in Replies : arrived[s] => arrived'[s]
      BY <1>1, <1>2, <1>4, <1>9, SendHandles
    <2>2. Covered'
      BY <1>1, <2>1, HandlesCovered DEF Sent
    <2>3. Arrival'
      BY <1>1, <2>1, HandlesArrival
    <2> QED BY <1>5, <2>1, <2>2, <2>3
  <1>10. CASE Settle(g, p, r)
    <2>1. /\ Handles(g, p, r) /\ (Schedule(g) \/ UNCHANGED flood) /\ Past
          /\ hand[g][p][r].place = "sent" /\ hand'[g][p][r].place \notin Waiting
          /\ hand'[g][p][r].place # "sent"
          /\ row[r].state # "none" => row'[r].attempts = row[r].attempts
          /\ row'[r].state = "delivered" => hand[g][p][r].result = "success"
      BY <1>1, <1>2, <1>3, <1>10, SettleHandles
    <2>2. Covered'
      BY <1>1, <2>1, HandlesCovered DEF Past
    <2>3. row'[r].state = "delivered" => arrived'[r]
      BY <1>1, <2>1 DEF Arrival, SuccessArrived, Past
    <2>4. Arrival'
      BY <1>1, <2>1, <2>3, HandlesArrival DEF Past
    <2> QED BY <1>5, <2>1, <2>2, <2>4
  <1>11. CASE SettleRaises(g, p, r)
    <2>1. /\ Handles(g, p, r) /\ UNCHANGED <<row, flood>> /\ Past
          /\ hand'[g][p][r].place \notin Waiting /\ hand'[g][p][r].place # "sent"
      BY <1>1, <1>2, <1>3, <1>11, SettleRaisesHandles
    <2>2. Covered'
      BY <1>1, <2>1, HandlesCovered DEF Past
    <2>3. Arrival'
      BY <1>1, <2>1, HandlesArrival DEF Past
    <2> QED BY <1>5, <2>1, <2>2, <2>3
  <1>12. CASE Release(g, p, r)
    <2>1. /\ Handles(g, p, r) /\ UNCHANGED flood /\ Past
          /\ hand[g][p][r].place \in Waiting /\ hand'[g][p][r].place \notin Waiting
          /\ hand'[g][p][r].place # "sent"
          /\ row[r].state # "none" =>
               \/ row'[r].attempts = row[r].attempts
               \/ row[r].attempts > 0 /\ row'[r].attempts = row[r].attempts - 1
          /\ row'[r].state \in {row[r].state, "failed"}
      BY <1>1, <1>2, <1>3, <1>12, ReleaseHandles
    <2>2. Covered'
      BY <1>1, <2>1, HandlesCovered DEF Past
    <2>3. Arrival'
      BY <1>1, <2>1, HandlesArrival DEF Past
    <2> QED BY <1>5, <2>1, <2>2, <2>3
  <1> QED BY <1>6, <1>7, <1>8, <1>9, <1>10, <1>11, <1>12 DEF Handling, TurnStep, HandStep

(***************************************************************************)
(* Steps that touch no hand and no row's state, owner or attempts          *)
(***************************************************************************)
\* A step that touches no hand and no state, owner or attempts of a row keeps the
\* invariant if SeenWas holds of what it newly sees.
LEMMA StillStep ==
  ASSUME Inv, TypeOK', Running', UNCHANGED <<hand, world>>,
         \A r \in Replies : /\ row'[r].state = row[r].state
                            /\ row'[r].owner = row[r].owner
                            /\ row'[r].attempts = row[r].attempts,
         \A g \in Gateways : life'[g] = life[g] \/ (life[g] = "new" /\ life'[g] = "up"),
         \A g \in Gateways, r \in Replies :
           SeenWas(g, r)' \/ (seen'[g][r] = seen[g][r] /\ (r \in held'[g] <=> r \in held[g]))
  PROVE  Inv'
  <1>1. TypeOK /\ Ownership /\ Arrival /\ Covered
    BY InvParts
  <1>2. UNCHANGED <<owed, plain, marked, arrived, late>>
    BY DEF world
  <1>3. \A r \in Replies : row[r].state # "none" => row[r].owner \in Gateways
    BY <1>1 DEF TypeOK
  <1>4. Recorded'
    BY <1>1, <1>2, <1>3 DEF Ownership, Recorded
  <1>5. InHand' /\ OneHolder'
    BY <1>1 DEF Ownership, InHand, OneHolder, Has
  <1>6. PlainIsAlone'
    BY <1>1, <1>2 DEF Ownership, PlainIsAlone
  <1>7. SeenWasOpen'
    <2>1. ASSUME NEW g \in Gateways, NEW r \in Replies,
                 seen'[g][r] = seen[g][r], r \in held'[g] <=> r \in held[g]
          PROVE  SeenWas(g, r)'
      <3>1. SeenWas(g, r)
        BY <1>1, SeenAll DEF Ownership
      <3>2. \/ row'[r].state = "none"
            \/ /\ row[r].state # "none" /\ row'[r].owner = row[r].owner
               /\ row'[r].state = row[r].state /\ row'[r].attempts = row[r].attempts
        OBVIOUS
      <3> QED BY <1>1, <1>2, <2>1, <3>1, <3>2, SeenKept
    <2> QED BY <2>1 DEF SeenWasOpen, SeenWas
  <1>8. DeliveredArrived' /\ SuccessArrived'
    BY <1>1, <1>2 DEF Arrival, DeliveredArrived, SuccessArrived
  <1>9. Covered'
    <2>1. \A r \in Replies : InTurn(r)' = InTurn(r) /\ Cap(r)' = Cap(r)
      BY <1>2 DEF InTurn, Cap, LateClaims
    <2>2. \A r \in Replies : Budget(r)' = Budget(r)
      BY <2>1 DEF Budget
    <2> QED BY <1>1, <1>2, <2>1, <2>2 DEF Covered
  <1> QED BY <1>4, <1>5, <1>6, <1>7, <1>8, <1>9 DEF Inv

\* Starts, scans, the flood worker and the end of a batch are such steps.
LEMMA QuietStep ==
  ASSUME Inv, NEW g \in Gateways, Quietly(g)
  PROVE  Inv'
  <1>1. TypeOK /\ TypeOK' /\ Running /\ Ownership
    BY InvParts, QuietTypes
  <1>2. CASE Start(g)
    <2>1. /\ UNCHANGED <<row, hand, batch, seen, held, timer, world>>
          /\ life[g] = "new" /\ life' = [life EXCEPT ![g] = "up"]
      BY <1>2 DEF Start, sight, flood
    <2>2. Running'
      BY <1>1, <2>1 DEF Running, TypeOK
    <2> QED BY <1>1, <2>1, <2>2, StillStep DEF TypeOK
  <1>3. CASE BootScan(g)
    <2>1. /\ UNCHANGED <<row, life, hand, timer, world>> /\ life[g] = "up"
          /\ seen' = [seen EXCEPT ![g] = [r \in Replies |->
               IF row[r].state \in Open /\ row[r].owner # g THEN row[r] ELSE NoRow]]
          /\ held' = [held EXCEPT ![g] = {r \in Replies :
               row[r].state \in Open /\ row[r].owner # g /\ OwnerAlive(row[r].owner)}]
          /\ batch' = [batch EXCEPT ![g]["boot"] = "scanned"]
      BY <1>3 DEF BootScan, flood
    <2>2. Running'
      BY <1>1, <2>1 DEF Running, TypeOK
    <2>3. ASSUME NEW r \in Replies PROVE SeenWas(g, r)'
      <3>1. /\ seen'[g][r] = IF row[r].state \in Open /\ row[r].owner # g THEN row[r] ELSE NoRow
            /\ r \in held'[g] <=>
                 row[r].state \in Open /\ row[r].owner # g /\ OwnerAlive(row[r].owner)
        BY <1>1, <2>1 DEF TypeOK
      <3>2. CASE row[r].state \in Open /\ row[r].owner # g
        <4>1. row[r].state # "none" /\ row[r].attempts \in Nat
          BY <1>1, <3>2 DEF Open, TypeOK, Row
        <4>2. row[r].owner \in Gateways /\ life[row[r].owner] # "new" /\ owed[r]
          BY <1>1, <4>1 DEF TypeOK, Ownership, Recorded
        <4>3. r \notin held'[g] => life[row[r].owner] = "dead"
          BY <1>1, <3>1, <3>2, <4>2 DEF OwnerAlive, TypeOK
        <4>4. row[r].attempts < MaxAttempts => row[r].attempts <= MaxAttempts
          BY <4>1
        <4>5. seen'[g][r] = row[r]
          BY <3>1, <3>2
        <4> QED BY <2>1, <3>2, <4>1, <4>2, <4>3, <4>4, <4>5 DEF SeenWas, world
      <3>3. CASE ~(row[r].state \in Open /\ row[r].owner # g)
        BY <3>1, <3>3 DEF SeenWas, NoRow
      <3> QED BY <3>2, <3>3
    <2>4. \A x \in Gateways \ {g} : seen'[x] = seen[x] /\ held'[x] = held[x]
      BY <1>1, <2>1 DEF TypeOK
    <2> QED BY <1>1, <2>1, <2>2, <2>3, <2>4, StillStep
  <1>3a. ASSUME NEW s \in Replies, BootSkips(g, s) PROVE Inv'
    <2>1. /\ UNCHANGED <<row, life, hand, batch, timer, world>>
          /\ seen' = [seen EXCEPT ![g][s] = NoRow] /\ held' = [held EXCEPT ![g] = @ \ {s}]
      BY <1>3a DEF BootSkips, flood
    <2>2. Running'
      BY <1>1, <2>1 DEF Running
    <2>3. SeenWas(g, s)'
      <3>1. seen'[g][s] = NoRow
        BY <1>1, <2>1 DEF TypeOK
      <3> QED BY <3>1 DEF SeenWas, NoRow
    <2>4. \A x \in Gateways, r \in Replies : x # g \/ r # s =>
            seen'[x][r] = seen[x][r] /\ (r \in held'[x] <=> r \in held[x])
      BY <1>1, <2>1 DEF TypeOK
    <2> QED BY <1>1, <2>1, <2>2, <2>3, <2>4, StillStep
  <1>4. ASSUME UNCHANGED <<row, life, hand, sight, world>>, Running'
        PROVE  Inv'
    BY <1>1, <1>4, StillStep DEF sight
  <1>5. CASE TimerClears(g) \/ TimerReads(g) \/ TimerIsWoken(g) \/ TimerSwept(g) \/ TimerDecides(g)
    <2>1. /\ UNCHANGED <<row, life, hand, batch, sight, world>>
          /\ timer[g] # "none" /\ \A x \in Gateways \ {g} : timer'[x] = timer[x]
      BY <1>1, <1>5
      DEF TimerClears, TimerReads, TimerIsWoken, TimerSwept, TimerDecides, TypeOK
    <2>2. Running'
      BY <1>1, <2>1 DEF Running
    <2> QED BY <1>4, <2>1, <2>2
  <1>6. ASSUME NEW p \in Sweeps, BatchEnds(g, p) PROVE Inv'
    <2>1. /\ UNCHANGED <<row, life, hand, sight, world>>
          /\ batch[g][p] = "sending" /\ \A x \in Gateways \ {g} : batch'[x] = batch[x]
          /\ Schedule(g) \/ UNCHANGED flood
      BY <1>1, <1>6 DEF BatchEnds, TypeOK
    <2>2. \A x \in Gateways \ {g} : timer'[x] = timer[x]
      BY <1>1, <2>1, ScheduleFacts
    <2>3. Running'
      BY <1>1, <2>1, <2>2 DEF Running
    <2> QED BY <1>4, <2>1, <2>3
  <1> QED BY <1>2, <1>3, <1>3a, <1>5, <1>6 DEF Quietly

\* So are the passing of a penalty and of the staleness limit.
LEMMA TimeStep ==
  ASSUME Inv, TypeOK', NEW r \in Replies, WaitPasses(r) \/ Age(r)
  PROVE  Inv'
  <1>1. TypeOK /\ Running
    BY InvParts
  <1>2. UNCHANGED <<life, hand, batch, seen, held, flood, world>>
    BY DEF WaitPasses, Age, sight
  <1>3. Running'
    BY <1>1, <1>2 DEF Running, flood
  <1>4. \A s \in Replies : /\ row'[s].state = row[s].state
                           /\ row'[s].owner = row[s].owner
                           /\ row'[s].attempts = row[s].attempts
    <2>1. row[r] \in Row
      BY <1>1 DEF TypeOK
    <2>2. PICK new \in Row : /\ row' = [row EXCEPT ![r] = new]
                             /\ new.state = row[r].state /\ new.owner = row[r].owner
                             /\ new.attempts = row[r].attempts
      <3>1. CASE WaitPasses(r)
        <4> DEFINE new == [row[r] EXCEPT !.waiting = FALSE]
        <4>1. /\ new \in Row /\ new.state = row[r].state /\ new.owner = row[r].owner
              /\ new.attempts = row[r].attempts
          BY <2>1 DEF Row
        <4>2. row' = [row EXCEPT ![r] = new]
          BY <3>1 DEF WaitPasses
        <4> HIDE DEF new
        <4> QED BY <4>1, <4>2
      <3>2. CASE Age(r)
        <4> DEFINE new == [row[r] EXCEPT !.stale = TRUE]
        <4>1. /\ new \in Row /\ new.state = row[r].state /\ new.owner = row[r].owner
              /\ new.attempts = row[r].attempts
          BY <2>1 DEF Row
        <4>2. row' = [row EXCEPT ![r] = new]
          BY <3>2 DEF Age
        <4> HIDE DEF new
        <4> QED BY <4>1, <4>2
      <3> QED BY <3>1, <3>2
    <2>3. row'[r] = new /\ \A s \in Replies \ {r} : row'[s] = row[s]
      BY <1>1, <2>2 DEF TypeOK
    <2> QED BY <2>2, <2>3
  <1> QED BY <1>2, <1>3, <1>4, StillStep

(***************************************************************************)
(* Crashes, recordings and claims                                          *)
(***************************************************************************)
CoveredFor(r) ==
  /\ row[r].state # "none" => row[r].attempts <= Cap(r)
  /\ IsFiniteSet(InTurn(r))
  /\ plain[r] + marked[r] + Cardinality(InTurn(r)) <= Budget(r) + 1

\* The cap is a number, and grows when a late claim is recorded.
LEMMA CapFacts ==
  ASSUME NEW r \in Replies, \A g \in Gateways : late[g] \subseteq late'[g]
  PROVE  /\ Cap(r) \in Nat /\ Cap(r)' \in Nat /\ Cap(r) <= Cap(r)'
         /\ MaxAttempts <= Cap(r) /\ Cap(r) <= MaxAttempts + 1
         /\ \A g \in Gateways : r \in late'[g] => Cap(r)' = MaxAttempts + 1
  <1>1. LateClaims(r) \in {0, 1} /\ LateClaims(r)' \in {0, 1}
    BY DEF LateClaims
  <1>2. LateClaims(r) = 1 => LateClaims(r)' = 1
    BY DEF LateClaims
  <1>3. \A g \in Gateways : r \in late'[g] => LateClaims(r)' = 1
    BY DEF LateClaims
  <1> QED BY <1>1, <1>2, <1>3 DEF Cap

\* What the bound on sends is.
LEMMA CapSum ==
  ASSUME NEW r \in Replies
  PROVE  Cap(r) \in Nat /\ MaxAttempts + 1 + LateClaims(r) = Cap(r) + 1
  <1>1. LateClaims(r) \in {0, 1}
    BY DEF LateClaims
  <1> QED BY <1>1 DEF Cap

\* A reply stays covered when hands are let go and its row is kept or pruned.
LEMMA CoverKept ==
  ASSUME TypeOK, TypeOK', NEW r \in Replies, CoveredFor(r),
         plain'[r] = plain[r], marked'[r] = marked[r], InTurn(r)' \subseteq InTurn(r),
         \A g \in Gateways : late[g] \subseteq late'[g],
         \/ row'[r].state = "none"
         \/ row[r].state # "none" /\ row'[r].attempts = row[r].attempts
  PROVE  CoveredFor(r)'
  <1>1. /\ row[r].attempts \in Nat /\ row'[r].attempts \in Nat
        /\ plain[r] \in Nat /\ marked[r] \in Nat
    BY DEF TypeOK, Row
  <1>2. IsFiniteSet(InTurn(r)) /\ Cardinality(InTurn(r)) \in Nat
    BY FS_CardinalityType DEF CoveredFor
  <1>3. IsFiniteSet(InTurn(r)') /\ Cardinality(InTurn(r)') \in Nat
        /\ Cardinality(InTurn(r)') <= Cardinality(InTurn(r))
    <2>1. \A S, T : IsFiniteSet(S) /\ T \subseteq S =>
            IsFiniteSet(T) /\ Cardinality(T) <= Cardinality(S)
      BY FS_Subset, Zenon
    <2>2. IsFiniteSet(InTurn(r)') /\ Cardinality(InTurn(r)') <= Cardinality(InTurn(r))
      BY <1>2, <2>1, Zenon
    <2> QED BY <2>2, FS_CardinalityType
  <1>4. Budget(r) \in Nat /\ Budget(r)' \in Nat /\ Budget(r) <= Budget(r)'
    BY <1>1, CapFacts DEF Budget, CoveredFor
  <1>5. plain'[r] + marked'[r] + Cardinality(InTurn(r)') <= Budget(r)' + 1
    <2>1. plain[r] + marked[r] + Cardinality(InTurn(r)) <= Budget(r) + 1
      BY DEF CoveredFor
    <2> QED BY <1>1, <1>2, <1>3, <1>4, <2>1
  <1>6. row'[r].state # "none" => row'[r].attempts <= Cap(r)'
    BY <1>1, CapFacts DEF CoveredFor
  <1> QED BY <1>3, <1>5, <1>6 DEF CoveredFor

\* A claim takes one more hand and spends one attempt.
LEMMA CoverSpent ==
  ASSUME TypeOK, TypeOK', NEW r \in Replies, CoveredFor(r),
         plain'[r] = plain[r], marked'[r] = marked[r],
         NEW e, InTurn(r)' \subseteq InTurn(r) \cup {e},
         row[r].state # "none", row'[r].state # "none",
         \A g \in Gateways : late[g] \subseteq late'[g],
         row[r].attempts < Cap(r)', row'[r].attempts = row[r].attempts + 1
  PROVE  CoveredFor(r)'
  <1>1. /\ row[r].attempts \in Nat /\ plain[r] \in Nat /\ marked[r] \in Nat
    BY DEF TypeOK, Row
  <1>2. IsFiniteSet(InTurn(r)) /\ Cardinality(InTurn(r)) \in Nat
    BY FS_CardinalityType DEF CoveredFor
  <1>3. /\ IsFiniteSet(InTurn(r) \cup {e}) /\ Cardinality(InTurn(r) \cup {e}) \in Nat
        /\ Cardinality(InTurn(r) \cup {e}) <= Cardinality(InTurn(r)) + 1
    <2>1. \A S : IsFiniteSet(S) =>
            /\ IsFiniteSet(S \cup {e})
            /\ Cardinality(S \cup {e}) = IF e \in S THEN Cardinality(S) ELSE Cardinality(S) + 1
      BY FS_AddElement, Zenon
    <2>2. /\ IsFiniteSet(InTurn(r) \cup {e})
          /\ Cardinality(InTurn(r) \cup {e}) =
               IF e \in InTurn(r) THEN Cardinality(InTurn(r)) ELSE Cardinality(InTurn(r)) + 1
      BY <1>2, <2>1, Zenon
    <2> QED BY <1>2, <2>2
  <1>4. IsFiniteSet(InTurn(r)') /\ Cardinality(InTurn(r)') \in Nat
        /\ Cardinality(InTurn(r)') <= Cardinality(InTurn(r)) + 1
    <2>1. \A S, T : IsFiniteSet(S) /\ T \subseteq S =>
            IsFiniteSet(T) /\ Cardinality(T) <= Cardinality(S)
      BY FS_Subset, Zenon
    <2>2. /\ IsFiniteSet(InTurn(r)')
          /\ Cardinality(InTurn(r)') <= Cardinality(InTurn(r) \cup {e})
      BY <1>3, <2>1, Zenon
    <2>3. Cardinality(InTurn(r)') \in Nat
      BY <2>2, FS_CardinalityType
    <2> QED BY <1>2, <1>3, <2>2, <2>3
  <1>5. plain'[r] + marked'[r] + Cardinality(InTurn(r)') <= Budget(r)' + 1
    <2>1. plain[r] + marked[r] + Cardinality(InTurn(r)) <= row[r].attempts + 1
      BY DEF CoveredFor, Budget
    <2>2. Budget(r)' = row[r].attempts + 1
      BY DEF Budget
    <2> QED BY <1>1, <1>2, <1>4, <2>1, <2>2
  <1>6. row'[r].attempts <= Cap(r)'
    BY <1>1, CapFacts
  <1> QED BY <1>4, <1>5, <1>6 DEF CoveredFor

\* The cover, reply by reply.
LEMMA CoveredAll == Covered <=> \A r \in Replies : CoveredFor(r)
  BY DEF Covered, CoveredFor

\* A crash lets go of everything its process had in hand and leaves the table.
LEMMA CrashStep ==
  ASSUME Inv, TypeOK', NEW g \in Gateways, Crash(g)
  PROVE  Inv'
  <1>1. TypeOK /\ Running /\ Ownership /\ Arrival /\ Covered
    BY InvParts
  <1>2. /\ life[g] = "up" /\ life'[g] = "dead"
        /\ \A x \in Gateways \ {g} : /\ life'[x] = life[x] /\ hand'[x] = hand[x]
                                     /\ batch'[x] = batch[x] /\ seen'[x] = seen[x]
                                     /\ held'[x] = held[x] /\ timer'[x] = timer[x]
        /\ hand'[g] = NoHands /\ batch'[g] = NoBatch /\ seen'[g] = NothingSeen
        /\ timer'[g] = "none" /\ UNCHANGED <<row, owed, plain, marked, arrived, late>>
    BY <1>1 DEF Crash, TypeOK, world
  <1>3. /\ \A p \in Paths, r \in Replies : hand'[g][p][r].place = "none"
        /\ \A p \in Sweeps : batch'[g][p] = "idle"
        /\ \A r \in Replies : seen'[g][r].state = "none"
    BY <1>2 DEF NoHands, NoBatch, NothingSeen, Empty, NoRow
  <1>4. Recorded'
    <2>1. \A r \in Replies : row[r].state # "none" =>
            owed[r] /\ row[r].owner \in Gateways /\ life[row[r].owner] # "new"
      BY <1>1 DEF Ownership, Recorded, TypeOK
    <2>2. \A r \in Replies : row'[r].state # "none" => owed'[r] /\ life'[row'[r].owner] # "new"
      BY <1>2, <2>1
    <2>3. \A x \in Gateways, p \in Paths, r \in Replies : hand'[x][p][r].place # "none" => owed'[r]
      BY <1>1, <1>2, <1>3 DEF Ownership, Recorded
    <2>4. \A r \in Replies : ~owed'[r] => plain'[r] + marked'[r] = 0
      BY <1>1, <1>2 DEF Ownership, Recorded
    <2> QED BY <2>2, <2>3, <2>4 DEF Recorded
  <1>5. Running'
    BY <1>1, <1>2, <1>3 DEF Running
  <1>6. \A x \in Gateways, r \in Replies : Has(x, r)' => x # g /\ Has(x, r)
    BY <1>2, <1>3 DEF Has
  <1>7. InHand' /\ OneHolder'
    BY <1>1, <1>2, <1>6 DEF Ownership, InHand, OneHolder
  <1>8. SeenWasOpen'
    <2>1. ASSUME NEW x \in Gateways, NEW r \in Replies PROVE SeenWas(x, r)'
      <3>1. CASE x = g
        BY <1>3, <3>1 DEF SeenWas
      <3>2. CASE x # g
        <4>1. SeenWas(x, r)
          BY <1>1, SeenAll DEF Ownership
        <4>2. \/ row'[r].state = "none"
              \/ /\ row[r].state # "none" /\ row'[r].owner = row[r].owner
                 /\ row'[r].state = row[r].state /\ row'[r].attempts = row[r].attempts
          BY <1>2
        <4>3. \A h \in Gateways : life'[h] = life[h] \/ (life[h] = "up" /\ life'[h] = "dead")
          BY <1>2
        <4>4. seen'[x][r] = seen[x][r] /\ (r \in held'[x] <=> r \in held[x]) /\ owed' = owed
          BY <1>2, <3>2
        <4> QED BY <1>1, <4>1, <4>2, <4>3, <4>4, SeenKept
      <3> QED BY <3>1, <3>2
    <2> QED BY <2>1 DEF SeenWasOpen, SeenWas
  <1>9. PlainIsAlone'
    BY <1>1, <1>2, <1>3 DEF Ownership, PlainIsAlone, Paths, Sweeps
  <1>10. DeliveredArrived' /\ SuccessArrived'
    BY <1>1, <1>2, <1>3 DEF Arrival, DeliveredArrived, SuccessArrived
  <1>11. \A r \in Replies : InTurn(r)' \subseteq InTurn(r)
    <2> SUFFICES ASSUME NEW r \in Replies, NEW x \in InTurn(r)' PROVE x \in InTurn(r)
      OBVIOUS
    <2>1. /\ x \in Gateways \X Paths /\ x[1] \in Gateways /\ x[2] \in Paths
          /\ hand'[x[1]][x[2]][r].place \in {"recorded", "due", "loose"}
      BY DEF InTurn
    <2>2. x[1] # g
      BY <1>3, <2>1
    <2>3. hand'[x[1]] = hand[x[1]]
      BY <1>2, <2>1, <2>2
    <2> QED BY <2>1, <2>3 DEF InTurn
  <1>12. Covered'
    <2>1. \A r \in Replies : CoveredFor(r)
      BY <1>1, CoveredAll
    <2>2. ASSUME NEW r \in Replies PROVE CoveredFor(r)'
      BY <1>1, <1>2, <1>11, <2>1, CoverKept
    <2> QED BY <2>2 DEF Covered, CoveredFor
  <1> QED BY <1>4, <1>5, <1>7, <1>8, <1>9, <1>10, <1>12 DEF Inv

\* A recording adds a reply nobody has in hand, and prunes.
LEMMA RecordStep ==
  ASSUME Inv, TypeOK', NEW g \in Gateways, NEW r \in Replies, Record(g, r)
  PROVE  Inv'
  <1>1. TypeOK /\ Running /\ Ownership /\ Arrival /\ Covered
    BY InvParts
  <1>2. /\ hand'[g]["turn"][r].place = "recorded"
        /\ \A x \in Gateways, q \in Paths, s \in Replies :
             x # g \/ q # "turn" \/ s # r => hand'[x][q][s] = hand[x][q][s]
        /\ owed'[r] /\ \A s \in Replies \ {r} : owed'[s] = owed[s]
    BY <1>1, RecordFacts
  <1>3. /\ \/ row'[r].state = "none"
           \/ row'[r].state = "pending" /\ row'[r].owner = g /\ row'[r].attempts = 0
        /\ \A s \in Replies \ {r} : row'[s].state = "none" \/ row'[s] = row[s]
    BY <1>1, RecordFacts DEF NoRow
  <1>4. /\ life[g] = "up" /\ ~owed[r]
        /\ UNCHANGED <<life, batch, seen, held, flood, plain, marked, arrived, late>>
    BY DEF Record, sight
  <1>5. /\ row[r].state = "none" /\ plain[r] + marked[r] = 0
        /\ \A x \in Gateways, q \in Paths : hand[x][q][r].place = "none"
    BY <1>1, <1>4 DEF Ownership, Recorded
  <1>6. "turn" \in Paths /\ "turn" \notin Sweeps
    BY DEF Paths, Sweeps
  <1>7. \A x \in Gateways : /\ Has(x, r)' => x = g
                            /\ \A s \in Replies \ {r} : Has(x, s)' => Has(x, s)
    BY <1>2, <1>5 DEF Has
  <1>8. Recorded'
    <2>1. \A s \in Replies : row'[s].state # "none" => owed'[s] /\ life'[row'[s].owner] # "new"
      BY <1>1, <1>2, <1>3, <1>4 DEF Ownership, Recorded
    <2>2. \A x \in Gateways, p \in Paths, s \in Replies : hand'[x][p][s].place # "none" => owed'[s]
      BY <1>1, <1>2 DEF Ownership, Recorded
    <2>3. \A s \in Replies : ~owed'[s] => plain'[s] + marked'[s] = 0
      BY <1>1, <1>2, <1>4 DEF Ownership, Recorded
    <2> QED BY <2>1, <2>2, <2>3 DEF Recorded
  <1>9. Running'
    BY <1>1, <1>4 DEF Running, flood
  <1>10. InHand'
    BY <1>1, <1>3, <1>4, <1>7 DEF Ownership, InHand
  <1>11. OneHolder'
    BY <1>1, <1>7 DEF Ownership, OneHolder
  <1>12. SeenWasOpen'
    <2>1. ASSUME NEW x \in Gateways, NEW s \in Replies PROVE SeenWas(x, s)'
      <3>1. SeenWas(x, s)
        BY <1>1, SeenAll DEF Ownership
      <3>2. CASE s = r
        <4>1. seen[x][s].state = "none"
          BY <1>4, <3>1, <3>2 DEF SeenWas
        <4> QED BY <1>4, <4>1 DEF SeenWas
      <3>3. CASE s # r
        <4>1. \/ row'[s].state = "none"
              \/ /\ row[s].state # "none" /\ row'[s].owner = row[s].owner
                 /\ row'[s].state = row[s].state /\ row'[s].attempts = row[s].attempts
          BY <1>3, <3>3
        <4>2. /\ owed'[s] = owed[s] /\ seen'[x][s] = seen[x][s] /\ (s \in held'[x] <=> s \in held[x])
              /\ \A h \in Gateways : life'[h] = life[h]
          BY <1>2, <1>4, <3>3
        <4> QED BY <1>1, <3>1, <4>1, <4>2, SeenKept
      <3> QED BY <3>2, <3>3
    <2> QED BY <2>1 DEF SeenWasOpen, SeenWas
  <1>13. PlainIsAlone'
    <2> SUFFICES ASSUME NEW x \in Gateways, NEW q \in Sweeps, NEW s \in Replies,
                        hand'[x][q][s].place = "due", ~hand'[x][q][s].marker
                 PROVE  /\ q = "boot"
                        /\ s \notin late'[x] =>
                             /\ \A o \in Paths \ {q} : hand'[x][o][s].place = "none"
                             /\ row'[s].state \in {"pending", "none", "abandoned"}
      BY DEF PlainIsAlone
    <2>1. q \in Paths /\ q # "turn"
      BY <1>6 DEF Paths
    <2>2. hand'[x][q][s] = hand[x][q][s]
      BY <1>2, <2>1
    <2>3. s # r
      BY <1>5, <2>1, <2>2
    <2>4. /\ q = "boot"
          /\ s \notin late[x] =>
               /\ \A o \in Paths \ {q} : hand[x][o][s].place = "none"
               /\ row[s].state \in {"pending", "none", "abandoned"}
      BY <1>1, <2>2 DEF Ownership, PlainIsAlone
    <2>5. s \notin late[x] => row'[s].state \in {"pending", "none", "abandoned"}
      BY <1>3, <2>3, <2>4
    <2>6. \A o \in Paths : hand'[x][o][s] = hand[x][o][s]
      BY <1>2, <2>3
    <2> QED BY <1>4, <2>4, <2>5, <2>6
  <1>14. DeliveredArrived' /\ SuccessArrived'
    <2>1. DeliveredArrived'
      BY <1>1, <1>3, <1>4 DEF Arrival, DeliveredArrived
    <2>2. SuccessArrived'
      BY <1>1, <1>2, <1>4 DEF Arrival, SuccessArrived
    <2> QED BY <2>1, <2>2
  <1>15. Covered'
    <2>1. ASSUME NEW s \in Replies \ {r} PROVE CoveredFor(s)'
      <3>1. \A x \in Gateways \X Paths : hand'[x[1]][x[2]][s] = hand[x[1]][x[2]][s]
        BY <1>2
      <3>2. InTurn(s)' = InTurn(s)
        BY <3>1 DEF InTurn
      <3>3. CoveredFor(s)
        BY <1>1, CoveredAll
      <3>4. row'[s].state = "none" \/ (row[s].state # "none" /\ row'[s].attempts = row[s].attempts)
        BY <1>3
      <3> QED BY <1>1, <1>4, <3>2, <3>3, <3>4, CoverKept
    <2>2. CoveredFor(r)'
      <3>1. InTurn(r)' = {<<g, "turn">>}
        <4>1. \A x \in Gateways \X Paths : x # <<g, "turn">> => hand'[x[1]][x[2]][r].place = "none"
          BY <1>2, <1>5
        <4>2. \A x \in InTurn(r)' : x = <<g, "turn">>
          BY <4>1 DEF InTurn
        <4>3. <<g, "turn">> \in InTurn(r)'
          BY <1>2, <1>6 DEF InTurn
        <4> QED BY <4>2, <4>3
      <3>2. IsFiniteSet(InTurn(r)') /\ Cardinality(InTurn(r)') = 1
        BY <3>1, FS_Singleton
      <3>3. plain'[r] + marked'[r] = 0
        BY <1>4, <1>5
      <3>4. Budget(r)' \in Nat /\ Cap(r)' \in Nat
        BY <1>3, <1>4, CapFacts DEF Budget
      <3>5. row'[r].state # "none" => row'[r].attempts <= Cap(r)'
        BY <1>3, <3>4
      <3>6. plain'[r] + marked'[r] + Cardinality(InTurn(r)') <= Budget(r)' + 1
        BY <3>2, <3>3, <3>4
      <3> QED BY <3>2, <3>5, <3>6 DEF CoveredFor
    <2> QED BY <2>1, <2>2 DEF Covered, CoveredFor
  <1> QED BY <1>8, <1>9, <1>10, <1>11, <1>12, <1>13, <1>14, <1>15 DEF Inv

\* A claim puts a path of g in hand of what it claimed and of nothing else; rows change
\* only where g owns them already or takes them from a dead process, and what it takes is
\* in nobody's hand.
Claims(g, p) ==
  /\ life[g] = "up" /\ UNCHANGED <<life, owed, plain, marked, arrived>>
  /\ \A x \in Gateways : late[x] \subseteq late'[x] /\ (x # g \/ p # "boot" => late'[x] = late[x])
  /\ \A x \in Gateways, q \in Paths, r \in Replies :
       x # g \/ q # p => hand'[x][q][r] = hand[x][q][r]
  /\ \A r \in Replies :
       \/ /\ row[r].state # "none" /\ row'[r].state # "none" /\ row'[r].owner = g
          /\ row'[r].state = "delivered" => row[r].state = "delivered"
          /\ row[r].attempts < Cap(r)' /\ row'[r].attempts = row[r].attempts + 1
          /\ hand'[g][p][r].place = "due"
          /\ \/ /\ row[r].owner = g /\ row[r].state = "failed" /\ hand'[g][p][r].marker
                /\ row'[r].attempts <= MaxAttempts
             \/ /\ p = "boot" /\ \A x \in Gateways : ~Has(x, r)
                /\ life[row[r].owner] = "dead"
                /\ ~hand'[g][p][r].marker /\ r \notin late'[g] =>
                     row'[r].state \in {"pending", "none", "abandoned"}
       \/ /\ row[r].state # "none" /\ row'[r].state = row[r].state /\ row'[r].owner = g
          /\ row'[r].attempts = row[r].attempts /\ life[row[r].owner] = "dead"
          /\ hand'[g][p][r].place = "none"
          /\ \A x \in Gateways : ~Has(x, r)
       \/ /\ row'[r].owner = row[r].owner /\ row'[r].attempts = row[r].attempts
          /\ row'[r].state \in {row[r].state, "abandoned"}
          /\ row[r].state = "none" => row'[r].state = "none"
          /\ hand'[g][p][r].place = "none"
  /\ \A x \in Gateways, r \in Replies :
       \/ seen'[x][r].state = "none"
       \/ seen'[x][r] = seen[x][r] /\ (r \in held'[x] <=> r \in held[x])

\* A claim keeps the invariant.
LEMMA ClaimsStep ==
  ASSUME Inv, TypeOK', NEW g \in Gateways, NEW p \in Sweeps, Claims(g, p), Running'
  PROVE  Inv'
  <1>1. TypeOK /\ Ownership /\ Arrival /\ Covered
    BY InvParts
  <1>2. /\ life[g] = "up" /\ UNCHANGED <<life, owed, plain, marked, arrived>>
        /\ p \in Paths
        /\ \A x \in Gateways, q \in Paths, r \in Replies :
             x # g \/ q # p => hand'[x][q][r] = hand[x][q][r]
    BY DEF Claims, Paths
  <1>3. \A r \in Replies :
          /\ row'[r].state = "none" <=> row[r].state = "none"
          /\ row'[r].owner \in {g, row[r].owner}
          /\ row'[r].state = "delivered" => row[r].state = "delivered"
    BY DEF Claims
  <1>4. \A r \in Replies :
          /\ hand'[g][p][r].place \in {"due", "none"}
          /\ hand'[g][p][r].place = "due" => row[r].state # "none" /\ row'[r].owner = g
    BY DEF Claims
  \* A process that had or gets reply r in hand and finds a row owns it.
  <1>5. ASSUME NEW x \in Gateways, NEW r \in Replies, Has(x, r)'
        PROVE  Has(x, r) \/ (x = g /\ row[r].state # "none" /\ row'[r].owner = g
                              /\ hand'[g][p][r].place = "due")
    <2>1. PICK q \in Paths : hand'[x][q][r].place # "none"
      BY <1>5 DEF Has
    <2>2. CASE x = g /\ q = p
      BY <1>4, <2>1, <2>2
    <2>3. CASE ~(x = g /\ q = p)
      BY <1>2, <2>1, <2>3 DEF Has
    <2> QED BY <2>2, <2>3
  <1>6. \A r \in Replies : hand'[g][p][r].place = "due" => \A x \in Gateways : Has(x, r) => x = g
    <2> SUFFICES ASSUME NEW r \in Replies, hand'[g][p][r].place = "due",
                        NEW x \in Gateways, Has(x, r)
                 PROVE  x = g
      OBVIOUS
    <2>1. row[r].state # "none" /\ row[r].owner = g
      BY DEF Claims
    <2> QED BY <1>1, <2>1 DEF Ownership, InHand
  <1>7. Recorded'
    <2>1. \A r \in Replies : row'[r].state # "none" => owed'[r] /\ life'[row'[r].owner] # "new"
      BY <1>1, <1>2, <1>3 DEF Ownership, Recorded
    <2>2. ASSUME NEW x \in Gateways, NEW q \in Paths, NEW r \in Replies,
                 hand'[x][q][r].place # "none"
          PROVE  owed'[r]
      <3>1. Has(x, r) \/ row[r].state # "none"
        BY <1>5, <2>2 DEF Has
      <3> QED BY <1>1, <1>2, <3>1 DEF Ownership, Recorded, Has
    <2>3. \A r \in Replies : ~owed'[r] => plain'[r] + marked'[r] = 0
      BY <1>1, <1>2 DEF Ownership, Recorded
    <2> QED BY <2>1, <2>2, <2>3 DEF Recorded
  <1>8. InHand'
    <2> SUFFICES ASSUME NEW x \in Gateways, NEW r \in Replies, Has(x, r)'
                 PROVE  life'[x] = "up" /\ (row'[r].state # "none" => row'[r].owner = x)
      BY DEF InHand
    <2>1. CASE Has(x, r)
      <3>1. life[x] = "up" /\ (row[r].state # "none" => row[r].owner = x)
        BY <1>1, <2>1 DEF Ownership, InHand
      <3>2. row[r].state # "none" => row'[r].owner = x
        BY <2>1, <3>1 DEF Claims
      <3> QED BY <1>2, <1>3, <3>1, <3>2
    <2>2. CASE ~Has(x, r)
      BY <1>2, <1>5, <2>2
    <2> QED BY <2>1, <2>2
  <1>9. OneHolder'
    <2> SUFFICES ASSUME NEW x \in Gateways, NEW y \in Gateways, NEW r \in Replies,
                        Has(x, r)', Has(y, r)'
                 PROVE  x = y
      BY DEF OneHolder
    <2>1. CASE Has(x, r) /\ Has(y, r)
      BY <1>1, <2>1 DEF Ownership, OneHolder
    <2>2. CASE ~(Has(x, r) /\ Has(y, r))
      <3>1. hand'[g][p][r].place = "due"
        BY <1>5, <2>2
      <3>2. x = g /\ y = g
        BY <1>5, <1>6, <3>1
      <3> QED BY <3>2
    <2> QED BY <2>1, <2>2
  <1>10. SeenWasOpen'
    <2>1. ASSUME NEW x \in Gateways, NEW r \in Replies PROVE SeenWas(x, r)'
      <3>1. SeenWas(x, r)
        BY <1>1, SeenAll DEF Ownership
      <3>2. CASE seen'[x][r].state = "none"
        BY <3>2 DEF SeenWas
      <3>3. CASE seen'[x][r] = seen[x][r] /\ (r \in held'[x] <=> r \in held[x])
        <4>1. \/ /\ row[r].state # "none" /\ row'[r].owner = row[r].owner
                 /\ life[row[r].owner] = "up" /\ row'[r].attempts <= MaxAttempts
              \/ row[r].state # "none" /\ life[row[r].owner] = "dead" /\ life[row'[r].owner] = "up"
              \/ /\ row'[r].owner = row[r].owner /\ row'[r].attempts = row[r].attempts
                 /\ row'[r].state \in {row[r].state, "abandoned"}
                 /\ row[r].state = "none" => row'[r].state = "none"
          BY DEF Claims
        <4> QED BY <1>1, <1>2, <3>1, <3>3, <4>1, SeenKept
      <3> QED BY <3>2, <3>3 DEF Claims
    <2> QED BY <2>1 DEF SeenWasOpen, SeenWas
  <1>11. PlainIsAlone'
    <2> SUFFICES ASSUME NEW x \in Gateways, NEW q \in Sweeps, NEW r \in Replies,
                        hand'[x][q][r].place = "due", ~hand'[x][q][r].marker
                 PROVE  /\ q = "boot"
                        /\ r \notin late'[x] =>
                             /\ \A o \in Paths \ {q} : hand'[x][o][r].place = "none"
                             /\ row'[r].state \in {"pending", "none", "abandoned"}
      BY DEF PlainIsAlone
    <2>0. q \in Paths
      BY DEF Paths
    <2>1. CASE x = g /\ q = p
      <3>1. /\ p = "boot" /\ \A y \in Gateways : ~Has(y, r)
            /\ r \notin late'[g] => row'[r].state \in {"pending", "none", "abandoned"}
        BY <2>1 DEF Claims
      <3>2. \A o \in Paths \ {q} : hand'[x][o][r].place = "none"
        BY <1>2, <2>1, <3>1 DEF Has
      <3> QED BY <2>1, <3>1, <3>2
    <2>2. CASE ~(x = g /\ q = p)
      <3>1. hand[x][q][r].place = "due" /\ ~hand[x][q][r].marker
        BY <1>2, <2>0, <2>2
      <3>2. /\ q = "boot"
            /\ r \notin late[x] =>
                 /\ \A o \in Paths \ {q} : hand[x][o][r].place = "none"
                 /\ row[r].state \in {"pending", "none", "abandoned"}
        BY <1>1, <3>1 DEF Ownership, PlainIsAlone
      <3>3. Has(x, r)
        BY <2>0, <3>1 DEF Has
      <3>4. ASSUME r \notin late'[x]
            PROVE  /\ \A o \in Paths \ {q} : hand'[x][o][r].place = "none"
                   /\ row'[r].state \in {"pending", "none", "abandoned"}
        <4>1. /\ \A o \in Paths \ {q} : hand[x][o][r].place = "none"
              /\ row[r].state \in {"pending", "none", "abandoned"}
          BY <3>2, <3>4 DEF Claims
        <4>2. /\ hand'[g][p][r].place = "none"
              /\ row'[r].state \in {row[r].state, "abandoned"}
          BY <3>3, <4>1 DEF Claims
        <4> QED BY <1>2, <4>1, <4>2
      <3> QED BY <3>2, <3>4
    <2> QED BY <2>1, <2>2
  <1>12. DeliveredArrived' /\ SuccessArrived'
    <2>1. DeliveredArrived'
      BY <1>1, <1>2, <1>3 DEF Arrival, DeliveredArrived
    <2>2. SuccessArrived'
      BY <1>1, <1>2, <1>4 DEF Arrival, SuccessArrived
    <2> QED BY <2>1, <2>2
  <1>13. Covered'
    <2>1. ASSUME NEW r \in Replies PROVE CoveredFor(r)'
      <3>1. CoveredFor(r)
        BY <1>1, CoveredAll
      <3>0. \A x \in Gateways : late[x] \subseteq late'[x]
        BY DEF Claims
      <3>2. \A w \in InTurn(r)' : w = <<g, p>> \/ w \in InTurn(r)
        BY <1>2 DEF InTurn
      <3>3. CASE hand'[g][p][r].place = "due"
        <4>1. /\ row[r].state # "none" /\ row'[r].state # "none"
              /\ row[r].attempts < Cap(r)' /\ row'[r].attempts = row[r].attempts + 1
          BY <3>3 DEF Claims
        <4>2. InTurn(r)' \subseteq InTurn(r) \cup {<<g, p>>}
          BY <3>2
        <4> QED BY <1>1, <1>2, <3>0, <3>1, <4>1, <4>2, CoverSpent
      <3>4. CASE hand'[g][p][r].place = "none"
        <4>1. row'[r].attempts = row[r].attempts
          BY <3>4 DEF Claims
        <4>2. <<g, p>> \notin InTurn(r)'
          BY <3>4 DEF InTurn
        <4>3. InTurn(r)' \subseteq InTurn(r)
          BY <3>2, <4>2
        <4> QED BY <1>1, <1>2, <1>3, <3>0, <3>1, <4>1, <4>3, CoverKept
      <3> QED BY <1>4, <3>3, <3>4
    <2> QED BY <2>1 DEF Covered, CoveredFor
  <1> QED BY <1>7, <1>8, <1>9, <1>10, <1>11, <1>12, <1>13 DEF Inv

\* The boot sweep's UPDATEs are a claim: what they take has a dead owner.
LEMMA BootClaimStep ==
  ASSUME Inv, TypeOK', NEW g \in Gateways, BootClaim(g)
  PROVE  Inv'
  <1>1. TypeOK /\ Running /\ Ownership
    BY InvParts
  <1>2. /\ batch[g]["boot"] = "scanned" /\ UNCHANGED <<life, timer, owed, plain, marked, arrived>>
        /\ \A r \in Replies : ~OwnerAlive(seen[g][r].owner)
        /\ held' = [held EXCEPT ![g] = {}]
        /\ seen' = [seen EXCEPT ![g] = NothingSeen]
        /\ batch' = [batch EXCEPT ![g]["boot"] = "sending"]
    BY DEF BootClaim, flood
  <1>3. "boot" \in Sweeps /\ "boot" \in Paths
    BY DEF Sweeps, Paths
  <1>4. life[g] = "up"
    BY <1>1, <1>2, <1>3 DEF Running
  <1>5. Running'
    BY <1>1, <1>2, <1>4 DEF Running, TypeOK
  <1>6. \A x \in Gateways, r \in Replies :
          \/ seen'[x][r].state = "none"
          \/ seen'[x][r] = seen[x][r] /\ (r \in held'[x] <=> r \in held[x])
    BY <1>1, <1>2 DEF NothingSeen, NoRow, TypeOK
  <1>7. \A x \in Gateways, q \in Paths, r \in Replies :
          x # g \/ q # "boot" => hand'[x][q][r] = hand[x][q][r]
    BY <1>1, BootClaimFacts
  <1>7a. /\ \A x \in Gateways : late[x] \subseteq late'[x] /\ (x # g => late'[x] = late[x])
         /\ \A r \in held[g] : hand'[g]["boot"][r].place = "due" => r \in late'[g]
    BY <1>1, BootClaimFacts
  \* A row this scan saw and that still has its owner is in nobody's hand.
  <1>8. ASSUME NEW r \in Replies, seen[g][r].state \in Open, Unchanged(g, r),
               row[r].state # "none"
        PROVE  /\ \A x \in Gateways : ~Has(x, r)
               /\ life[row[r].owner] = "dead"
               /\ seen[g][r].attempts < MaxAttempts => row[r].attempts <= MaxAttempts
               /\ r \notin held[g] => /\ row[r].state \in {seen[g][r].state, "abandoned"}
                                      /\ row[r].attempts = seen[g][r].attempts
    <2>1. row[r].owner = seen[g][r].owner /\ seen[g][r].state # "none" /\ SeenWas(g, r)
      BY <1>1, <1>8, SeenAll DEF Ownership, Unchanged, Open
    <2>2. /\ row[r].owner \in Gateways /\ life[row[r].owner] # "new"
          /\ seen[g][r].attempts < MaxAttempts => row[r].attempts <= MaxAttempts
          /\ r \notin held[g] => /\ row[r].state \in {seen[g][r].state, "abandoned"}
                                 /\ row[r].attempts = seen[g][r].attempts
      BY <1>8, <2>1 DEF SeenWas
    <2>3. life[row[r].owner] = "dead"
      BY <1>1, <1>2, <2>1, <2>2 DEF OwnerAlive, TypeOK
    <2>4. \A x \in Gateways : ~Has(x, r)
      BY <1>1, <1>8, <2>3 DEF Ownership, InHand
    <2> QED BY <2>2, <2>3, <2>4
  <1>9. ASSUME NEW r \in Replies
        PROVE  \/ /\ row[r].state # "none" /\ row'[r].state # "none" /\ row'[r].owner = g
                  /\ row'[r].state = "delivered" => row[r].state = "delivered"
                  /\ row[r].attempts < Cap(r)' /\ row'[r].attempts = row[r].attempts + 1
                  /\ hand'[g]["boot"][r].place = "due"
                  /\ \A x \in Gateways : ~Has(x, r)
                  /\ life[row[r].owner] = "dead"
                  /\ ~hand'[g]["boot"][r].marker /\ r \notin late'[g] =>
                       row'[r].state \in {"pending", "none", "abandoned"}
               \/ /\ row[r].state # "none" /\ row'[r].state = row[r].state /\ row'[r].owner = g
                  /\ row'[r].attempts = row[r].attempts /\ life[row[r].owner] = "dead"
                  /\ hand'[g]["boot"][r].place = "none"
                  /\ \A x \in Gateways : ~Has(x, r)
               \/ /\ row'[r].owner = row[r].owner /\ row'[r].attempts = row[r].attempts
                  /\ row'[r].state \in {row[r].state, "abandoned"}
                  /\ row[r].state = "none" => row'[r].state = "none"
                  /\ hand'[g]["boot"][r].place = "none"
    <2> DEFINE then == seen[g][r]
               h == hand'[g]["boot"][r]
    <2>1. row[r] \in Row /\ then \in Row /\ Empty.place = "none"
      BY <1>1 DEF TypeOK, Empty
    <2>2. \/ /\ then.state \in Open /\ ~Exhausted(then) /\ Unchanged(g, r)
             /\ row[r].state # "none"
             /\ row'[r].owner = g /\ row'[r].attempts = row[r].attempts + 1
             /\ row'[r].state # "none"
             /\ \/ row'[r].state = row[r].state
                \/ row'[r].state = "attempting" /\ then.state = "failed"
             /\ h.place = "due" /\ h.marker = (then.state # "pending")
          \/ /\ then.state \in Open /\ Unchanged(g, r) /\ row[r].state # "none"
             /\ row'[r] = [row[r] EXCEPT !.owner = g]
             /\ h = Empty
          \/ /\ row'[r] \in {row[r], [row[r] EXCEPT !.state = "abandoned"]}
             /\ row[r].state = "none" => row'[r] = row[r]
             /\ h = Empty
      BY <1>1, BootClaimFacts
    <2>3. ASSUME then.state \in Open, ~Exhausted(then), Unchanged(g, r), row[r].state # "none",
                 row'[r].owner = g, row'[r].attempts = row[r].attempts + 1,
                 row'[r].state # "none",
                 \/ row'[r].state = row[r].state
                 \/ row'[r].state = "attempting" /\ then.state = "failed",
                 h.place = "due", h.marker = (then.state # "pending")
          PROVE  /\ row'[r].state = "delivered" => row[r].state = "delivered"
                 /\ row[r].attempts < Cap(r)'
                 /\ \A x \in Gateways : ~Has(x, r)
                 /\ life[row[r].owner] = "dead"
                 /\ ~h.marker /\ r \notin late'[g] =>
                      row'[r].state \in {"pending", "none", "abandoned"}
      <3>1. /\ \A x \in Gateways : ~Has(x, r)
            /\ life[row[r].owner] = "dead"
            /\ then.attempts < MaxAttempts => row[r].attempts <= MaxAttempts
            /\ r \notin held[g] => /\ row[r].state \in {then.state, "abandoned"}
                                   /\ row[r].attempts = then.attempts
        BY <1>8, <2>3
      <3>2. /\ then.attempts \in Nat /\ then.attempts < MaxAttempts
            /\ row[r].attempts \in Nat
        BY <2>1, <2>3 DEF Exhausted, Row
      <3>3. ~h.marker => then.state = "pending"
        BY <2>3, Zenon
      <3>4. r \in held[g] => r \in late'[g]
        BY <1>7a, <2>3
      <3>5. /\ MaxAttempts <= Cap(r)' /\ Cap(r)' \in Nat
            /\ r \in late'[g] => Cap(r)' = MaxAttempts + 1
        <4>1. /\ Cap(r) \in Nat /\ Cap(r)' \in Nat /\ Cap(r) <= Cap(r)' /\ MaxAttempts <= Cap(r)
              /\ r \in late'[g] => Cap(r)' = MaxAttempts + 1
          BY <1>7a, CapFacts
        <4> QED BY <4>1
      <3> HIDE DEF then, h
      <3>6. ~h.marker /\ r \notin late'[g] => row'[r].state \in {"pending", "none", "abandoned"}
        BY <2>3, <3>1, <3>3, <3>4
      <3>7. row[r].attempts < Cap(r)'
        <4>1. CASE r \in held[g]
          BY <3>1, <3>2, <3>4, <3>5, <4>1
        <4>2. CASE r \notin held[g]
          BY <3>1, <3>2, <3>5, <4>2
        <4> QED BY <4>1, <4>2
      <3>8. row'[r].state = "delivered" => row[r].state = "delivered"
        BY <2>3
      <3> QED BY <3>1, <3>6, <3>7, <3>8
    <2>4. ASSUME then.state \in Open, Unchanged(g, r), row[r].state # "none",
                 row'[r] = [row[r] EXCEPT !.owner = g]
          PROVE  /\ row'[r].state = row[r].state /\ row'[r].owner = g
                 /\ row'[r].attempts = row[r].attempts
                 /\ life[row[r].owner] = "dead"
                 /\ \A x \in Gateways : ~Has(x, r)
      BY <1>8, <2>1, <2>4 DEF Row
    <2>5. ASSUME row'[r] \in {row[r], [row[r] EXCEPT !.state = "abandoned"]}
          PROVE  /\ row'[r].owner = row[r].owner /\ row'[r].attempts = row[r].attempts
                 /\ row'[r].state \in {row[r].state, "abandoned"}
      BY <2>1, <2>5 DEF Row
    <2> HIDE DEF then
    <2> QED BY <2>1, <2>2, <2>3, <2>4, <2>5
  <1>10. Claims(g, "boot")
    BY <1>2, <1>4, <1>6, <1>7, <1>7a, <1>9 DEF Claims
  <1> QED BY <1>3, <1>5, <1>10, ClaimsStep

\* The runtime sweeps' transaction is a claim: it takes what its own process owns.
LEMMA RuntimeClaimStep ==
  ASSUME Inv, TypeOK', NEW g \in Gateways, NEW p \in {"reconnect", "timer"}, RuntimeClaim(g, p),
         life[g] = "up", UNCHANGED <<life, sight, world>>,
         \A x \in Gateways \ {g} : timer'[x] = timer[x]
  PROVE  Inv'
  <1>1. TypeOK /\ Running
    BY InvParts
  <1>2. p \in Sweeps /\ p # "boot"
    BY DEF Sweeps
  <1>3. /\ \A x \in Gateways \ {g} : batch'[x] = batch[x]
        /\ \A x \in Gateways, q \in Paths, r \in Replies :
              x # g \/ q # p => hand'[x][q][r] = hand[x][q][r]
        /\ \A r \in Replies :
              \/ /\ row[r].state = "failed" /\ row[r].owner = g /\ ~Exhausted(row[r])
                 /\ row'[r].state = "attempting" /\ row'[r].owner = g
                 /\ row'[r].attempts = row[r].attempts + 1
                 /\ hand'[g][p][r].place = "due" /\ hand'[g][p][r].marker
              \/ /\ row[r].state = "failed" /\ row[r].owner = g
                 /\ row'[r] = [row[r] EXCEPT !.state = "abandoned"]
                 /\ hand'[g][p][r] = Empty
              \/ row'[r] = row[r] /\ hand'[g][p][r] = Empty
    BY <1>1, <1>2, RuntimeClaimFacts
  <1>4. Running'
    BY <1>1, <1>3 DEF Running
  <1>5. ASSUME NEW r \in Replies
        PROVE  \/ /\ row[r].state # "none" /\ row'[r].state # "none" /\ row'[r].owner = g
                  /\ row'[r].state # "delivered"
                  /\ row[r].attempts < Cap(r)' /\ row'[r].attempts = row[r].attempts + 1
                  /\ row'[r].attempts <= MaxAttempts
                  /\ hand'[g][p][r].place = "due"
                  /\ row[r].owner = g /\ row[r].state = "failed" /\ hand'[g][p][r].marker
               \/ /\ row'[r].owner = row[r].owner /\ row'[r].attempts = row[r].attempts
                  /\ row'[r].state \in {row[r].state, "abandoned"}
                  /\ row[r].state = "none" => row'[r].state = "none"
                  /\ hand'[g][p][r].place = "none"
    <2>1. row[r] \in Row /\ Empty.place = "none"
      BY <1>1 DEF TypeOK, Empty
    <2>2. row[r].attempts \in Nat /\ (~Exhausted(row[r]) => row[r].attempts < MaxAttempts)
      BY <2>1 DEF Row, Exhausted
    <2>3. [row[r] EXCEPT !.state = "abandoned"].state = "abandoned"
          /\ [row[r] EXCEPT !.state = "abandoned"].owner = row[r].owner
          /\ [row[r] EXCEPT !.state = "abandoned"].attempts = row[r].attempts
      BY <2>1 DEF Row
    <2>4. CASE /\ row[r].state = "failed" /\ row[r].owner = g /\ ~Exhausted(row[r])
               /\ row'[r].state = "attempting" /\ row'[r].owner = g
               /\ row'[r].attempts = row[r].attempts + 1
               /\ hand'[g][p][r].place = "due" /\ hand'[g][p][r].marker
      <3>1. late' = late /\ Cap(r) \in Nat /\ MaxAttempts <= Cap(r)
        BY CapFacts DEF world
      <3>2. Cap(r)' = Cap(r)
        BY <3>1 DEF Cap, LateClaims
      <3>3. row[r].attempts < MaxAttempts /\ row'[r].attempts <= MaxAttempts
        BY <2>2, <2>4
      <3>4. row[r].attempts < Cap(r)'
        BY <2>2, <3>1, <3>2, <3>3
      <3> QED BY <2>4, <3>3, <3>4
    <2>5. CASE /\ row[r].state = "failed" /\ row[r].owner = g
               /\ row'[r] = [row[r] EXCEPT !.state = "abandoned"]
               /\ hand'[g][p][r] = Empty
      BY <2>1, <2>3, <2>5
    <2>6. CASE row'[r] = row[r] /\ hand'[g][p][r] = Empty
      BY <2>1, <2>6
    <2> QED BY <1>3, <2>4, <2>5, <2>6
  <1>6. Claims(g, p)
    <2>1. /\ \A x \in Gateways, r \in Replies :
               seen'[x][r] = seen[x][r] /\ (r \in held'[x] <=> r \in held[x])
          /\ UNCHANGED <<owed, plain, marked, arrived, late>>
      BY DEF sight, world
    <2> QED BY <1>2, <1>3, <1>5, <2>1 DEF Claims
  <1> QED BY <1>2, <1>4, <1>6, ClaimsStep

(***************************************************************************)
(* The invariant                                                           *)
(***************************************************************************)
\* The invariant holds of an empty table.
LEMMA InvInit == Init => Inv
  <1> SUFFICES ASSUME Init PROVE Inv
    OBVIOUS
  <1>1. /\ \A r \in Replies : /\ row[r] = NoRow /\ plain[r] = 0 /\ marked[r] = 0
                              /\ ~owed[r] /\ ~arrived[r]
        /\ \A g \in Gateways : /\ life[g] = "new" /\ timer[g] = "none"
                               /\ \A p \in Sweeps : batch[g][p] = "idle"
                               /\ \A p \in Paths, r \in Replies : hand[g][p][r] = Empty
                               /\ \A r \in Replies : seen[g][r] = NoRow
    BY DEF Init, NoHands, NoBatch, NothingSeen
  <1>2. NoRow.state = "none" /\ NoRow.attempts = 0 /\ Empty.place = "none"
    BY DEF NoRow, Empty
  <1>3. TypeOK
    BY <1>1, <1>2, Values DEF Init, TypeOK
  <1>4. Recorded /\ Running /\ InHand /\ OneHolder /\ SeenWasOpen /\ PlainIsAlone
    <2>1. \A g \in Gateways, r \in Replies : ~Has(g, r) /\ seen[g][r].state = "none"
      BY <1>1, <1>2 DEF Has
    <2>2. \A g \in Gateways, p \in Paths, r \in Replies : hand[g][p][r].place = "none"
      BY <1>1, <1>2
    <2>3. Recorded /\ Running
      BY <1>1, <1>2, <2>2 DEF Recorded, Running
    <2>4. InHand /\ OneHolder /\ SeenWasOpen
      BY <2>1 DEF InHand, OneHolder, SeenWasOpen
    <2>5. PlainIsAlone
      BY <2>2 DEF PlainIsAlone, Paths, Sweeps
    <2> QED BY <2>3, <2>4, <2>5
  <1>5. DeliveredArrived /\ SuccessArrived
    BY <1>1, <1>2 DEF DeliveredArrived, SuccessArrived
  <1>6. Covered
    <2>1. \A r \in Replies : InTurn(r) = {}
      BY <1>1, <1>2 DEF InTurn
    <2>2. \A r \in Replies : IsFiniteSet(InTurn(r)) /\ Cardinality(InTurn(r)) = 0
      BY <2>1, FS_EmptySet
    <2>3. \A r \in Replies : Cap(r) \in Nat
      BY CapSum
    <2> QED BY <1>1, <1>2, <2>2, <2>3 DEF Covered, Budget
  <1> QED BY <1>3, <1>4, <1>5, <1>6 DEF Inv

\* Every step keeps the invariant.
LEMMA InvStep == Inv /\ [Next]_vars => Inv'
  <1> SUFFICES ASSUME Inv, [Next]_vars PROVE Inv'
    OBVIOUS
  <1>1. TypeOK /\ TypeOK' /\ Running
    BY InvParts, TypeStep
  <1>2. ASSUME NEW g \in Gateways, Reconnect(g) PROVE Inv'
    BY <1>1, <1>2, RuntimeClaimStep DEF Reconnect, flood
  <1>3. ASSUME NEW g \in Gateways, TimerFires(g) PROVE Inv'
    <2>1. /\ timer[g] = "sleeping" /\ RuntimeClaim(g, "timer") /\ UNCHANGED <<life, sight, world>>
          /\ \A x \in Gateways \ {g} : timer'[x] = timer[x]
      BY <1>1, <1>3 DEF TimerFires, TypeOK
    <2>2. life[g] = "up"
      BY <1>1, <2>1 DEF Running
    <2> QED BY <1>1, <2>1, <2>2, RuntimeClaimStep
  <1>4. CASE UNCHANGED vars
    <2>1. UNCHANGED <<row, life, hand, batch, seen, held, timer, world>>
      BY <1>4 DEF vars, sight, flood
    <2>2. Running'
      BY <1>1, <2>1 DEF Running
    <2> QED BY <1>1, <2>1, <2>2, StillStep
  <1>5. "turn" \in Paths
    BY DEF Paths
  <1> QED
    BY <1>1, <1>2, <1>3, <1>4, <1>5, QuietStep, HandlingStep, TimeStep, CrashStep, RecordStep,
       BootClaimStep
    DEF Next, BootStep, TimerStep, Quietly, Handling

\* The inductive invariant holds for any replies, processes, cap and table size.
THEOREM Invariance == Spec => []Inv
  <1>1. Inv /\ UNCHANGED vars => Inv'
    BY InvStep
  <1> QED BY InvInit, InvStep, PTL DEF Spec

\* Every row, hand and counter keeps its type, whatever the sweeps, the timer and the
\* turns interleave to.
THEOREM TypeCorrect == Spec => []TypeOK
  <1>1. Inv => TypeOK
    BY DEF Inv
  <1> QED BY <1>1, Invariance, PTL

\* No two processes ever hold the same reply for sending: the boot sweep's guarded UPDATE
\* takes a row only from a process that is dead for good.
THEOREM OneProcessSends == Spec => []OneGatewaySends
  <1>1. Inv => OneGatewaySends
    BY DEF Inv, OneHolder, OneGatewaySends, Holds, Has
  <1> QED BY <1>1, Invariance, PTL

\* A row is marked delivered only after a send the platform accepted.
THEOREM DeliveredMeansArrived == Spec => []DeliveredArrived
  <1>1. Inv => DeliveredArrived
    BY DEF Inv
  <1> QED BY <1>1, Invariance, PTL

\* A sweep resends without the marker only what was never attempted on record, but for a
\* reply whose owner died between that sweep's SELECT and its look at the owner.
THEOREM UnmarkedOnlyIfPending == Spec => []MarkedUnlessPending
  <1>1. Inv => MarkedUnlessPending
    BY DEF Inv, PlainIsAlone, MarkedUnlessPending
  <1> QED BY <1>1, Invariance, PTL

\* Over all crashes, reconnects and released claims a reply is sent at most
\* MaxAttempts + 1 times, and once more if a boot sweep claimed it by attempts its owner
\* had still added to.
THEOREM SendsBounded == Spec => []BoundedSends
  <1>1. Inv => BoundedSends
    <2> SUFFICES ASSUME Inv, NEW r \in Replies PROVE plain[r] + marked[r] <= Cap(r) + 1
      BY CapSum DEF BoundedSends
    <2>1. TypeOK /\ CoveredFor(r)
      BY DEF Inv, Covered, CoveredFor
    <2>2. /\ plain[r] \in Nat /\ marked[r] \in Nat /\ row[r].attempts \in Nat
          /\ Cardinality(InTurn(r)) \in Nat
      BY <2>1, FS_CardinalityType DEF TypeOK, Row, CoveredFor
    <2>3. Budget(r) <= Cap(r) /\ Budget(r) \in Nat /\ Cap(r) \in Nat
      BY <2>1, <2>2, CapSum DEF Budget, CoveredFor
    <2> QED BY <2>1, <2>2, <2>3 DEF CoveredFor
  <1> QED BY <1>1, Invariance, PTL

(***************************************************************************)
(* Overflow                                                                *)
(***************************************************************************)
\* A prune takes an open row, the one being recorded included, only once no closed row
\* is left.
LEMMA PruneDropsClosedFirst ==
  ASSUME NEW STATE table, table \in [Replies -> Row], Prune(table),
         NEW r \in Replies, table[r].state \in Open, row'[r].state = "none"
  PROVE  ClosedRows(row') = {}
  <1>0. PICK old \in SUBSET ClosedRows(table) :
          \E gone \in SUBSET (Rows(table) \ old) :
            /\ \A s \in gone, q \in (Rows(table) \ old) \ gone : Rank(table, s) <= Rank(table, q)
            /\ row' = [s \in Replies |-> IF s \in old \cup gone THEN NoRow ELSE table[s]]
    BY DEF Prune
  <1>1. PICK gone \in SUBSET (Rows(table) \ old) :
          /\ \A s \in gone, q \in (Rows(table) \ old) \ gone : Rank(table, s) <= Rank(table, q)
          /\ row' = [s \in Replies |-> IF s \in old \cup gone THEN NoRow ELSE table[s]]
    BY <1>0
  <1>2. table[r].state \notin Closed /\ table[r].state # "none"
        /\ "none" \notin Closed /\ "none" \notin Open
    BY DEF Open, Closed
  <1>3. r \in gone
    BY <1>1, <1>2 DEF ClosedRows
  <1>4. Rank(table, r) = 2
    <2>1. table[r].state # "delivered" /\ table[r].state # "abandoned"
      BY <1>2 DEF Closed
    <2> QED BY <2>1 DEF Rank
  <1>5. SUFFICES ASSUME NEW q \in ClosedRows(row') PROVE FALSE
    OBVIOUS
  <1>6. q \in Replies /\ row'[q].state \in Closed
    BY DEF ClosedRows
  <1>7. q \notin old \cup gone /\ table[q].state \in Closed
    BY <1>1, <1>2, <1>6 DEF NoRow
  <1>8. q \in (Rows(table) \ old) \ gone
    BY <1>2, <1>6, <1>7 DEF Rows
  <1>9. Rank(table, q) \in {0, 1}
    <2>1. CASE table[q].state = "delivered"
      BY <2>1 DEF Rank
    <2>2. CASE table[q].state = "abandoned"
      <3>1. table[q].state # "delivered"
        BY <2>2
      <3> QED BY <2>2, <3>1 DEF Rank
    <2> QED BY <1>7, <2>1, <2>2 DEF Closed
  <1>10. 2 <= Rank(table, q)
    BY <1>1, <1>3, <1>4, <1>8
  <1> QED BY <1>9, <1>10

\* Only a recording takes rows out of the table.
LEMMA RowsStay ==
  ASSUME TypeOK, TypeOK', [Next]_vars, ~\E g \in Gateways, r \in Replies : Record(g, r)
  PROVE  /\ \A r \in Replies : row[r].state # "none" => row'[r].state # "none"
         /\ owed' = owed
  <1> DEFINE Stay == /\ \A r \in Replies : row[r].state # "none" => row'[r].state # "none"
                     /\ owed' = owed
  <1>1. ASSUME UNCHANGED <<row, owed>> PROVE Stay
    BY <1>1
  <1>2. ASSUME NEW g \in Gateways, Quietly(g) \/ Crash(g) PROVE Stay
    <2>1. UNCHANGED <<row, owed>>
      BY <1>2 DEF Quietly, Start, BootScan, BootSkips, TimerClears, TimerReads, TimerDecides,
         TimerIsWoken, TimerSwept, BatchEnds, Crash, world
    <2> QED BY <1>1, <2>1
  <1>3. ASSUME NEW g \in Gateways, NEW p \in Paths, NEW r \in Replies, Handles(g, p, r) PROVE Stay
    BY <1>3 DEF Handles
  <1>4. ASSUME NEW g \in Gateways, NEW p \in Paths, NEW r \in Replies, Handling(g, p, r) PROVE Stay
    <2>1. Handles(g, p, r)
      BY <1>4, MarkAttemptingHandles, MarkAttemptingRaisesHandles, SendLooseHandles,
         SendHandles, SettleHandles, SettleRaisesHandles, ReleaseHandles
      DEF Handling, TurnStep, HandStep
    <2> QED BY <1>3, <2>1
  <1>5. ASSUME NEW g \in Gateways, BootClaim(g) PROVE Stay
    <2>1. owed' = owed
      BY <1>5 DEF BootClaim
    <2>2. ASSUME NEW r \in Replies, row[r].state # "none" PROVE row'[r].state # "none"
      <3>1. row[r] \in Row
        BY DEF TypeOK
      <3>2. \/ row'[r].state # "none"
            \/ row'[r] = [row[r] EXCEPT !.owner = g]
            \/ row'[r] \in {row[r], [row[r] EXCEPT !.state = "abandoned"]}
        BY <1>5, BootClaimFacts, Zenon
      <3> QED BY <2>2, <3>1, <3>2 DEF Row
    <2> QED BY <2>1, <2>2
  <1>6. ASSUME NEW g \in Gateways, NEW p \in Sweeps, RuntimeClaim(g, p), UNCHANGED world PROVE Stay
    <2>1. ASSUME NEW r \in Replies, row[r].state # "none" PROVE row'[r].state # "none"
      <3>1. row[r] \in Row
        BY DEF TypeOK
      <3>2. \/ row'[r].state = "attempting"
            \/ row'[r] = [row[r] EXCEPT !.state = "abandoned"]
            \/ row'[r] = row[r]
        BY <1>6, RuntimeClaimFacts
      <3> QED BY <2>1, <3>1, <3>2 DEF Row
    <2> QED BY <1>6, <2>1 DEF world
  <1>7. ASSUME NEW g \in Gateways, Reconnect(g) \/ TimerFires(g) PROVE Stay
    BY <1>6, <1>7 DEF Reconnect, TimerFires, Sweeps
  <1>8. ASSUME NEW r \in Replies, WaitPasses(r) \/ Age(r) PROVE Stay
    <2>1. row[r] \in Row /\ owed' = owed
      BY <1>8 DEF TypeOK, WaitPasses, Age, world
    <2>2. \A s \in Replies \ {r} : row'[s] = row[s]
      BY <1>8 DEF TypeOK, WaitPasses, Age
    <2>3. row'[r] = [row[r] EXCEPT !.waiting = FALSE] \/ row'[r] = [row[r] EXCEPT !.stale = TRUE]
      BY <1>8 DEF TypeOK, WaitPasses, Age
    <2>4. row'[r].state = row[r].state
      BY <2>1, <2>3 DEF Row
    <2> QED BY <2>1, <2>2, <2>4
  <1>9. ASSUME UNCHANGED vars PROVE Stay
    BY <1>1, <1>9 DEF vars, world
  <1>10. "turn" \in Paths
    BY DEF Paths
  <1> HIDE DEF Stay
  <1>11. Stay
    <2>1. CASE Next
      <3>1. ASSUME NEW g \in Gateways, BootStep(g) \/ Reconnect(g) \/ TimerStep(g) PROVE Stay
        BY <1>2, <1>5, <1>7, <3>1 DEF BootStep, TimerStep, Quietly
      <3>2. ASSUME NEW g \in Gateways, Start(g) \/ Crash(g) \/ \E p \in Sweeps : BatchEnds(g, p)
            PROVE  Stay
        BY <1>2, <3>2 DEF Quietly
      <3>3. ASSUME NEW g \in Gateways, NEW r \in Replies,
                   TurnStep(g, r) \/ \E p \in Paths : HandStep(g, p, r)
            PROVE  Stay
        BY <1>4, <1>10, <3>3 DEF Handling
      <3>4. CASE \E r \in Replies : WaitPasses(r) \/ Age(r)
        BY <1>8, <3>4
      <3>5. ASSUME NEW g \in Gateways,
                   \/ Start(g) \/ Crash(g) \/ BootStep(g) \/ Reconnect(g) \/ TimerStep(g)
                   \/ \E p \in Sweeps : BatchEnds(g, p)
                   \/ \E r \in Replies :
                        \/ Record(g, r) \/ TurnStep(g, r)
                        \/ \E p \in Paths : HandStep(g, p, r)
            PROVE  Stay
        <4>1. \A r \in Replies : ~Record(g, r)
          OBVIOUS
        <4> QED BY <3>1, <3>2, <3>3, <3>5, <4>1
      <3> QED BY <2>1, <3>4, <3>5 DEF Next
    <2> QED BY <1>9, <2>1
  <1> QED BY <1>11 DEF Stay

\* An open obligation, the new one included, leaves an overflowing table only when no
\* delivered or abandoned row is left in it.
THEOREM ClosedRowsGoFirst == Spec => OverflowDropsClosedFirst
  <1> DEFINE Dropped(r) ==
       (row[r].state \in Open \/ owed'[r] # owed[r]) /\ row'[r].state = "none"
             ClosedFirst == \A r \in Replies : Dropped(r) => ClosedRows(row') = {}
  <1>1. TypeOK /\ TypeOK' /\ [Next]_vars => [ClosedFirst]_vars
    <2> SUFFICES ASSUME TypeOK, TypeOK', [Next]_vars, NEW r \in Replies, Dropped(r)
                 PROVE  ClosedRows(row') = {}
      OBVIOUS
    <2>1. row[r].state \in Open => row[r].state # "none"
      BY DEF Open
    <2>2. PICK g \in Gateways, q \in Replies : Record(g, q)
      BY <2>1, RowsStay
    <2> DEFINE new == [NoRow EXCEPT !.state = "pending", !.owner = g]
               table == [row EXCEPT ![q] = new]
    <2>3. new \in Row /\ new.state \in Open
      BY Values DEF NoRow, Row, Open, Closed
    <2>4. Prune(table) /\ owed' = [owed EXCEPT ![q] = TRUE]
      BY <2>2 DEF Record
    <2>5. /\ table \in [Replies -> Row] /\ table[q] = new
          /\ \A s \in Replies \ {q} : table[s] = row[s]
      <3> HIDE DEF new
      <3> QED BY <2>3 DEF TypeOK
    <2>6. table[r].state \in Open
      <3>1. r # q => row[r].state \in Open
        BY <2>4 DEF TypeOK
      <3> HIDE DEF new, table
      <3> QED BY <2>3, <2>5, <3>1
    <2> HIDE DEF table
    <2> QED BY <2>4, <2>5, <2>6, PruneDropsClosedFirst
  <1> QED BY <1>1, TypeCorrect, PTL DEF Spec, OverflowDropsClosedFirst
=============================================================================
