-------------------------- MODULE TurnLease_proofs --------------------------
(***************************************************************************)
(* Machine-checked proofs about TurnLease, for any finite sets of turns    *)
(* and sessions and any cap on the registry.                               *)
(***************************************************************************)
EXTENDS TurnLease, FiniteSetTheorems, TLAPS

USE TurnsFinite, NoLeaseIsNoTurn

(***************************************************************************)
(* Counting                                                                *)
(***************************************************************************)
LEMMA UsersFinite ==
  ASSUME NEW STATE l
  PROVE  IsFiniteSet(Users(l)) /\ Cardinality(Users(l)) \in Nat
  <1>1. Users(l) \subseteq Turns
    BY DEF Users
  <1> QED BY <1>1, FS_Subset, FS_CardinalityType

\* An idle lease is used by nobody.
LEMMA IdleUnused ==
  ASSUME Inv, NEW l \in Turns, Idle(l), NEW t \in Turns,
         stage[t] \in Acquiring \cup {"running"}
  PROVE  lease[t] # l
  <1>1. Cardinality(Users(l)) = 0
    BY DEF Idle, Inv, Counted
  <1>2. Users(l) = {}
    BY <1>1, UsersFinite, FS_EmptySet
  <1>3. CASE stage[t] = "running"
    BY <1>3 DEF Inv, HolderRuns, Idle
  <1>4. CASE stage[t] \in Acquiring
    BY <1>4, <1>2 DEF Users
  <1> QED BY <1>3, <1>4

\* An attempt that begins is counted, and no other is.
LEMMA CountIn ==
  ASSUME Inv, NEW t \in Turns, NEW l \in Turns, stage[t] = "new", Enter(t, l)
  PROVE  pending' \in [Turns -> Nat] /\ Counted'
  <1>1. ASSUME NEW k \in Turns, k # l
        PROVE  Users(k)' = Users(k)
    BY <1>1 DEF Enter, Users, Inv, TypeOK, Acquiring, InDeque
  <1>2. Users(l)' = Users(l) \cup {t} /\ t \notin Users(l)
    BY DEF Enter, Users, Inv, TypeOK, Acquiring, InDeque
  <1>3. Cardinality(Users(l)') = Cardinality(Users(l)) + 1
    BY <1>2, UsersFinite, FS_AddElement
  <1>4. pending'[l] = pending[l] + 1 /\ \A k \in Turns : k # l => pending'[k] = pending[k]
    BY DEF Enter, Inv, TypeOK
  <1>5. pending' \in [Turns -> Nat]
    <2>1. \A k \in Turns : pending'[k] \in Nat
      BY <1>4 DEF Inv, TypeOK
    <2> QED BY <2>1 DEF Enter, Inv, TypeOK
  <1>6. ASSUME NEW k \in Turns
        PROVE  pending'[k] = Cardinality(Users(k)')
    <2>1. pending[k] = Cardinality(Users(k))
      BY DEF Inv, Counted
    <2>2. CASE k = l
      BY <2>1, <2>2, <1>3, <1>4
    <2>3. CASE k # l
      BY <2>1, <2>3, <1>1, <1>4
    <2> QED BY <2>2, <2>3
  <1> QED BY <1>5, <1>6 DEF Counted, Users

\* An attempt that ends is uncounted, and no other is.
LEMMA CountOut ==
  ASSUME Inv, NEW t \in Turns, stage[t] \in Acquiring, Uncount(lease[t]), lease' = lease,
         stage'[t] \notin Acquiring,
         \A u \in Turns \ {t} : stage'[u] \in Acquiring <=> stage[u] \in Acquiring
  PROVE  pending' \in [Turns -> Nat] /\ Counted'
  <1>0. lease[t] \in Turns
    BY DEF Inv, Linked
  <1>1. ASSUME NEW k \in Turns, k # lease[t]
        PROVE  Users(k)' = Users(k)
    BY <1>1 DEF Users
  <1>2. Users(lease[t])' = Users(lease[t]) \ {t} /\ t \in Users(lease[t])
    BY DEF Users
  <1>3. Cardinality(Users(lease[t])') = Cardinality(Users(lease[t])) - 1
    BY <1>2, UsersFinite, FS_RemoveElement
  <1>4. /\ pending'[lease[t]] = pending[lease[t]] - 1
        /\ \A k \in Turns : k # lease[t] => pending'[k] = pending[k]
    BY <1>0 DEF Uncount, Inv, TypeOK
  <1>5. ASSUME NEW k \in Turns
        PROVE  pending'[k] = Cardinality(Users(k)') /\ pending'[k] \in Nat
    <2>1. pending[k] = Cardinality(Users(k)) /\ pending[k] \in Nat
      BY DEF Inv, Counted, TypeOK
    <2>2. CASE k = lease[t]
      <3>1. IsFiniteSet(Users(lease[t])')
        BY <1>2, UsersFinite, FS_RemoveElement
      <3>2. Cardinality(Users(lease[t])') \in Nat
        BY <3>1, FS_CardinalityType
      <3> QED BY <2>1, <2>2, <1>3, <1>4, <3>2
    <2>3. CASE k # lease[t]
      BY <2>1, <2>3, <1>1, <1>4
    <2> QED BY <2>2, <2>3
  <1>6. pending' \in [Turns -> Nat]
    BY <1>5 DEF Uncount, Inv, TypeOK
  <1> QED BY <1>5, <1>6 DEF Counted, Users

\* While nobody starts or stops acquiring, the counts stand.
LEMMA CountSame ==
  ASSUME Inv, pending' = pending, lease' = lease,
         \A u \in Turns : stage'[u] \in Acquiring <=> stage[u] \in Acquiring
  PROVE  pending' \in [Turns -> Nat] /\ Counted'
  <1>1. \A k \in Turns : Users(k)' = Users(k)
    BY DEF Users
  <1>2. \A k \in Turns : pending'[k] = Cardinality(Users(k)')
    BY <1>1 DEF Inv, Counted
  <1> QED BY <1>2 DEF Inv, TypeOK, Counted, Users

(***************************************************************************)
(* A new attempt                                                           *)
(***************************************************************************)

\* What both forms of the request rest on: the registry entry of the session
\* is the lease l, and every lease in use keeps its entries.
LEMMA EnterKeepsInv ==
  ASSUME Inv, NEW t \in Turns, NEW l \in Turns, stage[t] = "new", Enter(t, l),
         registry' \in [Sessions -> Turns \cup {NoLease}],
         registry'[session[t]] = l,
         l = t \/ \E s \in Sessions : registry[s] = l,
         \A s \in Sessions : registry'[s] \in {registry[s], NoLease, l},
         \A s \in Sessions : registry'[s] = l => registry[s] = l \/ s = session[t],
         \A u \in Turns : stage[u] \in Acquiring \cup {"running"}
                              => registry'[session[u]] = registry[session[u]]
  PROVE  Inv'
  <1> USE DEF Enter, Inv
  <1>1. pending' \in [Turns -> Nat] /\ Counted'
    BY CountIn
  <1>2. stage' = [u \in Turns |-> IF u = t THEN "asked" ELSE stage[u]]
    BY DEF TypeOK
  <1>3. lease' = [u \in Turns |-> IF u = t THEN l ELSE lease[u]]
    BY DEF TypeOK
  <1>4. TypeOK'
    BY <1>1 DEF TypeOK, Stages, Acquiring
  <1>5. Linked'
    BY <1>2, <1>3 DEF Linked, Acquiring, InDeque
  <1>6. HolderRuns'
    BY <1>2, <1>3 DEF HolderRuns, Fresh
  <1>7. LockTaken' /\ LockOwned' /\ OneOwner'
    BY <1>2, <1>3 DEF LockTaken, LockOwned, OneOwner
  <1>8. \A k \in Turns : Waiting(k)' = Waiting(k)
    BY <1>2, <1>3 DEF Waiting, InDeque
  <1>9. WokenIsFirst'
    <2> SUFFICES ASSUME NEW u \in Turns, stage'[u] \in {"woken", "doomed"}
                 PROVE  ~locked'[lease'[u]] /\ ahead'[u] \cap Waiting(lease[u])' = {}
                        /\ lease'[u] = lease[u]
      BY DEF WokenIsFirst
    <2>1. u # t /\ stage[u] = stage'[u] /\ lease'[u] = lease[u] /\ lease[u] \in Turns
      BY <1>2, <1>3 DEF Linked, Acquiring, InDeque
    <2> QED BY <2>1, <1>8 DEF WokenIsFirst
  <1>10. Ordered'
    BY <1>2, <1>3 DEF Ordered, InDeque
  <1>11. Fresh'
    BY <1>2, <1>3 DEF Fresh
  <1> QED BY <1>1, <1>4, <1>5, <1>6, <1>7, <1>9, <1>10, <1>11

LEMMA AskKnownStep ==
  ASSUME Inv, NEW t \in Turns, AskKnown(t)
  PROVE  Inv'
  <1>1. session[t] \in Sessions /\ registry[session[t]] \in Turns
    BY DEF AskKnown, Inv, TypeOK
  <1> QED BY <1>1, EnterKeepsInv DEF AskKnown, Inv, TypeOK

LEMMA AskNewStep ==
  ASSUME Inv, NEW t \in Turns, AskNew(t)
  PROVE  Inv'
  <1>1. PICK gone \in Evictions :
          registry' = [s \in Sessions |-> IF s = session[t] THEN t
                                          ELSE IF s \in gone THEN NoLease ELSE registry[s]]
    BY DEF AskNew
  <1>2. \A s \in gone : s \in Sessions /\ registry[s] \in Turns /\ Idle(registry[s])
    BY DEF Evictions, IdleSessions, Registered, Inv, TypeOK
  <1>3. session[t] \in Sessions /\ registry[session[t]] = NoLease /\ stage[t] = "new" /\ Enter(t, t)
    BY DEF AskNew, Inv, TypeOK
  <1>4. registry' \in [Sessions -> Turns \cup {NoLease}] /\ registry'[session[t]] = t
    BY <1>1, <1>3 DEF Inv, TypeOK
  <1>5. \A s \in Sessions : registry'[s] \in {registry[s], NoLease, t}
    BY <1>1
  <1>6. \A s \in Sessions : registry'[s] = t => registry[s] = t \/ s = session[t]
    BY <1>1
  <1>7. ASSUME NEW u \in Turns, stage[u] \in Acquiring \cup {"running"}
        PROVE  registry'[session[u]] = registry[session[u]]
    <2>1. lease[u] \in Turns /\ registry[session[u]] = lease[u] /\ session[u] \in Sessions
      BY <1>7 DEF Inv, Linked, TypeOK
    <2>2. session[u] # session[t]
      BY <2>1, <1>3
    <2>3. session[u] \notin gone
      BY <2>1, <1>2, <1>7, IdleUnused
    <2> QED BY <2>1, <2>2, <2>3, <1>1
  <1> QED BY <1>3, <1>4, <1>5, <1>6, <1>7, EnterKeepsInv

(***************************************************************************)
(* The lock                                                                *)
(***************************************************************************)
LEMMA TryLockStep ==
  ASSUME Inv, NEW t \in Turns, TryLock(t)
  PROVE  Inv'
  <1> USE DEF Inv
  <1>0. stage[t] = "asked" /\ lease[t] \in Turns /\ session[t] \in Sessions
    BY DEF TryLock, Linked, Acquiring, TypeOK
  <1>1. CASE ~locked[lease[t]] /\ \A u \in Waiting(lease[t]) : stage[u] = "cancelled"
    <2>1. /\ locked' = [locked EXCEPT ![lease[t]] = TRUE]
          /\ stage' = [stage EXCEPT ![t] = "granted"]
          /\ UNCHANGED <<registry, holder, pending, session, lease, ahead>>
      BY <1>1 DEF TryLock
    <2>2. stage' = [u \in Turns |-> IF u = t THEN "granted" ELSE stage[u]]
      BY <2>1 DEF TypeOK
    <2>3. pending' \in [Turns -> Nat] /\ Counted'
      BY <2>1, <2>2, <1>0, CountSame DEF Acquiring, InDeque
    <2>4. TypeOK'
      BY <2>1, <2>3 DEF TypeOK, Stages, Acquiring
    <2>5. Linked' /\ HolderRuns'
      BY <2>1, <2>2, <1>0 DEF Linked, HolderRuns, Acquiring, InDeque
    <2>6. LockTaken' /\ LockOwned' /\ OneOwner'
      BY <2>1, <2>2, <1>0, <1>1 DEF LockTaken, LockOwned, OneOwner, TypeOK, Linked, Acquiring
    <2>7. \A k \in Turns : Waiting(k)' = Waiting(k)
      BY <2>1, <2>2, <1>0 DEF Waiting, InDeque
    <2>8. WokenIsFirst'
      <3> SUFFICES ASSUME NEW u \in Turns, stage'[u] \in {"woken", "doomed"}
                   PROVE  ~locked'[lease[u]] /\ ahead[u] \cap Waiting(lease[u])' = {}
        BY <2>1 DEF WokenIsFirst, Waiting
      <3>1. stage[u] = stage'[u] /\ lease[u] \in Turns
        BY <2>2 DEF Linked, Acquiring, InDeque
      <3>2. lease[u] # lease[t]
        BY <3>1, <1>1 DEF Waiting, InDeque
      <3> QED BY <3>1, <3>2, <2>1, <2>7 DEF WokenIsFirst, TypeOK
    <2>9. Ordered'
      BY <2>1, <2>2, <1>0 DEF Ordered, InDeque
    <2>10. Fresh'
      BY <2>1, <2>2, <1>0 DEF Fresh, TypeOK
    <2> QED BY <2>3, <2>4, <2>5, <2>6, <2>8, <2>9, <2>10
  <1>2. CASE ~(~locked[lease[t]] /\ \A u \in Waiting(lease[t]) : stage[u] = "cancelled")
    <2>1. /\ stage' = [stage EXCEPT ![t] = "queued"]
          /\ ahead' = [ahead EXCEPT ![t] = Waiting(lease[t])]
          /\ UNCHANGED <<registry, locked, holder, pending, session, lease>>
      BY <1>2 DEF TryLock
    <2>2. stage' = [u \in Turns |-> IF u = t THEN "queued" ELSE stage[u]]
      BY <2>1 DEF TypeOK
    <2>3. ahead' = [u \in Turns |-> IF u = t THEN Waiting(lease[t]) ELSE ahead[u]]
      BY <2>1 DEF TypeOK
    <2>4. pending' \in [Turns -> Nat] /\ Counted'
      BY <2>1, <2>2, <1>0, CountSame DEF Acquiring, InDeque
    <2>5. TypeOK'
      BY <2>1, <2>2, <2>3, <2>4 DEF TypeOK, Stages, Acquiring, InDeque, Waiting
    <2>6. Linked' /\ HolderRuns' /\ LockTaken' /\ LockOwned' /\ OneOwner'
      BY <2>1, <2>2, <1>0 DEF Linked, HolderRuns, LockTaken, LockOwned, OneOwner, Acquiring, InDeque
    <2>7. WokenIsFirst'
      <3> SUFFICES ASSUME NEW u \in Turns, stage'[u] \in {"woken", "doomed"}
                   PROVE  ~locked[lease[u]] /\ ahead'[u] \cap Waiting(lease[u])' = {}
        BY <2>1 DEF WokenIsFirst, Waiting
      <3>1. u # t /\ stage[u] = stage'[u] /\ ahead'[u] = ahead[u]
        BY <2>2, <2>3
      <3>2. t \notin ahead[u]
        BY <1>0 DEF Ordered
      <3>3. Waiting(lease[u])' \subseteq Waiting(lease[u]) \cup {t}
        BY <2>1, <2>2 DEF Waiting
      <3> QED BY <3>1, <3>2, <3>3 DEF WokenIsFirst
    <2>8. Ordered'
      BY <2>1, <2>2, <2>3, <1>0 DEF Ordered, Waiting, InDeque
    <2>9. Fresh'
      BY <2>1, <2>2, <1>0 DEF Fresh
    <2> QED BY <2>4, <2>5, <2>6, <2>7, <2>8, <2>9
  <1> QED BY <1>1, <1>2

LEMMA ResumeStep ==
  ASSUME Inv, NEW t \in Turns, Resume(t)
  PROVE  Inv'
  <1> USE DEF Inv
  <1>0. stage[t] = "woken" /\ lease[t] \in Turns
    BY DEF Resume, Linked, Acquiring, InDeque
  <1>1. stage' = [u \in Turns |-> IF u = t THEN "granted" ELSE stage[u]]
    BY DEF Resume, TypeOK
  <1>2. /\ locked' = [locked EXCEPT ![lease[t]] = TRUE]
        /\ UNCHANGED <<registry, holder, pending, session, lease, ahead>>
    BY DEF Resume
  <1>3. pending' \in [Turns -> Nat] /\ Counted'
    BY <1>0, <1>1, <1>2, CountSame DEF Acquiring, InDeque
  <1>4. TypeOK'
    BY <1>1, <1>2, <1>3 DEF TypeOK, Stages, Acquiring
  <1>5. Linked' /\ HolderRuns'
    BY <1>0, <1>1, <1>2 DEF Linked, HolderRuns, Acquiring, InDeque
  <1>6. ~locked[lease[t]]
    BY <1>0 DEF WokenIsFirst
  <1>7. LockTaken' /\ LockOwned' /\ OneOwner'
    BY <1>0, <1>1, <1>2, <1>6 DEF LockTaken, LockOwned, OneOwner, TypeOK, Linked, Acquiring
  <1>8. WokenIsFirst'
    <2> SUFFICES ASSUME NEW u \in Turns, stage'[u] \in {"woken", "doomed"}
                 PROVE  ~locked'[lease[u]] /\ ahead[u] \cap Waiting(lease[u])' = {}
      BY <1>2 DEF WokenIsFirst, Waiting
    <2>1. u # t /\ stage[u] = stage'[u] /\ lease[u] \in Turns
      BY <1>1 DEF Linked, Acquiring, InDeque
    <2>2. ASSUME lease[u] = lease[t] PROVE FALSE
      <3>1. t \in Waiting(lease[u]) /\ u \in Waiting(lease[t])
        BY <2>1, <2>2, <1>0 DEF Waiting, InDeque
      <3>2. t \notin ahead[u] /\ u \notin ahead[t]
        BY <3>1, <2>1, <1>0 DEF WokenIsFirst
      <3> QED BY <3>2, <2>1, <2>2, <1>0 DEF Ordered, InDeque
    <2>3. Waiting(lease[u])' \subseteq Waiting(lease[u])
      BY <1>1, <1>2 DEF Waiting, InDeque
    <2> QED BY <2>1, <2>2, <2>3, <1>2 DEF WokenIsFirst, TypeOK
  <1>9. Ordered'
    BY <1>0, <1>1, <1>2 DEF Ordered, InDeque
  <1>10. Fresh'
    BY <1>0, <1>1, <1>2 DEF Fresh, TypeOK
  <1> QED BY <1>3, <1>4, <1>5, <1>7, <1>8, <1>9, <1>10

\* A cancelled waiter stays in the deque, and stays counted.
LEMMA WaitExpiresStep ==
  ASSUME Inv, NEW t \in Turns, WaitExpires(t)
  PROVE  Inv'
  <1> USE DEF Inv
  <1>1. PICK s \in {"cancelled", "doomed"} :
          /\ stage' = [stage EXCEPT ![t] = s]
          /\ stage[t] \in {"queued", "woken"}
          /\ s = "doomed" => stage[t] = "woken"
    BY DEF WaitExpires
  <1>2. stage' = [u \in Turns |-> IF u = t THEN s ELSE stage[u]]
    BY <1>1 DEF TypeOK
  <1>3. UNCHANGED <<registry, locked, holder, pending, session, lease, ahead>>
    BY DEF WaitExpires
  <1>4. pending' \in [Turns -> Nat] /\ Counted'
    BY <1>1, <1>2, <1>3, CountSame DEF Acquiring, InDeque
  <1>5. TypeOK'
    BY <1>2, <1>3, <1>4 DEF TypeOK, Stages, Acquiring, InDeque
  <1>6. Linked' /\ HolderRuns' /\ LockTaken' /\ LockOwned' /\ OneOwner'
    BY <1>1, <1>2, <1>3 DEF Linked, HolderRuns, LockTaken, LockOwned, OneOwner, Acquiring, InDeque
  <1>7. \A k \in Turns \cup {NoLease} : Waiting(k)' = Waiting(k)
    BY <1>1, <1>2, <1>3 DEF Waiting, InDeque
  <1>8. WokenIsFirst'
    BY <1>1, <1>2, <1>3, <1>7 DEF WokenIsFirst, Linked, Acquiring, InDeque, TypeOK
  <1>9. Ordered' /\ Fresh'
    BY <1>1, <1>2, <1>3 DEF Ordered, Fresh, InDeque
  <1> QED BY <1>4, <1>5, <1>6, <1>8, <1>9

LEMMA RefusedEarlyStep ==
  ASSUME Inv, NEW t \in Turns, RefusedEarly(t)
  PROVE  Inv'
  <1> USE DEF Inv
  <1>1. stage[t] = "asked" /\ Uncount(lease[t])
        /\ UNCHANGED <<registry, locked, holder, session, lease, ahead>>
    BY DEF RefusedEarly
  <1>2. stage' = [u \in Turns |-> IF u = t THEN "refused" ELSE stage[u]]
    BY DEF RefusedEarly, TypeOK
  <1>3. pending' \in [Turns -> Nat] /\ Counted'
    BY <1>1, <1>2, CountOut DEF Acquiring, InDeque
  <1>4. TypeOK'
    BY <1>1, <1>2, <1>3 DEF TypeOK, Stages
  <1>5. Linked' /\ HolderRuns' /\ LockTaken' /\ LockOwned' /\ OneOwner'
    BY <1>1, <1>2 DEF Linked, HolderRuns, LockTaken, LockOwned, OneOwner, Acquiring, InDeque
  <1>6. \A k \in Turns \cup {NoLease} : Waiting(k)' = Waiting(k)
    BY <1>1, <1>2 DEF Waiting, InDeque
  <1>7. WokenIsFirst'
    BY <1>1, <1>2, <1>6 DEF WokenIsFirst, TypeOK
  <1>8. Ordered' /\ Fresh'
    BY <1>1, <1>2 DEF Ordered, Fresh, InDeque
  <1> QED BY <1>3, <1>4, <1>5, <1>7, <1>8

LEMMA PublishStep ==
  ASSUME Inv, NEW t \in Turns, Publish(t)
  PROVE  Inv'
  <1> USE DEF Inv
  <1>1. stage[t] = "granted" /\ Uncount(lease[t]) /\ lease[t] \in Turns
        /\ UNCHANGED <<registry, locked, session, lease, ahead>>
    BY DEF Publish, Linked, Acquiring
  <1>2. stage' = [u \in Turns |-> IF u = t THEN "running" ELSE stage[u]]
    BY DEF Publish, TypeOK
  <1>3. holder' = [l \in Turns |-> IF l = lease[t] THEN t ELSE holder[l]]
    BY DEF Publish, TypeOK
  <1>4. pending' \in [Turns -> Nat] /\ Counted'
    BY <1>1, <1>2, CountOut DEF Acquiring, InDeque
  <1>5. TypeOK'
    BY <1>1, <1>2, <1>3, <1>4 DEF TypeOK, Stages
  <1>6. Linked' /\ LockTaken' /\ LockOwned' /\ OneOwner'
    BY <1>1, <1>2 DEF Linked, LockTaken, LockOwned, OneOwner, Acquiring, InDeque
  <1>7. HolderRuns'
    BY <1>1, <1>2, <1>3 DEF HolderRuns, OneOwner
  <1>8. \A k \in Turns \cup {NoLease} : Waiting(k)' = Waiting(k)
    BY <1>1, <1>2 DEF Waiting, InDeque
  <1>9. WokenIsFirst'
    BY <1>1, <1>2, <1>8 DEF WokenIsFirst, TypeOK
  <1>10. Ordered' /\ Fresh'
    BY <1>1, <1>2 DEF Ordered, Fresh, InDeque
  <1> QED BY <1>4, <1>5, <1>6, <1>7, <1>9, <1>10

\* What a step that wakes the first waiter does to the stages.
LEMMA WakeStages ==
  ASSUME Inv, NEW t \in Turns, NEW to \in {"refused", "done", "displaced"},
         lease[t] \in Turns, WakeFirst(t, to), lease' = lease
  PROVE  /\ stage' \in [Turns -> Stages]
         /\ stage'[t] = to
         /\ \A u \in Turns \ {t} :
               \/ stage'[u] = stage[u]
               \/ /\ stage[u] = "queued" /\ stage'[u] = "woken"
                  /\ lease[u] = lease[t]
                  /\ ahead[u] \cap (Waiting(lease[t]) \ {t}) = {}
         /\ \A k \in Turns : Waiting(k)' = Waiting(k) \ {t}
  <1>1. stage' = [u \in Turns |->
                    IF u = t THEN to
                    ELSE IF First(u, lease[t], {t}) /\ stage[u] = "queued" THEN "woken"
                    ELSE stage[u]]
    BY DEF WakeFirst
  <1>2. stage' \in [Turns -> Stages] /\ stage'[t] = to
    BY <1>1 DEF Inv, TypeOK, Stages, Acquiring, InDeque
  <1>3. \A u \in Turns \ {t} :
               \/ stage'[u] = stage[u]
               \/ /\ stage[u] = "queued" /\ stage'[u] = "woken"
                  /\ lease[u] = lease[t]
                  /\ ahead[u] \cap (Waiting(lease[t]) \ {t}) = {}
    BY <1>1 DEF First, Waiting
  <1>4. \A k \in Turns : Waiting(k)' = Waiting(k) \ {t}
    BY <1>2, <1>3 DEF Waiting, InDeque
  <1> QED BY <1>2, <1>3, <1>4

LEMMA RefusedStep ==
  ASSUME Inv, NEW t \in Turns, Refused(t)
  PROVE  Inv'
  <1> USE DEF Inv
  <1>1. stage[t] \in {"cancelled", "doomed"} /\ Uncount(lease[t]) /\ lease[t] \in Turns
        /\ UNCHANGED <<registry, locked, holder, session, lease, ahead>>
    BY DEF Refused, Linked, Acquiring, InDeque
  <1>2. /\ stage' \in [Turns -> Stages]
        /\ stage'[t] = "refused"
        /\ \A u \in Turns \ {t} :
              \/ stage'[u] = stage[u]
              \/ /\ stage[u] = "queued" /\ stage'[u] = "woken"
                 /\ lease[u] = lease[t] /\ ~locked[lease[t]]
                 /\ ahead[u] \cap (Waiting(lease[t]) \ {t}) = {}
        /\ \A k \in Turns : Waiting(k)' = Waiting(k) \ {t}
    <2>1. CASE locked[lease[t]]
      <3>1. stage' = [u \in Turns |-> IF u = t THEN "refused" ELSE stage[u]]
        BY <2>1 DEF Refused, TypeOK
      <3> QED BY <3>1, <1>1 DEF TypeOK, Stages, Waiting, InDeque
    <2>2. CASE ~locked[lease[t]]
      <3>1. WakeFirst(t, "refused")
        BY <2>2 DEF Refused
      <3> QED BY <3>1, <2>2, <1>1, WakeStages
    <2> QED BY <2>1, <2>2
  <1>3. pending' \in [Turns -> Nat] /\ Counted'
    BY <1>1, <1>2, CountOut DEF Acquiring, InDeque
  <1>4. TypeOK'
    BY <1>1, <1>2, <1>3 DEF TypeOK
  <1>5. Linked' /\ HolderRuns' /\ LockTaken' /\ LockOwned' /\ OneOwner'
    BY <1>1, <1>2 DEF Linked, HolderRuns, LockTaken, LockOwned, OneOwner, Acquiring, InDeque
  <1>6. WokenIsFirst'
    <2> SUFFICES ASSUME NEW u \in Turns, stage'[u] \in {"woken", "doomed"}
                 PROVE  ~locked[lease[u]] /\ ahead[u] \cap Waiting(lease[u])' = {}
      BY <1>1 DEF WokenIsFirst, Waiting
    <2>1. u # t
      BY <1>2
    <2>2. CASE stage'[u] = stage[u]
      <3>1. lease[u] \in Turns /\ ~locked[lease[u]] /\ ahead[u] \cap Waiting(lease[u]) = {}
        BY <2>2 DEF Linked, Acquiring, InDeque, WokenIsFirst
      <3>2. PICK k \in Turns : k = lease[u] /\ k = lease'[u]
        BY <3>1, <1>1
      <3>3. Waiting(k)' = Waiting(k) \ {t}
        BY <1>2
      <3> QED BY <3>1, <3>2, <3>3 DEF Waiting
    <2>3. CASE stage'[u] # stage[u]
      BY <2>1, <2>3, <1>1, <1>2
    <2> QED BY <2>2, <2>3
  <1>7. Ordered'
    BY <1>1, <1>2 DEF Ordered, InDeque
  <1>8. Fresh'
    BY <1>1, <1>2 DEF Fresh
  <1> QED BY <1>3, <1>4, <1>5, <1>6, <1>7, <1>8

(***************************************************************************)
(* The turn                                                                *)
(***************************************************************************)
LEMMA RebindStep ==
  ASSUME Inv, NEW t \in Turns, NEW s \in Sessions, Rebind(t, s)
  PROVE  Inv'
  <1> USE DEF Inv
  <1>1. /\ stage[t] = "running" /\ lease[t] \in Turns /\ ~Blocked(lease[t], s)
        /\ UNCHANGED <<locked, holder, pending, stage, lease, ahead>>
    BY DEF Rebind, Linked
  <1>2. registry' = [r \in Sessions |-> IF r = s THEN lease[t] ELSE registry[r]]
    BY DEF Rebind, TypeOK
  <1>3. session' = [u \in Turns |-> IF u = t THEN s ELSE session[u]]
    BY DEF Rebind, TypeOK
  <1>4. pending' \in [Turns -> Nat] /\ Counted'
    BY <1>1, CountSame
  <1>5. TypeOK'
    BY <1>1, <1>2, <1>3, <1>4 DEF TypeOK
  <1>6. Linked'
    <2> SUFFICES ASSUME NEW u \in Turns, stage[u] \in Acquiring \cup {"running"}
                 PROVE  lease[u] \in Turns /\ registry'[session'[u]] = lease[u]
      BY <1>1 DEF Linked
    <2>1. /\ lease[u] \in Turns /\ session[u] \in Sessions
          /\ registry[session[u]] = lease[u]
      BY DEF Linked, TypeOK
    <2>2. CASE u = t
      BY <2>1, <2>2, <1>2, <1>3
    <2>3. CASE u # t /\ session[u] # s
      BY <2>1, <2>3, <1>2, <1>3
    <2>4. CASE u # t /\ session[u] = s
      <3>1. registry[s] = lease[t] \/ Idle(registry[s])
        BY <2>1, <2>4, <1>1 DEF Blocked
      <3>2. ~Idle(registry[s])
        BY <2>1, <2>4, IdleUnused
      <3> QED BY <3>1, <3>2, <2>1, <2>4, <1>2, <1>3
    <2> QED BY <2>2, <2>3, <2>4
  <1>7. HolderRuns' /\ LockTaken' /\ LockOwned' /\ OneOwner'
    BY <1>1 DEF HolderRuns, LockTaken, LockOwned, OneOwner
  <1>8. WokenIsFirst' /\ Ordered'
    BY <1>1 DEF WokenIsFirst, Ordered, Waiting
  <1>9. Fresh'
    BY <1>1, <1>2 DEF Fresh
  <1> QED BY <1>4, <1>5, <1>6, <1>7, <1>8, <1>9

LEMMA ReleaseStep ==
  ASSUME Inv, NEW t \in Turns, NEW to \in {"done", "displaced"},
         stage[t] = "running", Release(t, to)
  PROVE  Inv'
  <1> USE DEF Inv
  <1>1. lease[t] \in Turns /\ holder[lease[t]] = t /\ locked[lease[t]]
    BY DEF Linked, HolderRuns, LockTaken
  <1>2. /\ holder' = [holder EXCEPT ![lease[t]] = NoLease]
        /\ locked' = [locked EXCEPT ![lease[t]] = FALSE]
        /\ WakeFirst(t, to)
        /\ UNCHANGED <<registry, pending, session, lease, ahead>>
    BY <1>1 DEF Release, Free
  <1>3. /\ stage' \in [Turns -> Stages]
        /\ stage'[t] = to
        /\ \A u \in Turns \ {t} :
              \/ stage'[u] = stage[u]
              \/ /\ stage[u] = "queued" /\ stage'[u] = "woken"
                 /\ lease[u] = lease[t]
                 /\ ahead[u] \cap (Waiting(lease[t]) \ {t}) = {}
        /\ \A k \in Turns : Waiting(k)' = Waiting(k) \ {t}
    BY <1>1, <1>2, WakeStages
  <1>4. pending' \in [Turns -> Nat] /\ Counted'
    BY <1>2, <1>3, CountSame DEF Acquiring, InDeque
  <1>5. TypeOK'
    BY <1>2, <1>3, <1>4 DEF TypeOK
  <1>6. Linked'
    BY <1>2, <1>3 DEF Linked, Acquiring, InDeque
  <1>7. HolderRuns'
    BY <1>1, <1>2, <1>3 DEF HolderRuns, TypeOK
  <1>8. LockTaken' /\ LockOwned' /\ OneOwner'
    BY <1>1, <1>2, <1>3 DEF LockTaken, LockOwned, OneOwner, TypeOK, Linked, Acquiring
  <1>9. WokenIsFirst'
    <2> SUFFICES ASSUME NEW u \in Turns, stage'[u] \in {"woken", "doomed"}
                 PROVE  ~locked'[lease[u]] /\ ahead[u] \cap Waiting(lease[u])' = {}
      BY <1>2 DEF WokenIsFirst, Waiting
    <2>1. u # t
      BY <1>3
    <2>2. CASE stage'[u] = stage[u]
      <3>1. lease[u] \in Turns /\ ~locked[lease[u]]
        BY <2>2 DEF Linked, Acquiring, InDeque, WokenIsFirst
      <3> QED BY <2>2, <3>1, <1>2, <1>3 DEF WokenIsFirst, TypeOK
    <2>3. CASE stage'[u] # stage[u]
      BY <2>1, <2>3, <1>1, <1>2, <1>3 DEF TypeOK
    <2> QED BY <2>2, <2>3
  <1>10. Ordered'
    BY <1>2, <1>3 DEF Ordered, InDeque
  <1>11. Fresh'
    BY <1>1, <1>2, <1>3 DEF Fresh, TypeOK
  <1> QED BY <1>4, <1>5, <1>6, <1>7, <1>8, <1>9, <1>10, <1>11

LEMMA UnwindStep ==
  ASSUME Inv, NEW t \in Turns, Unwind(t)
  PROVE  Inv'
  <1> USE DEF Inv
  <1>1. CASE stage[t] = "running" /\ Release(t, "done")
    BY <1>1, ReleaseStep
  <1>2. CASE /\ stage[t] = "displaced"
             /\ stage' = [stage EXCEPT ![t] = "done"]
             /\ UNCHANGED <<registry, locked, holder, pending, session, lease, ahead>>
    <2>1. stage' = [u \in Turns |-> IF u = t THEN "done" ELSE stage[u]]
      BY <1>2 DEF TypeOK
    <2>2. pending' \in [Turns -> Nat] /\ Counted'
      BY <1>2, <2>1, CountSame DEF Acquiring, InDeque
    <2>3. TypeOK' /\ Linked' /\ HolderRuns' /\ LockTaken' /\ LockOwned' /\ OneOwner'
      BY <1>2, <2>1 DEF TypeOK, Stages, Linked, HolderRuns, LockTaken, LockOwned, OneOwner, Acquiring, InDeque
    <2>4. \A k \in Turns \cup {NoLease} : Waiting(k)' = Waiting(k)
      BY <1>2, <2>1 DEF Waiting, InDeque
    <2>5. WokenIsFirst'
      BY <1>2, <2>1, <2>4 DEF WokenIsFirst, TypeOK
    <2>6. Ordered' /\ Fresh'
      BY <1>2, <2>1 DEF Ordered, Fresh, InDeque
    <2> QED BY <2>2, <2>3, <2>5, <2>6
  <1> QED BY <1>1, <1>2 DEF Unwind

(***************************************************************************)
(* The theorems                                                            *)
(***************************************************************************)
LEMMA InvStep == Inv /\ [Next]_vars => Inv'
  <1> SUFFICES ASSUME Inv, [Next]_vars
               PROVE  Inv'
    OBVIOUS
  <1>1. ASSUME NEW t \in Turns, AskKnown(t) PROVE Inv'
    BY <1>1, AskKnownStep
  <1>2. ASSUME NEW t \in Turns, AskNew(t) PROVE Inv'
    BY <1>2, AskNewStep
  <1>3. ASSUME NEW t \in Turns, TryLock(t) PROVE Inv'
    BY <1>3, TryLockStep
  <1>4. ASSUME NEW t \in Turns, Resume(t) PROVE Inv'
    BY <1>4, ResumeStep
  <1>5. ASSUME NEW t \in Turns, WaitExpires(t) PROVE Inv'
    BY <1>5, WaitExpiresStep
  <1>6. ASSUME NEW t \in Turns, RefusedEarly(t) PROVE Inv'
    BY <1>6, RefusedEarlyStep
  <1>7. ASSUME NEW t \in Turns, Refused(t) PROVE Inv'
    BY <1>7, RefusedStep
  <1>8. ASSUME NEW t \in Turns, Publish(t) PROVE Inv'
    BY <1>8, PublishStep
  <1>9. ASSUME NEW t \in Turns, NEW s \in Sessions, Rebind(t, s) PROVE Inv'
    BY <1>9, RebindStep
  <1>10. ASSUME NEW t \in Turns, Displace(t) PROVE Inv'
    BY <1>10, ReleaseStep DEF Displace
  <1>11. ASSUME NEW t \in Turns, Unwind(t) PROVE Inv'
    BY <1>11, UnwindStep
  <1>12. CASE UNCHANGED vars
    BY <1>12 DEF vars, Inv, TypeOK, Counted, Users, Linked, HolderRuns, LockTaken, LockOwned, OneOwner,
                 WokenIsFirst, Waiting, Ordered, Fresh
  <1> QED BY <1>1, <1>2, <1>3, <1>4, <1>5, <1>6, <1>7, <1>8, <1>9, <1>10, <1>11, <1>12 DEF Next

\* The lease stays coherent: every live acquire and turn uses the lease that
\* is registered for its session, the counter counts the attempts under way,
\* and the lock, its holder and its waiters agree.
THEOREM Coherence == Spec => []Inv
  <1>1. Init => Inv
    <2> SUFFICES ASSUME Init PROVE Inv
      OBVIOUS
    <2>1. TypeOK
      BY DEF Init, TypeOK, Stages
    <2>2. \A l \in Turns : Users(l) = {}
      BY DEF Init, Users, Acquiring, InDeque
    <2>3. Counted
      BY <2>2, FS_EmptySet DEF Init, Counted
    <2>4. /\ Linked /\ HolderRuns /\ LockTaken /\ LockOwned /\ OneOwner
          /\ WokenIsFirst /\ Ordered /\ Fresh
      BY DEF Init, Linked, HolderRuns, LockTaken, LockOwned, OneOwner, WokenIsFirst, Ordered, Fresh,
             Acquiring, InDeque
    <2> QED BY <2>1, <2>3, <2>4 DEF Inv
  <1> QED BY <1>1, InvStep, PTL DEF Spec

\* No two turns run on one session id at once (the promise of turn_lease.py),
\* for any number of turns and sessions and any cap.
THEOREM TurnsExclude == Spec => []MutualExclusion
  <1>1. Inv => MutualExclusion
    <2> SUFFICES ASSUME Inv, NEW t \in Turns, NEW u \in Turns, t # u,
                        stage[t] = "running", stage[u] = "running",
                        session[t] = session[u]
                 PROVE  FALSE
      BY DEF MutualExclusion
    <2>1. lease[t] = lease[u]
      BY DEF Inv, Linked
    <2> QED BY <2>1 DEF Inv, OneOwner
  <1> QED BY <1>1, Coherence, PTL

\* A lease nobody acquires or holds can be evicted: no failed, cancelled or
\* displaced turn pins it.
THEOREM NothingPinned == Spec => []NotPinned
  <1>1. Inv => NotPinned
    <2> SUFFICES ASSUME Inv, NEW l \in Turns, ~Idle(l)
                 PROVE  \E t \in Turns : lease[t] = l /\ stage[t] \in Acquiring \cup {"running"}
      BY DEF NotPinned
    <2>1. CASE holder[l] # NoLease
      BY <2>1 DEF Inv, TypeOK, HolderRuns
    <2>2. CASE locked[l]
      BY <2>2 DEF Inv, LockOwned, Acquiring
    <2>3. CASE pending[l] # 0
      <3>1. Cardinality(Users(l)) # 0
        BY <2>3 DEF Inv, Counted
      <3>2. Users(l) # {}
        BY <3>1, FS_EmptySet
      <3> QED BY <3>2 DEF Users
    <2> QED BY <2>1, <2>2, <2>3 DEF Idle
  <1> QED BY <1>1, Coherence, PTL

\* A new entry takes the place of those that were evicted: the registry is at its cap or below
\* it, or only busy entries are left beside the new one.
LEMMA AskNewCaps ==
  ASSUME Inv, NEW t \in Turns, AskNew(t)
  PROVE  \/ Cardinality(Registered') <= MaxEntries
         \/ \A s \in Registered' \ {session[t]} : ~Idle(registry[s])
  <1> DEFINE n == session[t]
  <1>1. n \in Sessions /\ registry \in [Sessions -> Turns \cup {NoLease}] /\ registry[n] = NoLease
    BY DEF AskNew, Inv, TypeOK
  <1>2. PICK gone \in Evictions :
          registry' = [s \in Sessions |-> IF s = n THEN t ELSE IF s \in gone THEN NoLease ELSE registry[s]]
    BY DEF AskNew
  <1>3. gone \subseteq IdleSessions /\ IdleSessions \subseteq Registered /\ Registered \subseteq Sessions
    BY DEF Evictions, IdleSessions, Registered
  <1>4. Registered' = (Registered \ gone) \cup {n}
    BY <1>1, <1>2, <1>3 DEF Registered
  <1>5. /\ IsFiniteSet(Registered) /\ IsFiniteSet(gone) /\ IsFiniteSet(Registered \ gone)
        /\ Cardinality(Registered) \in Nat /\ Cardinality(gone) \in Nat /\ Cardinality(Registered \ gone) \in Nat
    <2>1. IsFiniteSet(Registered)
      BY <1>3, SessionsFinite, FS_Subset
    <2>2. IsFiniteSet(gone) /\ IsFiniteSet(Registered \ gone)
      <3>1. gone \subseteq Registered /\ Registered \ gone \subseteq Registered
        BY <1>3
      <3> QED BY <2>1, <3>1, FS_Subset
    <2> QED BY <2>1, <2>2, FS_CardinalityType
  <1>6. Cardinality(Registered \ gone) = Cardinality(Registered) - Cardinality(gone)
    <2>1. Cardinality(Registered \ gone) = Cardinality(Registered) - Cardinality(Registered \cap gone)
      BY <1>5, FS_Difference
    <2>2. Registered \cap gone = gone
      BY <1>3
    <2> QED BY <2>1, <2>2
  <1>7. Cardinality(Registered') = Cardinality(Registered \ gone) + 1
    <2>1. n \notin Registered \ gone
      BY <1>1 DEF Registered
    <2>2. Cardinality((Registered \ gone) \cup {n}) = Cardinality(Registered \ gone) + 1
      BY <1>5, <2>1, FS_AddElement
    <2> QED BY <1>4, <2>2
  <1>8. MaxEntries \in Nat
    BY MaxEntriesPositive
  <1>9. CASE Cardinality(gone) = Overflow
    BY <1>5, <1>6, <1>7, <1>8, <1>9 DEF Overflow
  <1>10. CASE Overflow <= 0 /\ gone = {}
    <2>1. Registered \ gone = Registered
      BY <1>10
    <2> QED BY <1>5, <1>7, <1>8, <1>10, <2>1 DEF Overflow
  <1>11. CASE gone = IdleSessions
    BY <1>4, <1>11 DEF IdleSessions
  <1> QED BY <1>9, <1>10, <1>11 DEF Evictions

\* A registry that outgrew its cap, by turns that held their leases or by rotations, is brought
\* back to it by the next new session, unless everything else is in use (_evict_idle).
THEOREM CapIsRestored == Spec => CapRestored
  <1>1. Inv /\ [Next]_vars =>
          [\A t \in Turns :
             AskNew(t) => \/ Cardinality(Registered') <= MaxEntries
                          \/ \A s \in Registered' \ {session[t]} : ~Idle(registry[s])]_vars
    BY AskNewCaps
  <1> QED BY <1>1, Coherence, PTL DEF Spec, CapRestored
=============================================================================
