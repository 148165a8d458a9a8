---------------------- MODULE SessionTranscript_proofs ----------------------
(***************************************************************************)
(* The chain of sessions, the lease and the rows of SessionTranscript, for *)
(* any turns, cleaners, messages and bounds.                               *)
(***************************************************************************)
EXTENDS SessionTranscript, FiniteSetTheorems, WellFoundedInduction, TLAPS

(***************************************************************************)
(* Least and greatest numbers                                              *)
(***************************************************************************)
LEMMA Least ==
  ASSUME NEW S, S \subseteq Nat, S # {}
  PROVE  \E m \in S : \A n \in S : m <= n
  <1> DEFINE R == {p \in Nat \X Nat : p[1] < p[2]}
  <1>1. IsWellFoundedOn(R, Nat)
    BY NatLessThanWellFounded DEF OpToRel
  <1>2. PICK m \in S : \A n \in S : ~ (<<n, m>> \in R)
    <2> HIDE DEF R
    <2> QED BY <1>1, WFMin
  <1>3. ASSUME NEW n \in S PROVE m <= n
    <2>1. m \in Nat /\ n \in Nat /\ ~ (<<n, m>> \in R)
      BY <1>2
    <2>2. ~ (n < m)
      BY <2>1 DEF R
    <2> QED BY <2>1, <2>2
  <1> QED BY <1>3

LEMMA Greatest ==
  ASSUME NEW S, S \subseteq Nat, S # {}, NEW b \in Nat, \A n \in S : n <= b
  PROVE  \E m \in S : \A n \in S : n <= m
  <1> DEFINE T == {k \in Nat : \A n \in S : n <= k}
  <1>1. T \subseteq Nat /\ T # {}
    OBVIOUS
  <1>2. PICK m \in T : \A n \in T : m <= n
    <2> HIDE DEF T
    <2> QED BY <1>1, Least
  <1>3. SUFFICES ASSUME m \notin S PROVE FALSE
    BY <1>2 DEF T
  <1>4. \A n \in S : n \in Nat /\ n < m
    BY <1>2, <1>3 DEF T
  <1>5. PICK n \in S : TRUE
    OBVIOUS
  <1>6. m \in Nat /\ m - 1 \in Nat
    BY <1>2, <1>4, <1>5 DEF T
  <1>7. \A j \in S : j <= m - 1
    BY <1>4, <1>6
  <1>8. m - 1 \in T
    BY <1>6, <1>7 DEF T
  <1>9. m <= m - 1
    BY <1>2, <1>8
  <1> QED BY <1>6, <1>9

(***************************************************************************)
(* The chain of sessions                                                   *)
(***************************************************************************)
LEMMA Numbers ==
  /\ MaxSegments \in Nat \ {0} /\ Segments = 1 .. MaxSegments /\ 1 \in Segments
  /\ Segments \subseteq Nat /\ \A s \in Segments : s <= MaxSegments /\ 1 <= s
  /\ \A s \in Segments : s # 1 => s - 1 \in Segments
  BY ConstantsAssumption DEF Segments

\* The used sessions are the first ones, and all but the last of them are rotated.
Last(m) ==
  /\ m \in Segments /\ Used(m) /\ ~Rotated(m)
  /\ \A s \in Segments : /\ Used(s) <=> s <= m
                         /\ Rotated(s) <=> s < m
                         /\ s < m => s + 1 \in Segments /\ Continuations(s) = {s + 1}

LEMMA Chain ==
  ASSUME Chained
  PROVE  \E m \in Segments : Last(m)
  <1> DEFINE U == {s \in Segments : Used(s)}
  <1>1. U \subseteq Nat /\ U # {} /\ \A n \in U : n <= MaxSegments
    BY Numbers DEF Chained
  <1>2. PICK m \in U : \A n \in U : n <= m
    <2> HIDE DEF U
    <2> QED BY <1>1, Greatest, Numbers
  <1>3. m \in Segments /\ Used(m) /\ m \in Nat /\ \A s \in Segments : Used(s) => s <= m
    BY <1>2, Numbers
  <1>4. ~Rotated(m)
    BY <1>3 DEF Chained
  <1>5. ASSUME NEW s \in Segments, s <= m PROVE Used(s)
    <2> DEFINE D == {d \in Segments : d <= m /\ ~Used(d)}
    <2> SUFFICES ASSUME D # {} PROVE FALSE
      BY <1>5
    <2>1. D \subseteq Nat /\ \A n \in D : n <= MaxSegments
      BY Numbers
    <2>2. PICK d \in D : \A n \in D : n <= d
      <3> HIDE DEF D
      <3> QED BY <2>1, Greatest, Numbers
    <2>3. d \in Segments /\ d \in Nat /\ ~Used(d) /\ d < m
      BY <1>3, <2>2, Numbers
    <2>4. d + 1 \in Segments /\ d + 1 <= m /\ d + 1 # 1
      BY <1>3, <2>3, Numbers
    <2>5. Used(d + 1)
      BY <2>2, <2>3, <2>4
    <2>6. Rotated(d)
      BY <2>3, <2>4, <2>5 DEF Chained
    <2> QED BY <2>3, <2>6 DEF Used, Rotated
  <1>6. ASSUME NEW s \in Segments, s < m PROVE Rotated(s) /\ s + 1 \in Segments
    <2>1. s \in Nat /\ s + 1 \in Segments /\ s + 1 <= m /\ s + 1 # 1 /\ (s + 1) - 1 = s
      BY <1>3, <1>6, Numbers
    <2>2. Used(s + 1)
      BY <1>5, <2>1
    <2> QED BY <2>1, <2>2 DEF Chained
  <1>7. ASSUME NEW s \in Segments, Rotated(s) PROVE s < m
    <2>1. s \in Nat /\ s <= m /\ s # m
      BY <1>3, <1>4, <1>7, Numbers DEF Used, Rotated
    <2> QED BY <1>3, <2>1
  <1>8. ASSUME NEW s \in Segments, s < m PROVE Continuations(s) = {s + 1}
    <2>1. s \in Nat /\ s >= 1 /\ s + 1 \in Segments /\ s + 1 <= m /\ s + 1 # 1 /\ (s + 1) - 1 = s
      BY <1>3, <1>6, <1>8, Numbers
    <2>2. Used(s + 1) /\ ses[s + 1].parent = s
      BY <1>5, <2>1 DEF Chained
    <2>3. ASSUME NEW k \in Segments, Used(k), ses[k].parent = s PROVE k = s + 1
      <3>1. k \in Nat /\ k # 1
        BY <2>1, <2>3, Numbers DEF Chained
      <3>2. k - 1 = s
        BY <2>3, <3>1 DEF Chained
      <3> QED BY <3>1, <3>2, <2>1
    <2> QED BY <2>1, <2>2, <2>3 DEF Continuations
  <1> QED BY <1>3, <1>4, <1>5, <1>6, <1>7, <1>8 DEF Last

\* Every session has the lease of the first one.
IsRoot(f) ==
  f = [x \in Segments |->
         IF ses[x].parent # 0 /\ Rotated(ses[x].parent) THEN f[ses[x].parent] ELSE x]

LEMMA RootIs ==
  ASSUME Chained, NEW s \in Segments, Used(s)
  PROVE  Root(s) = 1
  <1> DEFINE r == CHOOSE f : f = [x \in Segments |->
                IF ses[x].parent # 0 /\ Rotated(ses[x].parent) THEN f[ses[x].parent] ELSE x]
             g == [x \in Segments |-> IF Used(x) THEN 1 ELSE x]
  <1>1. Root(s) = r[s]
    BY DEF Root
  <1>2. ASSUME NEW x \in Segments
        PROVE  /\ Used(x) /\ x # 1 => /\ ses[x].parent = x - 1 /\ x - 1 # 0 /\ Rotated(x - 1)
                                      /\ x - 1 \in Segments /\ Used(x - 1)
               /\ ~Used(x) => ses[x].parent = 0
               /\ x = 1 => Used(x) /\ ses[x].parent = 0
    BY Numbers DEF Chained, Unused, Used, Rotated
  <1>3. IsRoot(g)
    <2> SUFFICES ASSUME NEW x \in Segments
                 PROVE  g[x] = IF ses[x].parent # 0 /\ Rotated(ses[x].parent) THEN g[ses[x].parent] ELSE x
      BY DEF IsRoot
    <2> QED BY <1>2
  <1>4. IsRoot(r)
    <2> HIDE DEF g
    <2> QED BY <1>3 DEF IsRoot
  <1>5. ASSUME NEW f, IsRoot(f) PROVE f[s] = 1
    <2> DEFINE D == {d \in Segments : Used(d) /\ f[d] # 1}
    <2> SUFFICES ASSUME D # {} PROVE FALSE
      OBVIOUS
    <2>1. D \subseteq Nat
      BY Numbers
    <2>2. PICK d \in D : \A n \in D : d <= n
      <3> HIDE DEF D
      <3> QED BY <2>1, Least
    <2>3. d \in Segments /\ d \in Nat /\ Used(d) /\ f[d] # 1
      BY <2>2, Numbers
    <2>4. f[d] = IF ses[d].parent # 0 /\ Rotated(ses[d].parent) THEN f[ses[d].parent] ELSE d
      BY <1>5, <2>3 DEF IsRoot
    <2>5. d # 1
      BY <1>2, <2>3, <2>4
    <2>6. f[d] = f[d - 1] /\ d - 1 \in Segments /\ Used(d - 1)
      BY <1>2, <2>3, <2>4, <2>5
    <2>7. d - 1 \in D
      BY <2>3, <2>6
    <2>8. d <= d - 1
      BY <2>2, <2>7
    <2> QED BY <2>3, <2>8
  <1> QED
    <2> HIDE DEF r
    <2> QED BY <1>1, <1>4, <1>5

\* Every continuation chain ends at the last session.
IsTip(f) ==
  f = [x \in Segments |->
         IF Rotated(x) /\ Continuations(x) # {} THEN f[Newest(Continuations(x))] ELSE x]

LEMMA TipIs ==
  ASSUME NEW m, Last(m), NEW s \in Segments, Used(s)
  PROVE  Tip(s) = m
  <1> DEFINE r == CHOOSE f : f = [x \in Segments |->
                IF Rotated(x) /\ Continuations(x) # {} THEN f[Newest(Continuations(x))] ELSE x]
             g == [x \in Segments |-> IF Used(x) THEN m ELSE x]
  <1>1. Tip(s) = r[s]
    BY DEF Tip
  <1>m. m \in Segments /\ m \in Nat
    BY Numbers DEF Last
  <1>n. \A k \in Nat : Newest({k}) = k
    BY DEF Newest
  <1>2. ASSUME NEW x \in Segments
        PROVE  /\ x < m => /\ Rotated(x) /\ Used(x) /\ x + 1 \in Segments /\ Used(x + 1)
                           /\ Continuations(x) # {} /\ Newest(Continuations(x)) = x + 1
               /\ ~(x < m) => ~Rotated(x) /\ (Used(x) => x = m)
    <2>1. x \in Nat
      BY Numbers
    <2>2. CASE x < m
      <3>1. Rotated(x) /\ Used(x) /\ x + 1 \in Segments /\ Continuations(x) = {x + 1}
        BY <1>m, <2>1, <2>2 DEF Last
      <3>2. Newest(Continuations(x)) = x + 1
        BY <1>n, <2>1, <3>1
      <3>3. Used(x + 1)
        BY <3>1 DEF Continuations
      <3> QED BY <2>2, <3>1, <3>2, <3>3
    <2>3. CASE ~(x < m)
      BY <1>m, <2>1, <2>3 DEF Last
    <2> QED BY <2>2, <2>3
  <1>3. IsTip(g)
    <2> SUFFICES ASSUME NEW x \in Segments
                 PROVE  g[x] = IF Rotated(x) /\ Continuations(x) # {}
                               THEN g[Newest(Continuations(x))] ELSE x
      BY DEF IsTip
    <2> QED BY <1>2
  <1>4. IsTip(r)
    <2> HIDE DEF g
    <2> QED BY <1>3 DEF IsTip
  <1>5. ASSUME NEW f, IsTip(f) PROVE f[s] = m
    <2> DEFINE D == {d \in Segments : Used(d) /\ f[d] # m}
    <2> SUFFICES ASSUME D # {} PROVE FALSE
      OBVIOUS
    <2>1. D \subseteq Nat /\ \A n \in D : n <= MaxSegments
      BY Numbers
    <2>2. PICK d \in D : \A n \in D : n <= d
      <3> HIDE DEF D
      <3> QED BY <2>1, Greatest, Numbers
    <2>3. d \in Segments /\ d \in Nat /\ Used(d) /\ f[d] # m
      BY <2>2, Numbers
    <2>4. f[d] = IF Rotated(d) /\ Continuations(d) # {} THEN f[Newest(Continuations(d))] ELSE d
      BY <1>5, <2>3 DEF IsTip
    <2>5. d < m
      BY <1>2, <2>3, <2>4
    <2>6. f[d] = f[d + 1] /\ d + 1 \in Segments /\ Used(d + 1)
      BY <1>2, <2>3, <2>4, <2>5
    <2>7. d + 1 \in D
      BY <2>3, <2>6
    <2>8. d + 1 <= d
      BY <2>2, <2>7
    <2> QED BY <2>3, <2>8
  <1> QED
    <2> HIDE DEF r
    <2> QED BY <1>1, <1>4, <1>5

\* What the steps use of a session they are in.
LEMMA Places ==
  ASSUME Chained, NEW s \in Segments, Used(s)
  PROVE  /\ Root(s) = 1 /\ Tip(s) \in Segments /\ Used(Tip(s))
         /\ Adopted(s) \in Segments /\ Used(Adopted(s)) /\ (~Rotated(s) => Adopted(s) = s)
         /\ Adoptable(s) => Adopted(s) = Tip(s)
  <1>1. PICK m \in Segments : Last(m)
    BY Chain
  <1>2. Tip(s) = m /\ Used(m)
    BY <1>1, TipIs DEF Last
  <1>3. Root(s) = 1
    BY RootIs
  <1> QED BY <1>2, <1>3 DEF Adopted, Adoptable

LEMMA Continued ==
  ASSUME Chained
  PROVE  OneContinuation /\ OneConversation
  <1>1. PICK m \in Segments : Last(m)
    BY Chain
  <1>2. ASSUME NEW s \in Segments, Rotated(s) PROVE Cardinality(Continuations(s)) = 1
    <2>1. Continuations(s) = {s + 1}
      BY <1>1, <1>2 DEF Last
    <2> QED BY <2>1, FS_Singleton
  <1> QED BY <1>2, RootIs DEF OneContinuation, OneConversation

(***************************************************************************)
(* Rows and watermarks                                                     *)
(***************************************************************************)
\* A watermark is the number of the last row.
LEMMA Watermarks ==
  ASSUME TypeOK, Numbered, NEW s \in Segments
  PROVE  /\ Watermark(s) \in Nat /\ Watermark(s) <= lastId
         /\ \A r \in ses[s].rows : r.id <= Watermark(s)
         /\ Cardinality(ses[s].rows) \in Nat
         /\ Covered(s) \in SUBSET Messages
         /\ Loaded(s) \in [len : Nat, of : SUBSET Messages]
  <1>1. /\ ses[s].rows \subseteq Row /\ IsFiniteSet(ses[s].rows) /\ lastId \in Nat
        /\ \A r \in ses[s].rows : r.id <= lastId
    BY DEF TypeOK, Session, Numbered
  <1> DEFINE I == {0} \cup {r.id : r \in ses[s].rows}
  <1>2. \A r \in ses[s].rows : r.id \in Nat /\ r.of \subseteq Messages
    BY <1>1 DEF Row
  <1>3. I \subseteq Nat /\ I # {} /\ \A n \in I : n <= lastId
    BY <1>1, <1>2
  <1>4. \E m \in I : \A n \in I : n <= m
    <2> HIDE DEF I
    <2> QED BY <1>1, <1>3, Greatest
  <1>5. Newest(I) \in I /\ \A n \in I : n <= Newest(I)
    <2> HIDE DEF I
    <2> QED BY <1>4 DEF Newest
  <1>6. Watermark(s) = Newest(I)
    BY DEF Watermark
  <1>7. Watermark(s) \in Nat /\ Watermark(s) <= lastId /\ \A r \in ses[s].rows : r.id <= Watermark(s)
    <2>1. \A r \in ses[s].rows : r.id \in I
      OBVIOUS
    <2> HIDE DEF I
    <2> QED BY <1>3, <1>5, <1>6, <2>1
  <1>8. Cardinality(ses[s].rows) \in Nat
    BY <1>1, FS_CardinalityType
  <1>9. Covered(s) \in SUBSET Messages
    BY <1>2 DEF Covered, Covers
  <1> QED BY <1>7, <1>8, <1>9 DEF Loaded, Covered

\* Clones cover what the rows cover, apart where those were apart, and have the numbers
\* behind base.
LEMMA Cloned ==
  ASSUME NEW rows, rows \subseteq Row, IsFiniteSet(rows), NEW base \in Nat
  PROVE  /\ Clones(rows, base) \subseteq Row /\ IsFiniteSet(Clones(rows, base))
         /\ Cardinality(rows) \in Nat
         /\ \A c \in Clones(rows, base) : c.id <= base + Cardinality(rows)
         /\ \A c \in Clones(rows, base) : \E r \in rows : c.of = r.of
         /\ \A b, c \in Clones(rows, base) : b # c => \E q, r \in rows : q # r /\ b.of = q.of /\ c.of = r.of
         /\ Covers(Clones(rows, base)) = Covers(rows)
  <1> DEFINE Rank(r) == Cardinality({q \in rows : q.id <= r.id})
             Clone(r) == [id |-> base + Rank(r), of |-> r.of]
  <1>1. Clones(rows, base) = {Clone(r) : r \in rows}
    BY DEF Clones
  <1>2. ASSUME NEW r \in rows
        PROVE  Rank(r) \in Nat /\ Rank(r) <= Cardinality(rows) /\ Cardinality(rows) \in Nat
    <2> DEFINE Q == {q \in rows : q.id <= r.id}
    <2>1. Q \subseteq rows
      OBVIOUS
    <2>2. IsFiniteSet(Q) /\ Cardinality(Q) <= Cardinality(rows)
      <3> HIDE DEF Q
      <3> QED BY <2>1, FS_Subset
    <2>3. Cardinality(Q) \in Nat /\ Cardinality(rows) \in Nat
      <3> HIDE DEF Q
      <3> QED BY <2>2, FS_CardinalityType
    <2> QED BY <2>2, <2>3
  <1>3. Cardinality(rows) \in Nat
    BY FS_CardinalityType
  <1> HIDE DEF Rank
  <1>4. \A r \in rows : Clone(r) \in Row /\ Clone(r).id = base + Rank(r) /\ Clone(r).of = r.of
    BY <1>2 DEF Row
  <1> HIDE DEF Clone
  <1>5. IsFiniteSet({Clone(r) : r \in rows})
    <2> DEFINE f == [r \in rows |-> Clone(r)]
               C == {Clone(r) : r \in rows}
    <2>1. f \in Surjection(rows, C)
      BY DEF Surjection
    <2> HIDE DEF f, C
    <2>2. IsFiniteSet(C)
      BY <2>1, FS_Surjection
    <2> QED BY <2>2 DEF C
  <1>6. \A c \in Clones(rows, base) : \E r \in rows : c = Clone(r) /\ c.of = r.of /\ c.id = base + Rank(r)
    BY <1>1, <1>4
  <1>7. \A c \in Clones(rows, base) : c.id <= base + Cardinality(rows)
    BY <1>2, <1>3, <1>6
  <1>8. \A b, c \in Clones(rows, base) : b # c => \E q, r \in rows : q # r /\ b.of = q.of /\ c.of = r.of
    BY <1>6
  <1>9. Covers(Clones(rows, base)) = Covers(rows)
    <2>1. \A m : (\E c \in Clones(rows, base) : m \in c.of) <=> (\E r \in rows : m \in r.of)
      BY <1>1, <1>4
    <2> QED BY <2>1 DEF Covers
  <1> QED BY <1>1, <1>3, <1>4, <1>5, <1>6, <1>7, <1>8, <1>9

(***************************************************************************)
(* The invariant, part by part                                             *)
(***************************************************************************)
IInv == Inv /\ NotDoubled

LeaseOK == OneLease /\ LeaseIsLatest

RowsOK ==
  \A s \in Segments :
    /\ IsFiniteSet(ses[s].rows) /\ Covered(s) \subseteq Known
    /\ \A r \in ses[s].rows : r.id <= lastId

Fine(a) ==
  /\ Used(act[a].sid) /\ Used(act[a].held)
  /\ At(a, Seated) => act[a].sid = act[a].held
  /\ act[a].mark <= lastId /\ act[a].ceil <= lastId
  /\ act[a].mem.of \subseteq Known \cup ({a} \cap Turns)
  /\ At(a, Holding) /\ Locks(a) =>
       /\ tail[a] \subseteq Covers(Copied(a))
       /\ \A r \in Copied(a) : act[a].mem.of \cap r.of \subseteq reread

LEMMA Parts ==
  IInv <=> TypeOK /\ Chained /\ LeaseOK /\ RowsOK /\ NotDoubled /\ \A a \in Actors : Fine(a)
  <1>1. IInv => TypeOK /\ Chained /\ LeaseOK /\ RowsOK /\ NotDoubled /\ \A a \in Actors : Fine(a)
    BY DEF IInv, Inv, LeaseOK, RowsOK, Fine, Sited, Numbered, Recorded, InHand
  <1>2. TypeOK /\ Chained /\ LeaseOK /\ RowsOK /\ NotDoubled /\ (\A a \in Actors : Fine(a)) => IInv
    BY Continued DEF IInv, Inv, LeaseOK, RowsOK, Fine, Sited, Numbered, Recorded, InHand
  <1> QED BY <1>1, <1>2

LEMMA PartsNext ==
  ASSUME TypeOK', Chained', LeaseOK', RowsOK', NotDoubled', \A a \in Actors : Fine(a)'
  PROVE  IInv'
  <1>1. (TypeOK /\ Chained /\ LeaseOK /\ RowsOK /\ NotDoubled /\ \A a \in Actors : Fine(a))' => IInv'
    BY Parts, PTL
  <1> QED BY <1>1

(***************************************************************************)
(* Steps that write no rows                                                *)
(***************************************************************************)
\* The sessions keep their rows and their places in the chain.
Still ==
  /\ lastId' = lastId /\ appended' = appended /\ reread \subseteq reread'
  /\ \A s \in Segments :
       /\ ses'[s].rows = ses[s].rows /\ ses'[s].parent = ses[s].parent
       /\ Used(s)' = Used(s) /\ Rotated(s)' = Rotated(s)
       /\ ~Used(s) => ses'[s] = ses[s]

\* A lock is not taken by b.
NotTaken(b) == Locks(b)' => Locks(b)

LEMMA StillIs ==
  ASSUME Still, Chained
  PROVE  Chained' /\ \A s \in Segments : Covered(s)' = Covered(s)
  <1>1. \A s \in Segments : ses'[s].parent = ses[s].parent /\ Used(s)' = Used(s) /\ Rotated(s)' = Rotated(s)
                            /\ Covered(s)' = Covered(s) /\ (~Used(s) => ses'[s] = ses[s])
    BY DEF Still, Covered
  <1>2. \A s \in Segments \ {1} : s - 1 \in Segments
    BY Numbers
  <1>3. Chained'
    BY <1>1, <1>2, Numbers DEF Chained
  <1> QED BY <1>1, <1>3

LEMMA KnownGrows ==
  ASSUME appended \subseteq appended', \A t \in Turns : Unwritten(t)' => Unwritten(t)
  PROVE  Known \subseteq Known'
  BY DEF Known

LEMMA OthersFine ==
  ASSUME TypeOK, Still, Known \subseteq Known', NEW b \in Actors, Fine(b),
         act'[b] = act[b], tail'[b] = tail[b], NotTaken(b)
  PROVE  Fine(b)'
  <1>1. act[b].sid \in Segments /\ act[b].held \in Segments
    BY DEF TypeOK, Actor
  <1>2. Used(act[b].sid)' /\ Used(act[b].held)'
    BY <1>1 DEF Still, Fine, Used
  <1>3. Copied(b)' = Copied(b)
    BY <1>1 DEF Still, Copied, Foreign, ForeignTail, At
  <1>4. At(b, Holding)' /\ Locks(b)' => At(b, Holding) /\ Locks(b)
    BY DEF At, NotTaken
  <1> QED BY <1>2, <1>3, <1>4 DEF Fine, At, Still

LEMMA StillKeeps ==
  ASSUME IInv, TypeOK', Still, LeaseOK',
         \A b \in Actors : \/ act'[b] = act[b] /\ tail'[b] = tail[b] /\ NotTaken(b)
                           \/ (Known \subseteq Known' => Fine(b)') /\ (Unwritten(b)' => Unwritten(b))
  PROVE  IInv'
  <1>1. TypeOK /\ Chained /\ LeaseOK /\ RowsOK /\ NotDoubled /\ \A a \in Actors : Fine(a)
    BY Parts
  <1>2. \A t \in Turns : Unwritten(t)' => Unwritten(t)
    BY DEF Unwritten, At, Actors
  <1>3. Known \subseteq Known'
    BY <1>2, KnownGrows DEF Still
  <1>4. Chained' /\ \A s \in Segments : Covered(s)' = Covered(s)
    BY <1>1, StillIs
  <1>5. RowsOK' /\ NotDoubled'
    BY <1>1, <1>3, <1>4 DEF RowsOK, NotDoubled, Still
  <1>6. \A b \in Actors : Fine(b)'
    BY <1>1, <1>3, OthersFine
  <1> QED BY <1>4, <1>5, <1>6, PartsNext

\* The lease of the conversation is set, in whatever session its turn is.
LEMMA LeaseSet ==
  ASSUME TypeOK, Chained, LeaseOK, NEW s \in Segments, Used(s), NEW c \in Claim, LeaseIs(s, c),
         c.by \in {latest', Nobody}
  PROVE  LeaseOK' /\ lease' \in [Segments -> Claim]
  <1>1. lease' = [lease EXCEPT ![1] = c] /\ lease \in [Segments -> Claim]
    BY RootIs DEF LeaseIs, TypeOK
  <1> QED BY <1>1, Numbers DEF LeaseOK, OneLease, LeaseIsLatest, Free

LEMMA LeaseStays ==
  ASSUME TypeOK, LeaseOK, UNCHANGED <<lease, latest>>
  PROVE  LeaseOK' /\ lease' \in [Segments -> Claim] /\ latest' \in Turns \cup {Nobody}
  BY DEF TypeOK, LeaseOK, OneLease, LeaseIsLatest

\* Who holds the lease of a session was admitted last.
LEMMA Latest ==
  ASSUME Chained, LeaseOK, NEW s \in Segments, Used(s), NEW t \in Turns, Leases(t, s)
  PROVE  latest = t
  <1>1. lease[1].by = t
    BY RootIs DEF Leases
  <1> QED BY <1>1, Numbers, ConstantsAssumption DEF LeaseOK, LeaseIsLatest, Actors

LEMMA Becoming ==
  ASSUME TypeOK, NEW a \in Actors, NEW r \in Actor, Becomes(a, r)
  PROVE  act' \in [Actors -> Actor] /\ act'[a] = r /\ \A b \in Actors \ {a} : act'[b] = act[b]
  BY DEF TypeOK, Becomes

\* What the compaction of an actor with record r copies.
CopiedBy(r) ==
  {q \in ses[r.held].rows : q.id > r.mark /\ (r.at \in {"ceiled", "publishing"} => q.id <= r.ceil)}

\* An actor goes on to record r, and nothing happens to the sessions.
LEMMA ActorStep ==
  ASSUME IInv, NEW a \in Actors, NEW r \in Actor, Becomes(a, r),
         UNCHANGED <<ses, lastId, appended, reread>>, tail' \in {tail, [tail EXCEPT ![a] = {}]},
         LeaseOK', lease' \in [Segments -> Claim], latest' \in Turns \cup {Nobody},
         Used(r.sid), Used(r.held), r.at \in Seated => r.sid = r.held,
         r.mark <= lastId, r.ceil <= lastId,
         r.mem.of \subseteq Known \cup ({a} \cap Turns),
         r.owed \/ r.at \in {"idle", "loaded", "waiting", "served", "admitted"} => Unwritten(a),
         r.at \in Holding /\ ses[r.held].lock.by = a =>
           /\ tail'[a] \subseteq Covers(CopiedBy(r))
           /\ \A q \in CopiedBy(r) : r.mem.of \cap q.of \subseteq reread
  PROVE  IInv'
  <1>1. TypeOK /\ Chained /\ LeaseOK /\ RowsOK /\ NotDoubled /\ \A b \in Actors : Fine(b)
    BY Parts
  <1>2. act' \in [Actors -> Actor] /\ act'[a] = r /\ \A b \in Actors \ {a} : act'[b] = act[b]
    BY <1>1, Becoming
  <1>3. tail' \in [Actors -> SUBSET Messages] /\ \A b \in Actors \ {a} : tail'[b] = tail[b]
    BY <1>1 DEF TypeOK
  <1>4. TypeOK'
    BY <1>1, <1>2, <1>3 DEF TypeOK
  <1>5. Still
    BY DEF Still, Used, Rotated
  <1>6. \A b \in Actors \ {a} : NotTaken(b)
    BY <1>2 DEF NotTaken, Locks
  <1>7. Unwritten(a)' => Unwritten(a)
    BY <1>2 DEF Unwritten, At
  <1>8. ASSUME Known \subseteq Known' PROVE Fine(a)'
    <2>1. Used(act[a].sid)' /\ Used(act[a].held)'
      BY <1>2 DEF Used
    <2>2. Copied(a)' = CopiedBy(r)
      BY <1>2 DEF Copied, CopiedBy, Foreign, ForeignTail, At
    <2>3. At(a, Holding)' /\ Locks(a)' => r.at \in Holding /\ ses[r.held].lock.by = a
      BY <1>2 DEF At, Locks
    <2> QED BY <1>2, <1>8, <2>1, <2>2, <2>3 DEF Fine, At
  <1> QED BY <1>2, <1>3, <1>4, <1>5, <1>6, <1>7, <1>8, StillKeeps

\* The same for an actor whose compaction only goes on.
LEMMA MovesKeeps ==
  ASSUME IInv, NEW a \in Actors, NEW s \in Stages, Moves(a, s),
         UNCHANGED <<ses, lastId, appended, tail, reread>>,
         LeaseOK', lease' \in [Segments -> Claim], latest' \in Turns \cup {Nobody},
         s \in {"idle", "loaded", "waiting", "served", "admitted"} => Unwritten(a),
         s \in Seated => At(a, Seated),
         s \in Holding => /\ At(a, Holding)
                          /\ s \in {"ceiled", "publishing"} <=> At(a, {"ceiled", "publishing"})
  PROVE  IInv'
  <1>1. TypeOK /\ Fine(a)
    BY Parts
  <1> DEFINE r == [act[a] EXCEPT !.at = s]
  <1>2. act[a] \in Actor
    BY <1>1 DEF TypeOK
  <1>3. /\ r \in Actor /\ r.at = s /\ r.sid = act[a].sid /\ r.held = act[a].held /\ r.mem = act[a].mem
        /\ r.owed = act[a].owed /\ r.mark = act[a].mark /\ r.ceil = act[a].ceil
    BY <1>2 DEF Actor
  <1>4. Becomes(a, r)
    BY DEF Moves
  <1> HIDE DEF r
  <1>5. s \in Holding => CopiedBy(r) = Copied(a)
    BY <1>3 DEF CopiedBy, Copied, Foreign, ForeignTail, At
  <1>6. r.owed \/ r.at \in {"idle", "loaded", "waiting", "served", "admitted"} => Unwritten(a)
    BY <1>3 DEF Unwritten
  <1>7. r.at \in Holding /\ ses[r.held].lock.by = a =>
          /\ tail'[a] \subseteq Covers(CopiedBy(r))
          /\ \A q \in CopiedBy(r) : r.mem.of \cap q.of \subseteq reread
    BY <1>1, <1>3, <1>5 DEF Fine, Locks
  <1> QED BY <1>1, <1>3, <1>4, <1>6, <1>7, ActorStep DEF Fine, At

\* The same for an actor that leaves.
LEMMA LeavesKeeps ==
  ASSUME IInv, NEW a \in Actors, NEW s \in {"over", "dead"}, Leaves(a, s),
         UNCHANGED <<ses, lastId, appended, reread>>, tail' \in {tail, [tail EXCEPT ![a] = {}]},
         LeaseOK', lease' \in [Segments -> Claim], latest' \in Turns \cup {Nobody}
  PROVE  IInv'
  <1> DEFINE r == [New EXCEPT !.at = s]
  <1>1. TypeOK /\ Chained
    BY Parts
  <1>2. /\ r \in Actor /\ r.at = s /\ r.sid = 1 /\ r.held = 1 /\ r.mem.of = {} /\ r.owed = FALSE
        /\ r.mark = 0 /\ r.ceil = 0
    BY Numbers DEF New, Actor, Stages
  <1>3. Becomes(a, r)
    BY DEF Leaves
  <1> HIDE DEF r
  <1>4. Used(1) /\ lastId \in Nat
    BY <1>1 DEF Chained, TypeOK
  <1> QED BY <1>2, <1>3, <1>4, ActorStep DEF Seated, Holding

\* The same for an actor that reads the transcript of a session.
LEMMA ReadsKeeps ==
  ASSUME IInv, NEW a \in Actors, NEW r \in Actor, Becomes(a, r),
         UNCHANGED <<ses, lastId, appended, tail, reread, lease, latest>>,
         Used(r.sid), r.mem.of \subseteq Covered(r.sid) \cup act[a].mem.of \cup ({a} \cap Turns),
         r.held = act[a].held, r.mark = act[a].mark, r.ceil = act[a].ceil,
         r.at \notin Holding \cup Seated,
         r.owed \/ r.at \in {"idle", "loaded", "waiting", "served", "admitted"} => Unwritten(a)
  PROVE  IInv'
  <1>1. TypeOK /\ LeaseOK /\ RowsOK /\ Fine(a)
    BY Parts
  <1>2. LeaseOK' /\ lease' \in [Segments -> Claim] /\ latest' \in Turns \cup {Nobody}
    BY <1>1, LeaseStays
  <1>3. r.sid \in Segments
    BY DEF Actor
  <1>4. r.mem.of \subseteq Known \cup ({a} \cap Turns)
    BY <1>1, <1>3 DEF RowsOK, Fine
  <1> QED BY <1>1, <1>2, <1>4, ActorStep DEF Fine

(***************************************************************************)
(* Admission and the turn                                                  *)
(***************************************************************************)
LEMMA Acting ==
  /\ Turns \subseteq Actors /\ Cleaners \subseteq Actors /\ Turns \subseteq Messages
  /\ Nobody \notin Actors /\ \A a \in Actors : HeldBy(a) \in Claim /\ HeldBy(a).by = a
  /\ Free \in Claim /\ Free.by = Nobody /\ Free.fresh = FALSE
  BY ConstantsAssumption DEF Actors, Messages, HeldBy, Claim, Free

LEMMA LoadKeeps ==
  ASSUME IInv, NEW a \in Actors, At(a, {"idle"}), NEW s \in {"loaded", "running"},
         a \in Turns => s = "loaded",
         Becomes(a, [act[a] EXCEPT !.at = s, !.sid = Tip(1), !.mem = Loaded(Tip(1))]),
         UNCHANGED <<ses, lastId, lease, latest, appended, tail, reread>>
  PROVE  IInv'
  <1> DEFINE r == [act[a] EXCEPT !.at = s, !.sid = Tip(1), !.mem = Loaded(Tip(1))]
  <1>1. TypeOK /\ Chained /\ Numbered
    BY Parts DEF IInv, Inv
  <1>2. Tip(1) \in Segments /\ Used(Tip(1))
    BY <1>1, Places, Numbers DEF Chained
  <1>3. act[a] \in Actor /\ Loaded(Tip(1)) \in [len : Nat, of : SUBSET Messages]
        /\ Loaded(Tip(1)).of = Covered(Tip(1))
    BY <1>1, <1>2, Watermarks DEF TypeOK, Loaded, Covered
  <1>4. s \in Stages
    BY DEF Stages
  <1>5. /\ r \in Actor /\ r.at = s /\ r.sid = Tip(1) /\ r.mem.of = Covered(Tip(1))
        /\ r.held = act[a].held /\ r.mark = act[a].mark /\ r.ceil = act[a].ceil /\ r.owed = act[a].owed
    BY <1>2, <1>3, <1>4 DEF Actor
  <1> HIDE DEF r
  <1>6. Unwritten(a)
    BY DEF Unwritten, At
  <1>7. Becomes(a, r)
    BY DEF r
  <1> QED BY <1>2, <1>5, <1>6, <1>7, ReadsKeeps DEF Holding, Seated

LEMMA ReloadKeeps ==
  ASSUME IInv, NEW t \in Turns, Reload(t)
  PROVE  IInv'
  <1> DEFINE k == Tip(act[t].sid)
             r == [act[t] EXCEPT !.at = "admitted", !.sid = k, !.mem = Loaded(k)]
  <1>1. TypeOK /\ Chained /\ Numbered /\ Fine(t) /\ t \in Actors
    BY Parts, Acting DEF IInv, Inv
  <1>2. act[t] \in Actor /\ act[t].sid \in Segments /\ Used(act[t].sid)
    BY <1>1 DEF TypeOK, Actor, Fine
  <1>3. k \in Segments /\ Used(k)
    BY <1>1, <1>2, Places
  <1>4. Loaded(k) \in [len : Nat, of : SUBSET Messages] /\ Loaded(k).of = Covered(k)
    BY <1>1, <1>3, Watermarks DEF Loaded, Covered
  <1>5. /\ r \in Actor /\ r.at = "admitted" /\ r.sid = k /\ r.mem.of = Covered(k)
        /\ r.held = act[t].held /\ r.mark = act[t].mark /\ r.ceil = act[t].ceil /\ r.owed = act[t].owed
    BY <1>2, <1>3, <1>4 DEF Actor, Stages
  <1>6. Unwritten(t) /\ Becomes(t, r) /\ UNCHANGED <<ses, lastId, lease, latest, appended, tail, reread>>
    BY DEF Reload, Unwritten, At
  <1> HIDE DEF r
  <1> QED BY <1>1, <1>3, <1>5, <1>6, ReadsKeeps DEF Holding, Seated

LEMMA BeginKeeps ==
  ASSUME IInv, NEW t \in Turns, Begin(t)
  PROVE  IInv'
  <1> DEFINE k == Adopted(act[t].sid)
             m == IF Adoptable(act[t].sid) THEN Loaded(Tip(act[t].sid)) ELSE act[t].mem
             r == [act[t] EXCEPT !.at = "running", !.sid = k, !.owed = TRUE, !.mem = Begun(t, m)]
  <1>1. TypeOK /\ Chained /\ Numbered /\ Fine(t) /\ t \in Actors /\ t \in Messages
    BY Parts, Acting DEF IInv, Inv
  <1>2. act[t] \in Actor /\ act[t].sid \in Segments /\ Used(act[t].sid)
    BY <1>1 DEF TypeOK, Actor, Fine
  <1>3. k \in Segments /\ Used(k) /\ (Adoptable(act[t].sid) => k = Tip(act[t].sid))
    BY <1>1, <1>2, Places
  <1>4. m \in [len : Nat, of : SUBSET Messages] /\ m.of \subseteq Covered(k) \cup act[t].mem.of
    <2>1. CASE Adoptable(act[t].sid)
      BY <1>1, <1>3, <2>1, Watermarks DEF Loaded, Covered
    <2>2. CASE ~Adoptable(act[t].sid)
      BY <1>2, <2>2 DEF Actor
    <2> QED BY <2>1, <2>2
  <1>5. Becomes(t, r)
    BY DEF Begin
  <1> HIDE DEF k, m
  <1>6. Begun(t, m) \in [len : Nat, of : SUBSET Messages] /\ Begun(t, m).of = m.of \cup {t}
    BY <1>1, <1>4 DEF Begun
  <1>7. /\ r \in Actor /\ r.at = "running" /\ r.sid = k /\ r.mem.of = m.of \cup {t}
        /\ r.held = act[t].held /\ r.mark = act[t].mark /\ r.ceil = act[t].ceil
    BY <1>2, <1>3, <1>6 DEF Actor, Stages
  <1>8. Unwritten(t) /\ UNCHANGED <<ses, lastId, lease, latest, appended, tail, reread>>
    BY DEF Begin, Unwritten, At
  <1> HIDE DEF r
  <1> QED BY <1>1, <1>3, <1>4, <1>5, <1>7, <1>8, ReadsKeeps DEF Holding, Seated

LEMMA AdmissionKeeps ==
  ASSUME IInv, NEW t \in Turns,
         Load(t) \/ Admit(t) \/ Waits(t) \/ Serve(t) \/ GivesUp(t) \/ Reload(t) \/ Begin(t) \/ Finish(t)
  PROVE  IInv'
  <1>1. TypeOK /\ Chained /\ LeaseOK /\ Fine(t) /\ t \in Actors
    BY Parts, Acting
  <1>2. act[t].sid \in Segments /\ Used(act[t].sid)
    BY <1>1 DEF TypeOK, Actor, Fine
  <1>3. {"waiting", "served", "admitted"} \subseteq Stages
    BY DEF Stages
  <1>4. CASE Load(t)
    BY <1>1, <1>4, LoadKeeps DEF Load
  <1>5. CASE Admit(t) \/ Serve(t)
    <2>1. LeaseOK' /\ lease' \in [Segments -> Claim] /\ latest' \in Turns \cup {Nobody}
      BY <1>1, <1>2, <1>5, LeaseSet, Acting DEF Admit, Serve
    <2>2. Unwritten(t) /\ UNCHANGED <<ses, lastId, appended, tail, reread>>
      BY <1>5 DEF Admit, Serve, Unwritten, At
    <2>3. Moves(t, "admitted") \/ Moves(t, "served")
      BY <1>5 DEF Admit, Serve
    <2> QED BY <1>1, <1>3, <2>1, <2>2, <2>3, MovesKeeps DEF Seated, Holding
  <1>6. CASE Waits(t)
    <2>1. LeaseOK' /\ lease' \in [Segments -> Claim] /\ latest' \in Turns \cup {Nobody}
      BY <1>1, <1>6, LeaseStays DEF Waits
    <2>2. Unwritten(t) /\ UNCHANGED <<ses, lastId, appended, tail, reread>> /\ Moves(t, "waiting")
      BY <1>6 DEF Waits, Unwritten, At
    <2> QED BY <1>1, <1>3, <2>1, <2>2, MovesKeeps DEF Seated, Holding
  <1>7. CASE GivesUp(t)
    <2>1. LeaseOK' /\ lease' \in [Segments -> Claim] /\ latest' \in Turns \cup {Nobody}
      BY <1>1, <1>7, LeaseStays DEF GivesUp
    <2> QED BY <1>1, <1>7, <2>1, LeavesKeeps DEF GivesUp
  <1>8. CASE Reload(t)
    BY <1>8, ReloadKeeps
  <1>9. CASE Begin(t)
    BY <1>9, BeginKeeps
  <1>10. CASE Finish(t)
    <2>1. LeaseOK' /\ lease' \in [Segments -> Claim] /\ latest' \in Turns \cup {Nobody}
      <3>1. CASE Leases(t, act[t].sid)
        <4>1. LeaseIs(act[t].sid, Free) /\ latest' = latest
          BY <1>10, <3>1 DEF Finish
        <4>2. latest \in Turns \cup {Nobody}
          BY <1>1 DEF TypeOK
        <4> QED BY <1>1, <1>2, <4>1, <4>2, LeaseSet, Acting
      <3>2. CASE ~Leases(t, act[t].sid)
        BY <1>1, <1>10, <3>2, LeaseStays DEF Finish
      <3> QED BY <3>1, <3>2
    <2> QED BY <1>1, <1>10, <2>1, LeavesKeeps DEF Finish
  <1> QED BY <1>4, <1>5, <1>6, <1>7, <1>8, <1>9, <1>10

(***************************************************************************)
(* Compaction up to its commit                                             *)
(***************************************************************************)
LEMMA CleanKeeps ==
  ASSUME IInv, NEW c \in Cleaners, Clean(c)
  PROVE  IInv'
  <1>1. c \in Actors /\ c \notin Turns
    BY Acting, ConstantsAssumption
  <1>2. Becomes(c, [act[c] EXCEPT !.at = "running", !.sid = Tip(1), !.mem = Loaded(Tip(1))])
        /\ At(c, {"idle"}) /\ UNCHANGED <<ses, lastId, lease, latest, appended, tail, reread>>
    BY DEF Clean
  <1> QED BY <1>1, <1>2, LoadKeeps

LEMMA CaptureKeeps ==
  ASSUME IInv, NEW a \in Actors, Capture(a)
  PROVE  IInv'
  <1> DEFINE w == Watermark(act[a].sid)
             r == [act[a] EXCEPT !.at = "captured", !.mark = w]
  <1>1. TypeOK /\ LeaseOK /\ Numbered /\ Fine(a)
    BY Parts DEF IInv, Inv
  <1>2. act[a] \in Actor /\ act[a].sid \in Segments /\ act[a].held = act[a].sid /\ act[a].at = "locked"
    BY <1>1 DEF TypeOK, Actor, Fine, Capture, At, Seated
  <1>3. w \in Nat /\ w <= lastId /\ \A q \in ses[act[a].sid].rows : q.id <= w
    BY <1>1, <1>2, Watermarks
  <1>4. Becomes(a, r) /\ tail' = [tail EXCEPT ![a] = {}]
        /\ UNCHANGED <<ses, lastId, lease, latest, appended, reread>>
    BY DEF Capture
  <1> HIDE DEF w
  <1>5. /\ r \in Actor /\ r.at = "captured" /\ r.sid = act[a].sid /\ r.held = act[a].held
        /\ r.mem = act[a].mem /\ r.owed = act[a].owed /\ r.mark = w /\ r.ceil = act[a].ceil
    BY <1>2, <1>3 DEF Actor, Stages
  <1> HIDE DEF r
  <1>6. CopiedBy(r) = {}
    <2>1. \A q \in ses[act[a].sid].rows : q.id \in Nat
      BY <1>1, <1>2 DEF TypeOK, Session, Row
    <2>2. \A q \in ses[act[a].sid].rows : ~ (q.id > w)
      BY <1>3, <2>1
    <2> QED BY <1>2, <1>5, <2>2 DEF CopiedBy
  <1>7. tail'[a] = {}
    BY <1>1, <1>4 DEF TypeOK
  <1>8. LeaseOK' /\ lease' \in [Segments -> Claim] /\ latest' \in Turns \cup {Nobody}
    BY <1>1, <1>4, LeaseStays
  <1>9. r.owed \/ r.at \in {"idle", "loaded", "waiting", "served", "admitted"} => Unwritten(a)
    BY <1>5 DEF Unwritten
  <1> QED BY <1>1, <1>2, <1>3, <1>4, <1>5, <1>6, <1>7, <1>8, <1>9, ActorStep DEF Fine

LEMMA AdoptRotatedKeeps ==
  ASSUME IInv, NEW a \in Actors, AdoptRotated(a)
  PROVE  IInv'
  <1> DEFINE k == Tip(act[a].sid)
             r == [act[a] EXCEPT !.at = "closing", !.sid = k, !.owed = FALSE, !.mem = Loaded(k)]
  <1>1. TypeOK /\ Chained /\ LeaseOK /\ Numbered /\ Fine(a) /\ "closing" \in Stages
    BY Parts DEF IInv, Inv, Stages
  <1>2. act[a] \in Actor /\ act[a].sid \in Segments /\ Used(act[a].sid)
    BY <1>1 DEF TypeOK, Actor, Fine
  <1>3. UNCHANGED <<ses, lastId, lease, latest, appended, tail, reread>>
    BY DEF AdoptRotated
  <1>4. CASE Adoptable(act[a].sid)
    <2>1. k \in Segments /\ Used(k)
      BY <1>1, <1>2, Places
    <2>2. Loaded(k) \in [len : Nat, of : SUBSET Messages] /\ Loaded(k).of = Covered(k)
      BY <1>1, <2>1, Watermarks DEF Loaded, Covered
    <2>3. Becomes(a, r)
      BY <1>4 DEF AdoptRotated
    <2>4. /\ r \in Actor /\ r.at = "closing" /\ r.sid = k /\ r.mem.of = Covered(k) /\ r.owed = FALSE
          /\ r.held = act[a].held /\ r.mark = act[a].mark /\ r.ceil = act[a].ceil
      BY <1>1, <1>2, <2>1, <2>2 DEF Actor
    <2> HIDE DEF r
    <2> QED BY <1>3, <2>1, <2>3, <2>4, ReadsKeeps DEF Holding, Seated
  <1>5. CASE ~Adoptable(act[a].sid)
    <2>1. Moves(a, "closing")
      BY <1>5 DEF AdoptRotated
    <2>2. LeaseOK' /\ lease' \in [Segments -> Claim] /\ latest' \in Turns \cup {Nobody}
      BY <1>1, <1>3, LeaseStays
    <2> QED BY <1>1, <1>3, <2>1, <2>2, MovesKeeps DEF Seated, Holding
  <1> QED BY <1>4, <1>5

LEMMA CeilingKeeps ==
  ASSUME IInv, NEW t \in Turns, Ceiling(t)
  PROVE  IInv'
  <1> DEFINE w == Watermark(act[t].sid)
             r == [act[t] EXCEPT !.at = "ceiled", !.ceil = w]
  <1>1. TypeOK /\ LeaseOK /\ Numbered /\ Fine(t) /\ t \in Actors
    BY Parts, Acting DEF IInv, Inv
  <1>2. act[t] \in Actor /\ act[t].sid \in Segments /\ act[t].held = act[t].sid /\ act[t].at = "rotating"
    BY <1>1 DEF TypeOK, Actor, Fine, Ceiling, At, Seated
  <1>3. w \in Nat /\ w <= lastId /\ \A q \in ses[act[t].sid].rows : q.id <= w
    BY <1>1, <1>2, Watermarks
  <1>4. Becomes(t, r) /\ UNCHANGED <<ses, lastId, lease, latest, appended, tail, reread>>
    BY DEF Ceiling
  <1> HIDE DEF w
  <1>5. /\ r \in Actor /\ r.at = "ceiled" /\ r.sid = act[t].sid /\ r.held = act[t].held
        /\ r.mem = act[t].mem /\ r.owed = act[t].owed /\ r.mark = act[t].mark /\ r.ceil = w
    BY <1>2, <1>3 DEF Actor, Stages
  <1> HIDE DEF r
  <1>6. CopiedBy(r) = Copied(t)
    BY <1>2, <1>3, <1>5 DEF CopiedBy, Copied, Foreign, At
  <1>7. LeaseOK' /\ lease' \in [Segments -> Claim] /\ latest' \in Turns \cup {Nobody}
    BY <1>1, <1>4, LeaseStays
  <1>8. r.owed \/ r.at \in {"idle", "loaded", "waiting", "served", "admitted"} => Unwritten(t)
    BY <1>5 DEF Unwritten
  <1>9. r.at \in Holding /\ ses[r.held].lock.by = t =>
          /\ tail'[t] \subseteq Covers(CopiedBy(r))
          /\ \A q \in CopiedBy(r) : r.mem.of \cap q.of \subseteq reread
    BY <1>1, <1>2, <1>4, <1>5, <1>6 DEF Fine, Locks, At, Holding
  <1> QED BY <1>1, <1>2, <1>3, <1>4, <1>5, <1>7, <1>8, <1>9, ActorStep DEF Fine

LEMMA StallKeeps ==
  ASSUME IInv, NEW a \in Actors, Stall(a)
  PROVE  IInv'
  <1> DEFINE r == [act[a] EXCEPT !.stalled = TRUE]
  <1>1. TypeOK /\ LeaseOK /\ Fine(a)
    BY Parts
  <1>2. act[a] \in Actor
    BY <1>1 DEF TypeOK
  <1>3. Becomes(a, r) /\ UNCHANGED <<ses, lastId, lease, latest, appended, tail, reread>>
    BY DEF Stall
  <1>4. /\ r \in Actor /\ r.at = act[a].at /\ r.sid = act[a].sid /\ r.held = act[a].held
        /\ r.mem = act[a].mem /\ r.owed = act[a].owed /\ r.mark = act[a].mark /\ r.ceil = act[a].ceil
    BY <1>2 DEF Actor
  <1> HIDE DEF r
  <1>5. CopiedBy(r) = Copied(a)
    BY <1>4 DEF CopiedBy, Copied, Foreign, ForeignTail, At
  <1>6. LeaseOK' /\ lease' \in [Segments -> Claim] /\ latest' \in Turns \cup {Nobody}
    BY <1>1, <1>3, LeaseStays
  <1>7. r.owed \/ r.at \in {"idle", "loaded", "waiting", "served", "admitted"} => Unwritten(a)
    BY <1>4 DEF Unwritten, At
  <1>8. r.at \in Holding /\ ses[r.held].lock.by = a =>
          /\ tail'[a] \subseteq Covers(CopiedBy(r))
          /\ \A q \in CopiedBy(r) : r.mem.of \cap q.of \subseteq reread
    BY <1>1, <1>3, <1>4, <1>5 DEF Fine, Locks, At
  <1> QED BY <1>1, <1>3, <1>4, <1>6, <1>7, <1>8, ActorStep DEF Fine, At

\* The steps between the lock and the commit that only move on, and the end by a crash.
LEMMA CompactionMoves ==
  ASSUME IInv, NEW a \in Actors,
         \/ SitOut(a) \/ StartInPlace(a) \/ Abort(a) \/ Crash(a)
         \/ a \in Turns /\ (StartRotation(a) \/ SkipFlush(a))
  PROVE  IInv'
  <1>1. TypeOK /\ LeaseOK
    BY Parts
  <1>2. {"compacted", "summary", "rotating", "publishing", "closing"} \subseteq Stages
    BY DEF Stages
  <1>3. UNCHANGED <<ses, lastId, lease, latest, appended, reread>>
    BY DEF SitOut, StartInPlace, StartRotation, Abort, SkipFlush, Crash
  <1>4. LeaseOK' /\ lease' \in [Segments -> Claim] /\ latest' \in Turns \cup {Nobody}
    BY <1>1, <1>3, LeaseStays
  <1>5. CASE SitOut(a)
    BY <1>2, <1>3, <1>4, <1>5, MovesKeeps DEF SitOut, Seated, Holding
  <1>6. CASE StartInPlace(a)
    BY <1>2, <1>3, <1>4, <1>6, MovesKeeps DEF StartInPlace, Seated, Holding, At
  <1>7. CASE StartRotation(a)
    BY <1>2, <1>3, <1>4, <1>7, MovesKeeps DEF StartRotation, MayRotate, Seated, Holding, At
  <1>8. CASE Abort(a)
    BY <1>2, <1>3, <1>4, <1>8, MovesKeeps DEF Abort, Seated, Holding
  <1>9. CASE SkipFlush(a)
    BY <1>2, <1>3, <1>4, <1>9, MovesKeeps DEF SkipFlush, Seated, Holding, At
  <1>10. CASE Crash(a)
    BY <1>3, <1>4, <1>10, LeavesKeeps DEF Crash
  <1> QED BY <1>5, <1>6, <1>7, <1>8, <1>9, <1>10

(***************************************************************************)
(* Locks, ends and leases of sessions                                      *)
(***************************************************************************)
\* A session changes its lock, or the reason it was ended for.
LEMMA SessionStep ==
  ASSUME TypeOK, NEW s \in Segments, Used(s), NEW r \in Session, SessionIs(s, r),
         UNCHANGED <<lastId, appended, reread>>,
         r.rows = ses[s].rows, r.parent = ses[s].parent,
         r.end # "unused", r.end = "compression" <=> Rotated(s)
  PROVE  Still /\ ses' \in [Segments -> Session] /\ ses'[s] = r /\ \A k \in Segments \ {s} : ses'[k] = ses[k]
  <1>1. ses' \in [Segments -> Session] /\ ses'[s] = r /\ \A k \in Segments \ {s} : ses'[k] = ses[k]
    BY DEF TypeOK, SessionIs
  <1>2. Still
    BY <1>1 DEF Still, Used, Rotated
  <1> QED BY <1>1, <1>2

LEMMA LockSet ==
  ASSUME TypeOK, NEW s \in Segments, Used(s), NEW c \in Claim,
         SessionIs(s, [ses[s] EXCEPT !.lock = c]), UNCHANGED <<lastId, appended, reread>>
  PROVE  /\ Still /\ ses' \in [Segments -> Session] /\ ses'[s].lock = c
         /\ \A k \in Segments \ {s} : ses'[k] = ses[k]
  <1> DEFINE r == [ses[s] EXCEPT !.lock = c]
  <1>1. ses[s] \in Session
    BY DEF TypeOK
  <1>2. r \in Session /\ r.lock = c /\ r.rows = ses[s].rows /\ r.parent = ses[s].parent /\ r.end = ses[s].end
    BY <1>1 DEF Session
  <1> HIDE DEF r
  <1>3. SessionIs(s, r)
    BY DEF r
  <1> QED BY <1>2, <1>3, SessionStep DEF Used, Rotated

LEMMA TakeLockKeeps ==
  ASSUME IInv, NEW a \in Actors, TakeLock(a)
  PROVE  IInv'
  <1> DEFINE k == act[a].sid
             r == [act[a] EXCEPT !.at = "locked", !.held = k]
  <1>1. TypeOK /\ LeaseOK /\ Fine(a) /\ \A b \in Actors : Fine(b)
    BY Parts
  <1>2. act[a] \in Actor /\ k \in Segments /\ Used(k) /\ HeldBy(a) \in Claim
    BY <1>1, Acting DEF TypeOK, Actor, Fine
  <1>3. /\ Becomes(a, r) /\ SessionIs(k, [ses[k] EXCEPT !.lock = HeldBy(a)])
        /\ UNCHANGED <<lastId, lease, latest, appended, tail, reread>>
    BY DEF TakeLock
  <1> HIDE DEF k
  <1>4. /\ r \in Actor /\ r.at = "locked" /\ r.sid = act[a].sid /\ r.held = k
        /\ r.mem = act[a].mem /\ r.owed = act[a].owed /\ r.mark = act[a].mark /\ r.ceil = act[a].ceil
    BY <1>2 DEF Actor, Stages
  <1> HIDE DEF r
  <1>5. act' \in [Actors -> Actor] /\ act'[a] = r /\ \A b \in Actors \ {a} : act'[b] = act[b]
    BY <1>1, <1>3, <1>4, Becoming
  <1>6. /\ Still /\ ses' \in [Segments -> Session] /\ ses'[k].lock = HeldBy(a)
        /\ \A s \in Segments \ {k} : ses'[s] = ses[s]
    BY <1>1, <1>2, <1>3, LockSet
  <1>7. TypeOK'
    BY <1>1, <1>3, <1>5, <1>6 DEF TypeOK
  <1>8. \A b \in Actors \ {a} : NotTaken(b)
    BY <1>1, <1>5, <1>6, Acting DEF NotTaken, Locks, TypeOK, Actor
  <1>9. Used(act[a].sid)' /\ Used(act[a].held)'
    <2>1. act'[a].sid = k /\ act'[a].held = k
      BY <1>4, <1>5 DEF k
    <2>2. ses'[k].end # "unused"
      BY <1>2, <1>6 DEF Still, Used
    <2> QED BY <2>1, <2>2 DEF Used
  <1>10. (Known \subseteq Known' => Fine(a)') /\ (Unwritten(a)' => Unwritten(a))
    <2>1. Unwritten(a)' => Unwritten(a)
      BY <1>4, <1>5 DEF Unwritten, At
    <2>2. ~At(a, Holding)' /\ act'[a].sid = act'[a].held
      BY <1>4, <1>5 DEF At, Holding, k
    <2> QED BY <1>1, <1>3, <1>4, <1>5, <1>9, <2>1, <2>2 DEF Fine
  <1> QED BY <1>1, <1>3, <1>5, <1>6, <1>7, <1>8, <1>10, StillKeeps, LeaseStays

LEMMA UnlockKeeps ==
  ASSUME IInv, NEW a \in Actors, Unlock(a)
  PROVE  IInv'
  <1> DEFINE k == act[a].held
             s == IF a \in Turns THEN "compacted" ELSE "over"
             r == [act[a] EXCEPT !.at = s, !.held = 1, !.mark = 0, !.ceil = 0]
  <1>1. TypeOK /\ Chained /\ LeaseOK /\ Fine(a) /\ lastId \in Nat
    BY Parts DEF TypeOK
  <1>2. act[a] \in Actor /\ k \in Segments /\ Used(k) /\ Free \in Claim /\ s \in {"compacted", "over"}
    BY <1>1, Acting DEF TypeOK, Actor, Fine
  <1>3. /\ Becomes(a, r) /\ tail' = [tail EXCEPT ![a] = {}]
        /\ UNCHANGED <<lastId, lease, latest, appended, reread>>
        /\ IF Locks(a) THEN SessionIs(k, [ses[k] EXCEPT !.lock = Free]) ELSE UNCHANGED ses
    BY DEF Unlock
  <1> HIDE DEF k, s
  <1>4. /\ r \in Actor /\ r.at = s /\ r.sid = act[a].sid /\ r.held = 1
        /\ r.mem = act[a].mem /\ r.owed = act[a].owed /\ r.mark = 0 /\ r.ceil = 0
    BY <1>2, Numbers DEF Actor, Stages
  <1> HIDE DEF r
  <1>5. act' \in [Actors -> Actor] /\ act'[a] = r /\ \A b \in Actors \ {a} : act'[b] = act[b]
    BY <1>1, <1>3, <1>4, Becoming
  <1>6. /\ Still /\ ses' \in [Segments -> Session] /\ ses'[k].lock.by \in {ses[k].lock.by, Nobody}
        /\ \A j \in Segments \ {k} : ses'[j] = ses[j]
    <2>1. CASE Locks(a)
      BY <1>1, <1>2, <1>3, <2>1, LockSet, Acting
    <2>2. CASE ~Locks(a)
      BY <1>1, <1>3, <2>2 DEF Still, Used, Rotated, TypeOK
    <2> QED BY <2>1, <2>2
  <1>7. tail' \in [Actors -> SUBSET Messages] /\ \A b \in Actors \ {a} : tail'[b] = tail[b]
    BY <1>1, <1>3 DEF TypeOK
  <1>8. TypeOK'
    BY <1>1, <1>3, <1>5, <1>6, <1>7 DEF TypeOK
  <1>9. \A b \in Actors \ {a} : NotTaken(b)
    BY <1>1, <1>5, <1>6, Acting DEF NotTaken, Locks, TypeOK, Actor
  <1>10. Used(1)' /\ Used(act[a].sid)'
    <2>1. act[a].sid \in Segments
      BY <1>2 DEF Actor
    <2>2. act'[a].sid = act[a].sid
      BY <1>4, <1>5
    <2> QED BY <1>1, <1>6, <2>1, <2>2, Numbers DEF Still, Chained, Fine, Used
  <1>11. (Known \subseteq Known' => Fine(a)') /\ (Unwritten(a)' => Unwritten(a))
    <2>1. Unwritten(a)' => Unwritten(a)
      BY <1>2, <1>4, <1>5 DEF Unwritten, At
    <2>2. ~At(a, Holding)' /\ ~At(a, Seated)'
      BY <1>2, <1>4, <1>5 DEF At, Holding, Seated
    <2> QED BY <1>1, <1>3, <1>4, <1>5, <1>10, <2>1, <2>2 DEF Fine, Used
  <1> QED BY <1>1, <1>3, <1>5, <1>6, <1>7, <1>8, <1>9, <1>11, StillKeeps, LeaseStays

\* No actor moves: the renewal and the expiry of claims, and the ends of sessions.
LEMMA OutsideKeeps ==
  ASSUME IInv, TypeOK', Still, LeaseOK', UNCHANGED <<act, tail>>,
         \A s \in Segments : ses'[s].lock.by = ses[s].lock.by
  PROVE  IInv'
  <1>1. TypeOK
    BY Parts
  <1>2. \A b \in Actors : NotTaken(b)
    BY <1>1 DEF NotTaken, Locks, TypeOK, Actor
  <1> QED BY <1>2, StillKeeps

LEMMA ClaimsKeep ==
  ASSUME IInv,
         \/ \E a \in Actors : LockRefreshed(a)
         \/ \E s \in Segments : LeaseExpires(s) \/ LockExpires(s)
         \/ \E s \in Segments, reason \in {"automatic", "deliberate"} : EndSession(s, reason)
         \/ UNCHANGED vars
  PROVE  IInv'
  <1>1. TypeOK /\ Chained /\ LeaseOK /\ \A a \in Actors : Fine(a)
    BY Parts
  <1>2. \A s \in Segments : ses[s] \in Session /\ ses[s].lock \in Claim /\ (~Used(s) => ses[s] = Unused)
    BY <1>1 DEF TypeOK, Session, Chained
  <1>3. ASSUME NEW s \in Segments, Used(s), NEW c \in Claim, c.by = ses[s].lock.by,
               SessionIs(s, [ses[s] EXCEPT !.lock = c]),
               UNCHANGED <<lastId, lease, act, latest, appended, tail, reread>>
        PROVE  IInv'
    <2>1. /\ Still /\ ses' \in [Segments -> Session] /\ ses'[s].lock = c
          /\ \A k \in Segments \ {s} : ses'[k] = ses[k]
      BY <1>1, <1>3, LockSet
    <2>2. TypeOK' /\ LeaseOK'
      BY <1>1, <1>3, <2>1, LeaseStays DEF TypeOK
    <2> QED BY <1>3, <2>1, <2>2, OutsideKeeps
  <1>4. ASSUME NEW a \in Actors, LockRefreshed(a) PROVE IInv'
    <2>1. act[a].held \in Segments /\ Used(act[a].held)
      BY <1>1 DEF TypeOK, Actor, Fine
    <2>2. HeldBy(a) \in Claim /\ HeldBy(a).by = ses[act[a].held].lock.by
      BY <1>4, Acting DEF LockRefreshed, Locks
    <2> QED BY <1>3, <1>4, <2>1, <2>2 DEF LockRefreshed
  <1>5. ASSUME NEW s \in Segments, LockExpires(s) PROVE IInv'
    <2> DEFINE c == [ses[s].lock EXCEPT !.fresh = FALSE]
    <2>1. Used(s)
      BY <1>2, <1>5, Acting DEF LockExpires, Unused
    <2>2. c \in Claim /\ c.by = ses[s].lock.by
      BY <1>2 DEF Claim
    <2>3. SessionIs(s, [ses[s] EXCEPT !.lock = c])
          /\ UNCHANGED <<lastId, lease, act, latest, appended, tail, reread>>
      BY <1>5 DEF LockExpires
    <2> HIDE DEF c
    <2> QED BY <1>3, <2>1, <2>2, <2>3
  <1>6. ASSUME NEW s \in Segments, LeaseExpires(s) PROVE IInv'
    <2>1. lease \in [Segments -> Claim] /\ lease' = [lease EXCEPT ![s] = [lease[s] EXCEPT !.fresh = FALSE]]
      BY <1>1, <1>6 DEF LeaseExpires, TypeOK
    <2>2. lease' \in [Segments -> Claim] /\ \A k \in Segments : lease'[k].by = lease[k].by
      BY <2>1 DEF Claim
    <2>3. s = 1
      BY <1>1, <1>6, Acting DEF LeaseExpires, LeaseOK, OneLease
    <2>4. \A k \in Segments \ {1} : lease'[k] = lease[k]
      BY <2>1, <2>3
    <2>5. TypeOK' /\ LeaseOK' /\ UNCHANGED <<ses, lastId, act, latest, appended, tail, reread>>
      BY <1>1, <1>6, <2>2, <2>4 DEF LeaseExpires, TypeOK, LeaseOK, OneLease, LeaseIsLatest
    <2>6. Still
      BY <2>5 DEF Still, Used, Rotated
    <2> QED BY <2>5, <2>6, OutsideKeeps
  <1>7. ASSUME NEW s \in Segments, NEW reason \in {"automatic", "deliberate"}, EndSession(s, reason)
        PROVE  IInv'
    <2> DEFINE r == [ses[s] EXCEPT !.end = reason]
    <2>1. r \in Session /\ r.end = reason /\ r.rows = ses[s].rows /\ r.parent = ses[s].parent
          /\ r.lock = ses[s].lock
      BY <1>2 DEF Session
    <2>2. SessionIs(s, r) /\ Used(s) /\ ~Rotated(s)
          /\ UNCHANGED <<lastId, lease, act, latest, appended, tail, reread>>
      BY <1>7 DEF EndSession, Used, Rotated
    <2> HIDE DEF r
    <2>3. Still /\ ses' \in [Segments -> Session] /\ ses'[s] = r
          /\ \A k \in Segments \ {s} : ses'[k] = ses[k]
      BY <1>1, <2>1, <2>2, SessionStep
    <2>4. TypeOK' /\ LeaseOK'
      BY <1>1, <2>2, <2>3, LeaseStays DEF TypeOK
    <2>5. \A k \in Segments : ses'[k].lock.by = ses[k].lock.by
      BY <2>1, <2>3
    <2> QED BY <2>2, <2>3, <2>4, <2>5, OutsideKeeps
  <1>8. CASE UNCHANGED vars
    <2>1. UNCHANGED <<ses, lastId, lease, act, latest, appended, tail, reread>>
      BY <1>8 DEF vars
    <2>2. TypeOK' /\ LeaseOK'
      BY <1>1, <2>1, LeaseStays DEF TypeOK
    <2>3. Still
      BY <2>1 DEF Still, Used, Rotated
    <2> QED BY <2>1, <2>2, <2>3, OutsideKeeps
  <1> QED BY <1>4, <1>5, <1>6, <1>7, <1>8

(***************************************************************************)
(* Appending                                                               *)
(***************************************************************************)
\* An append adds one row to one session, numbered behind every row and every watermark.
LEMMA Appended ==
  ASSUME TypeOK, Chained, NEW s \in Segments, Used(s), NEW m \in Messages, Appends(s, m)
  PROVE  /\ Own(m) \in Row /\ Own(m).id = lastId + 1 /\ Own(m).of = {m}
         /\ ses' \in [Segments -> Session] /\ ses'[s].rows = ses[s].rows \cup {Own(m)}
         /\ \A k \in Segments \ {s} : ses'[k] = ses[k]
         /\ \A k \in Segments : /\ ses'[k].end = ses[k].end /\ ses'[k].parent = ses[k].parent
                                /\ ses'[k].lock = ses[k].lock
         /\ lastId \in Nat /\ lastId' = lastId + 1 /\ appended' = appended \cup {m}
         /\ appended' \in SUBSET Messages /\ tail' \in [Actors -> SUBSET Messages]
         /\ Chained'
  <1> DEFINE r == [ses[s] EXCEPT !.rows = ses[s].rows \cup {Own(m)}]
  <1>1. /\ ses \in [Segments -> Session] /\ lastId \in Nat /\ appended \in SUBSET Messages
        /\ tail \in [Actors -> SUBSET Messages]
    BY DEF TypeOK
  <1>2. Own(m) \in Row /\ Own(m).id = lastId + 1 /\ Own(m).of = {m}
    BY <1>1 DEF Own, Row
  <1> HIDE DEF Own
  <1>3. /\ r \in Session /\ r.rows = ses[s].rows \cup {Own(m)} /\ r.end = ses[s].end
        /\ r.parent = ses[s].parent /\ r.lock = ses[s].lock
    BY <1>1, <1>2 DEF Session
  <1>4. SessionIs(s, r) /\ lastId' = lastId + 1 /\ appended' = appended \cup {m} /\ tail' = Behind(s, m)
    BY DEF Appends
  <1> HIDE DEF r
  <1>5. ses' \in [Segments -> Session] /\ ses'[s] = r /\ \A k \in Segments \ {s} : ses'[k] = ses[k]
    BY <1>1, <1>3, <1>4 DEF SessionIs
  <1>6. tail' \in [Actors -> SUBSET Messages]
    BY <1>1, <1>4 DEF Behind
  <1>7. \A k \in Segments : /\ ses'[k].end = ses[k].end /\ ses'[k].parent = ses[k].parent
                            /\ ses'[k].lock = ses[k].lock
    BY <1>3, <1>5
  <1>8. Chained'
    <2>1. \A k \in Segments : Used(k)' = Used(k) /\ Rotated(k)' = Rotated(k)
      BY <1>7 DEF Used, Rotated
    <2>2. \A k \in Segments \ {1} : k - 1 \in Segments
      BY Numbers
    <2>3. \A k \in Segments : ~Used(k) => ses'[k] = ses[k]
      BY <1>5
    <2> QED BY <1>7, <2>1, <2>2, <2>3, Numbers DEF Chained
  <1> QED BY <1>1, <1>2, <1>3, <1>4, <1>5, <1>6, <1>7, <1>8

\* It falls behind the compactions of that session: those that have not set their ceiling
\* will copy it, the others will not.
LEMMA AppendedBehind ==
  ASSUME TypeOK, Chained, NEW s \in Segments, Used(s), NEW m \in Messages, Appends(s, m),
         NEW b \in Actors, act[b].mark <= lastId, act[b].ceil <= lastId
  PROVE  /\ ForeignTail(b) = {q \in Foreign(b) : q.id <= act[b].ceil}
         /\ \A r \in ses'[act[b].held].rows : r.id > act[b].mark => r \in Foreign(b) \/ r = Own(m)
         /\ Foreign(b) \subseteq {r \in ses'[act[b].held].rows : r.id > act[b].mark}
         /\ act[b].held = s => Own(m) \in {r \in ses'[act[b].held].rows : r.id > act[b].mark}
         /\ ForeignTail(b) = {r \in ses'[act[b].held].rows : r.id > act[b].mark /\ r.id <= act[b].ceil}
         /\ tail'[b] = IF At(b, {"captured", "summary", "rotating"}) /\ act[b].held = s
                       THEN tail[b] \cup {m} ELSE tail[b]
  <1>1. /\ Own(m).id = lastId + 1 /\ ses'[s].rows = ses[s].rows \cup {Own(m)} /\ lastId \in Nat
        /\ \A k \in Segments \ {s} : ses'[k] = ses[k]
    BY Appended
  <1>2. act[b].held \in Segments /\ act[b].mark \in Nat /\ act[b].ceil \in Nat
    BY DEF TypeOK, Actor
  <1>3. Own(m).id > act[b].mark /\ ~ (Own(m).id <= act[b].ceil)
    BY <1>1, <1>2
  <1>4. tail'[b] = IF At(b, {"captured", "summary", "rotating"}) /\ act[b].held = s
                   THEN tail[b] \cup {m} ELSE tail[b]
    BY DEF Appends, Behind
  <1> HIDE DEF Own
  <1>5. ses'[act[b].held].rows = IF act[b].held = s THEN ses[act[b].held].rows \cup {Own(m)}
                                                    ELSE ses[act[b].held].rows
    BY <1>1, <1>2
  <1> QED BY <1>3, <1>4, <1>5 DEF Foreign, ForeignTail

LEMMA AppendKeeps ==
  ASSUME IInv, TypeOK', LeaseOK', NEW s \in Segments, Used(s), NEW m \in Messages, Appends(s, m),
         m \notin Known, Known \cup {m} \subseteq Known', reread \subseteq reread',
         \A b \in Actors : (act'[b] = act[b] /\ m \notin {b} \cap Turns) \/ Fine(b)'
  PROVE  IInv'
  <1>1. TypeOK /\ Chained /\ RowsOK /\ NotDoubled /\ \A b \in Actors : Fine(b)
    BY Parts
  <1>2. /\ Own(m).id = lastId + 1 /\ Own(m).of = {m} /\ ses'[s].rows = ses[s].rows \cup {Own(m)}
        /\ \A k \in Segments \ {s} : ses'[k] = ses[k]
        /\ \A k \in Segments : ses'[k].end = ses[k].end /\ ses'[k].lock = ses[k].lock
        /\ lastId \in Nat /\ lastId' = lastId + 1 /\ Chained'
    BY <1>1, Appended
  <1> HIDE DEF Own
  <1>3. \A k \in Segments : \A r \in ses'[k].rows : r \in ses[k].rows \/ (k = s /\ r = Own(m))
    BY <1>2
  <1>4. \A k \in Segments : \A r \in ses[k].rows : r.id \in Nat /\ r.id <= lastId /\ r.of \subseteq Known
    BY <1>1 DEF RowsOK, Covered, Covers, TypeOK, Session, Row
  <1>5. RowsOK'
    <2> SUFFICES ASSUME NEW k \in Segments
                 PROVE  /\ IsFiniteSet(ses'[k].rows) /\ Covers(ses'[k].rows) \subseteq Known'
                        /\ \A r \in ses'[k].rows : r.id <= lastId'
      BY DEF RowsOK, Covered
    <2>1. IsFiniteSet(ses'[k].rows)
      <3>1. IsFiniteSet(ses[k].rows)
        BY <1>1 DEF RowsOK
      <3>2. CASE k = s
        <4>1. ses'[k].rows = ses[k].rows \cup {Own(m)}
          BY <1>2, <3>2
        <4> QED BY <3>1, <4>1, FS_AddElement
      <3>3. CASE k # s
        BY <1>2, <3>1, <3>3
      <3> QED BY <3>2, <3>3
    <2>2. \A r \in ses'[k].rows : r.of \subseteq Known'
      BY <1>2, <1>3, <1>4
    <2>3. \A r \in ses'[k].rows : r.id <= lastId'
      BY <1>2, <1>3, <1>4
    <2> QED BY <2>1, <2>2, <2>3 DEF Covers
  <1>6. NotDoubled'
    <2> SUFFICES ASSUME NEW k \in Segments, NEW q \in ses'[k].rows, NEW r \in ses'[k].rows, q # r
                 PROVE  q.of \cap r.of \subseteq reread'
      BY DEF NotDoubled
    <2>1. CASE q \in ses[k].rows /\ r \in ses[k].rows
      BY <1>1, <2>1 DEF NotDoubled
    <2>2. CASE q = Own(m) /\ r \in ses[k].rows
      BY <1>2, <1>4, <2>2
    <2>3. CASE q \in ses[k].rows /\ r = Own(m)
      BY <1>2, <1>4, <2>3
    <2> QED BY <1>3, <2>1, <2>2, <2>3
  <1>7. ASSUME NEW b \in Actors, act'[b] = act[b], m \notin {b} \cap Turns PROVE Fine(b)'
    <2>1. Fine(b) /\ act[b].sid \in Segments /\ act[b].held \in Segments /\ act[b].mark \in Nat /\ act[b].ceil \in Nat
      BY <1>1 DEF TypeOK, Actor
    <2>2. Used(act[b].sid)' /\ Used(act[b].held)' /\ Locks(b)' = Locks(b)
      BY <1>2, <1>7, <2>1 DEF Fine, Used, Locks
    <2>3. act'[b].mark <= lastId' /\ act'[b].ceil <= lastId'
      BY <1>2, <1>7, <2>1 DEF Fine
    <2>4. m \notin act[b].mem.of /\ act[b].mem.of \subseteq Known' \cup ({b} \cap Turns)
      <3>1. act[b].mem.of \subseteq Known \cup ({b} \cap Turns)
        BY <2>1 DEF Fine
      <3> QED BY <1>7, <3>1
    <2>5. ASSUME At(b, Holding), Locks(b)
          PROVE  tail'[b] \subseteq Covers(Copied(b)') /\ \A r \in Copied(b)' : act[b].mem.of \cap r.of \subseteq reread'
      <3>1. tail[b] \subseteq Covers(Copied(b)) /\ \A r \in Copied(b) : act[b].mem.of \cap r.of \subseteq reread
        BY <2>1, <2>5 DEF Fine
      <3>2. /\ \A r \in ses'[act[b].held].rows : r.id > act[b].mark => r \in Foreign(b) \/ r = Own(m)
            /\ Foreign(b) \subseteq {r \in ses'[act[b].held].rows : r.id > act[b].mark}
            /\ act[b].held = s => Own(m) \in {r \in ses'[act[b].held].rows : r.id > act[b].mark}
            /\ ForeignTail(b) = {r \in ses'[act[b].held].rows : r.id > act[b].mark /\ r.id <= act[b].ceil}
            /\ tail'[b] = IF At(b, {"captured", "summary", "rotating"}) /\ act[b].held = s
                          THEN tail[b] \cup {m} ELSE tail[b]
        <4>1. TypeOK /\ Chained /\ act[b].mark <= lastId /\ act[b].ceil <= lastId
          BY <1>1, <2>1 DEF Fine
        <4> QED BY <4>1, AppendedBehind
      <3>3. CASE At(b, {"ceiled", "publishing"})
        <4>1. Copied(b)' = Copied(b)
          BY <1>7, <3>2, <3>3 DEF Copied, Foreign, ForeignTail, At
        <4>2. tail'[b] = tail[b]
          BY <3>2, <3>3 DEF At
        <4> QED BY <3>1, <4>1, <4>2
      <3>4. CASE ~At(b, {"ceiled", "publishing"})
        <4>1. Copied(b)' = {r \in ses'[act[b].held].rows : r.id > act[b].mark} /\ Copied(b) = Foreign(b)
          BY <1>7, <3>4 DEF Copied, Foreign, At
        <4>2. Copied(b) \subseteq Copied(b)' /\ (act[b].held = s => Own(m) \in Copied(b)')
              /\ \A r \in Copied(b)' : r \in Copied(b) \/ r = Own(m)
          BY <3>2, <4>1
        <4>3. tail'[b] \subseteq Covers(Copied(b)')
          BY <1>2, <3>1, <3>2, <4>2 DEF Covers
        <4> QED BY <1>2, <2>4, <3>1, <4>2, <4>3
      <3> QED BY <3>3, <3>4
    <2> QED BY <1>7, <2>1, <2>2, <2>3, <2>4, <2>5 DEF Fine, At
  <1>8. \A b \in Actors : Fine(b)'
    BY <1>7
  <1> QED BY <1>2, <1>5, <1>6, <1>8, PartsNext

\* A turn appends its message and owes nothing after it.
LEMMA Stored ==
  ASSUME IInv, NEW t \in Turns, act[t].owed, NEW r \in Actor, Becomes(t, r), r.owed = FALSE,
         r.at \notin {"idle", "loaded", "waiting", "served", "admitted"},
         NEW s \in Segments, Appends(s, t)
  PROVE  /\ t \in Messages /\ t \notin Known /\ Known \cup {t} \subseteq Known'
         /\ act' \in [Actors -> Actor] /\ act'[t] = r /\ \A b \in Actors \ {t} : act'[b] = act[b]
  <1>1. TypeOK /\ t \in Actors /\ t \in Messages
    BY Parts, Acting
  <1>2. act' \in [Actors -> Actor] /\ act'[t] = r /\ \A b \in Actors \ {t} : act'[b] = act[b]
    BY <1>1, Becoming
  <1>3. t \notin Known
    BY DEF Known, Unwritten
  <1>4. appended' = appended \cup {t}
    BY DEF Appends
  <1>5. \A u \in Turns : Unwritten(u)' => Unwritten(u)
    BY <1>2, Acting DEF Unwritten, At
  <1>6. ~Unwritten(t)'
    BY <1>2 DEF Unwritten, At
  <1>7. Known \subseteq Known'
    BY <1>4, <1>5, KnownGrows
  <1>8. t \in Known'
    BY <1>6 DEF Known
  <1> QED BY <1>1, <1>2, <1>3, <1>7, <1>8

\* The flush of a turn's own message, before its rotation publishes, or outside of one.
LEMMA FlushKeeps ==
  ASSUME IInv, NEW t \in Turns, Flush(t) \/ FlushOwn(t)
  PROVE  IInv'
  <1> DEFINE k == Adopted(act[t].sid)
             g == IF At(t, {"ceiled"}) THEN "publishing" ELSE act[t].at
             r == [Flushed(t) EXCEPT !.at = g]
  <1>1. TypeOK /\ Chained /\ LeaseOK /\ Fine(t) /\ t \in Actors /\ t \in Messages
    BY Parts, Acting
  <1>2. act[t] \in Actor /\ act[t].sid \in Segments /\ act[t].held \in Segments /\ Used(act[t].sid)
    BY <1>1 DEF TypeOK, Actor, Fine
  <1>3. k \in Segments /\ Used(k)
    BY <1>1, <1>2, Places
  <1>4. /\ At(t, {"running", "compacted", "ceiled"}) /\ act[t].owed /\ Leases(t, act[t].sid)
        /\ Appends(k, t) /\ LeaseIs(act[t].sid, HeldBy(t)) /\ UNCHANGED <<latest, reread>>
    BY DEF Flush, FlushOwn, Lands, At
  <1> HIDE DEF k
  <1>5. g \in {"running", "compacted", "publishing"} /\ (g = "publishing" <=> At(t, {"ceiled"}))
    BY <1>4 DEF At
  <1>6. Becomes(t, r)
    <2>1. CASE Flush(t)
      <3>1. ~At(t, {"ceiled"}) /\ Becomes(t, Flushed(t))
        BY <2>1 DEF Flush, At
      <3>2. [Flushed(t) EXCEPT !.at = act[t].at] = Flushed(t)
        BY <1>2, <1>3 DEF Flushed, Actor, k
      <3> QED BY <3>1, <3>2
    <2>2. CASE FlushOwn(t)
      BY <2>2 DEF FlushOwn
    <2> QED BY <2>1, <2>2
  <1>7. /\ r \in Actor /\ r.at = g /\ r.sid = k /\ r.held = act[t].held /\ r.mem = act[t].mem
        /\ r.owed = FALSE /\ r.mark = act[t].mark /\ r.ceil = act[t].ceil
    <2>1. g \in Stages
      BY <1>5 DEF Stages
    <2> HIDE DEF g
    <2> QED BY <1>2, <1>3, <2>1 DEF Flushed, Actor, k
  <1> HIDE DEF r, g
  <1>8. /\ t \notin Known /\ Known \cup {t} \subseteq Known'
        /\ act' \in [Actors -> Actor] /\ act'[t] = r /\ \A b \in Actors \ {t} : act'[b] = act[b]
    BY <1>3, <1>4, <1>5, <1>6, <1>7, Stored
  <1>9. /\ ses' \in [Segments -> Session] /\ lastId \in Nat /\ lastId' = lastId + 1
        /\ appended' \in SUBSET Messages /\ tail' \in [Actors -> SUBSET Messages]
        /\ \A j \in Segments : ses'[j].end = ses[j].end /\ ses'[j].lock = ses[j].lock
    BY <1>1, <1>3, <1>4, Appended
  <1>10. LeaseOK' /\ lease' \in [Segments -> Claim]
    <2>1. latest = t /\ latest' = latest
      BY <1>1, <1>2, <1>4, Latest
    <2> QED BY <1>1, <1>2, <1>4, <2>1, LeaseSet, Acting
  <1>11. TypeOK'
    <2>1. lastId' \in Nat /\ latest' \in Turns \cup {Nobody} /\ reread' \in SUBSET Messages
      BY <1>1, <1>4, <1>9 DEF TypeOK
    <2> QED BY <1>8, <1>9, <1>10, <2>1 DEF TypeOK
  <1>12. Fine(t)'
    <2>1. Used(act[t].sid)' /\ Used(act[t].held)'
      <3>1. act'[t].sid = k /\ act'[t].held = act[t].held
        BY <1>7, <1>8
      <3>2. ses'[k].end # "unused" /\ ses'[act[t].held].end # "unused"
        BY <1>1, <1>2, <1>3, <1>9 DEF Used, Fine
      <3> QED BY <3>1, <3>2 DEF Used
    <2>2. ~At(t, Seated)'
      BY <1>5, <1>7, <1>8 DEF At, Seated
    <2>3. act'[t].mark <= lastId' /\ act'[t].ceil <= lastId'
      <3>1. act[t].mark \in Nat /\ act[t].ceil \in Nat
        BY <1>2 DEF Actor
      <3>2. act[t].mark <= lastId /\ act[t].ceil <= lastId
        BY <1>1 DEF Fine
      <3>3. act'[t].mark = act[t].mark /\ act'[t].ceil = act[t].ceil
        BY <1>7, <1>8
      <3> QED BY <1>9, <3>1, <3>2, <3>3
    <2>4. act'[t].mem = act[t].mem /\ act'[t].mem.of \subseteq Known' \cup ({t} \cap Turns)
      BY <1>1, <1>7, <1>8 DEF Fine
    <2>5. ASSUME At(t, Holding)', Locks(t)'
          PROVE  tail'[t] \subseteq Covers(Copied(t)') /\ \A q \in Copied(t)' : act'[t].mem.of \cap q.of \subseteq reread'
      <3>1. At(t, {"ceiled"}) /\ act'[t].at = "publishing"
        BY <1>5, <1>7, <1>8, <2>5 DEF At, Holding
      <3>2. Locks(t) /\ At(t, Holding)
        BY <1>2, <1>7, <1>8, <1>9, <2>5, <3>1 DEF Locks, At, Holding
      <3>3. /\ ForeignTail(t) = {q \in ses'[act[t].held].rows : q.id > act[t].mark /\ q.id <= act[t].ceil}
            /\ tail'[t] = tail[t]
        BY <1>1, <1>3, <1>4, <3>1, AppendedBehind DEF Fine, At
      <3>4. Copied(t)' = ForeignTail(t) /\ Copied(t) = ForeignTail(t)
        <4>1. Copied(t) = ForeignTail(t)
          BY <3>1 DEF Copied, At
        <4>2. Copied(t)' = ForeignTail(t)'
          BY <3>1 DEF Copied, At
        <4>3. ForeignTail(t)' = {q \in ses'[act[t].held].rows : q.id > act[t].mark /\ q.id <= act[t].ceil}
          BY <1>7, <1>8 DEF ForeignTail, Foreign
        <4> QED BY <3>3, <4>1, <4>2, <4>3
      <3> QED BY <1>1, <1>4, <2>4, <3>2, <3>3, <3>4 DEF Fine
    <2> QED BY <2>1, <2>2, <2>3, <2>4, <2>5 DEF Fine
  <1>13. \A b \in Actors : (act'[b] = act[b] /\ t \notin {b} \cap Turns) \/ Fine(b)'
    BY <1>8, <1>12
  <1> QED BY <1>1, <1>3, <1>4, <1>8, <1>10, <1>11, <1>13, AppendKeeps

\* Writers beside the turns.
LEMMA BesideKeeps ==
  ASSUME IInv, NEW n \in Notes \cup Deliveries, Land(n) \/ Deliver(n)
  PROVE  IInv'
  <1>1. TypeOK /\ Chained /\ LeaseOK
    BY Parts
  <1>2. n \in Messages /\ n \notin Turns
    BY ConstantsAssumption DEF Messages
  <1>3. PICK s \in Segments : Used(s) /\ Appends(s, n) /\ (UNCHANGED <<lease, latest>> \/ (LeaseIs(s, Free) /\ latest' = Nobody))
    <2>1. CASE Land(n)
      BY <2>1 DEF Land
    <2>2. CASE Deliver(n)
      BY <2>2 DEF Deliver
    <2> QED BY <2>1, <2>2
  <1>4. n \notin appended /\ UNCHANGED <<act, reread>>
    BY DEF Land, Deliver
  <1>5. LeaseOK' /\ lease' \in [Segments -> Claim] /\ latest' \in Turns \cup {Nobody}
    <2>1. CASE UNCHANGED <<lease, latest>>
      BY <1>1, <2>1, LeaseStays
    <2>2. CASE LeaseIs(s, Free) /\ latest' = Nobody
      BY <1>1, <1>3, <2>2, LeaseSet, Acting
    <2> QED BY <1>3, <2>1, <2>2
  <1>6. /\ ses' \in [Segments -> Session] /\ lastId \in Nat /\ lastId' = lastId + 1
        /\ appended' = appended \cup {n} /\ appended' \in SUBSET Messages
        /\ tail' \in [Actors -> SUBSET Messages]
    BY <1>1, <1>2, <1>3, Appended
  <1>7. TypeOK'
    <2>1. lastId' \in Nat /\ act' \in [Actors -> Actor] /\ reread' \in SUBSET Messages
      BY <1>1, <1>4, <1>6 DEF TypeOK
    <2> QED BY <1>5, <1>6, <2>1 DEF TypeOK
  <1>8. n \notin Known /\ Known \cup {n} \subseteq Known'
    BY <1>2, <1>4, <1>6 DEF Known, Unwritten, At
  <1>9. \A b \in Actors : act'[b] = act[b] /\ n \notin {b} \cap Turns
    BY <1>2, <1>4
  <1> QED BY <1>2, <1>3, <1>4, <1>5, <1>7, <1>8, <1>9, AppendKeeps

\* A rotation that finds the session grown reads it again.
LEMMA GrownIs ==
  ASSUME IInv, NEW t \in Turns, AdoptGrown(t), NEW S \in Session, ses'[act[t].sid] = S, IsFiniteSet(S.rows)
  PROVE  /\ act[t] \in Actor /\ act[t].sid \in Segments /\ act[t].held = act[t].sid /\ Used(act[t].sid)
         /\ t \in Actors /\ At(t, {"captured"})
         /\ act' \in [Actors -> Actor] /\ \A b \in Actors \ {t} : act'[b] = act[b]
         /\ act'[t].at = "rotating" /\ act'[t].sid = act[t].sid /\ act'[t].held = act[t].held
         /\ act'[t].mem.of = Covers(S.rows) /\ act'[t].owed = FALSE
         /\ act'[t].mark = act[t].mark /\ act'[t].ceil = act[t].ceil
         /\ reread' = reread \cup Covers({r \in S.rows : r.id > act[t].mark}) /\ reread' \in SUBSET Messages
         /\ ~Unwritten(t)'
         /\ \E r \in Actor : Becomes(t, r) /\ r.owed = FALSE /\ r.at = "rotating"
  <1> DEFINE s == act[t].sid
             m == [len |-> Cardinality(S.rows), of |-> Covers(S.rows)]
             r == [Flushed(t) EXCEPT !.at = "rotating", !.mem = m]
  <1>1. TypeOK /\ Chained /\ Fine(t) /\ t \in Actors
    BY Parts, Acting
  <1>2. At(t, {"captured"}) /\ ~Rotated(s) /\ ReadAgain(t, s)
        /\ reread' = reread \cup Covers({q \in S.rows : q.id > act[t].mark})
    BY DEF AdoptGrown, MayRotate
  <1>3. act[t] \in Actor /\ s \in Segments /\ act[t].held = s /\ Used(s)
    BY <1>1, <1>2 DEF TypeOK, Actor, Fine, At, Seated
  <1>4. Adopted(s) = s
    BY <1>2 DEF Adopted, Adoptable
  <1>5. Cardinality(S.rows) \in Nat /\ \A q \in S.rows : q.of \subseteq Messages
    BY FS_CardinalityType DEF Session, Row
  <1>6. m \in [len : Nat, of : SUBSET Messages] /\ m.of = Covers(S.rows)
    BY <1>5 DEF Covers
  <1>7. Becomes(t, r)
    BY <1>2 DEF ReadAgain
  <1> HIDE DEF m
  <1>8. /\ r \in Actor /\ r.at = "rotating" /\ r.sid = s /\ r.held = act[t].held /\ r.mem = m
        /\ r.owed = FALSE /\ r.mark = act[t].mark /\ r.ceil = act[t].ceil
    BY <1>3, <1>4, <1>6 DEF Flushed, Actor, Stages
  <1> HIDE DEF r
  <1>9. act' \in [Actors -> Actor] /\ act'[t] = r /\ \A b \in Actors \ {t} : act'[b] = act[b]
    BY <1>1, <1>7, <1>8, Becoming
  <1>10. reread' \in SUBSET Messages
    BY <1>1, <1>2, <1>5 DEF TypeOK, Covers
  <1>11. ~Unwritten(t)'
    BY <1>8, <1>9 DEF Unwritten, At
  <1> QED BY <1>1, <1>2, <1>3, <1>6, <1>7, <1>8, <1>9, <1>10, <1>11

LEMMA GrownFine ==
  ASSUME IInv, NEW t \in Turns, AdoptGrown(t), NEW S \in Session, ses'[act[t].sid] = S, IsFiniteSet(S.rows),
         S.end # "unused", Covers(S.rows) \subseteq Known', lastId' \in Nat, lastId <= lastId',
         Locks(t)' => Locks(t) /\ tail'[t] \subseteq Covers({r \in S.rows : r.id > act[t].mark})
  PROVE  Fine(t)'
  <1>1. /\ act[t] \in Actor /\ act[t].sid \in Segments /\ act[t].held = act[t].sid
        /\ act'[t].at = "rotating" /\ act'[t].sid = act[t].sid /\ act'[t].held = act[t].held
        /\ act'[t].mem.of = Covers(S.rows) /\ act'[t].mark = act[t].mark /\ act'[t].ceil = act[t].ceil
        /\ reread' = reread \cup Covers({r \in S.rows : r.id > act[t].mark})
    BY GrownIs
  <1>2. Fine(t) /\ lastId \in Nat /\ act[t].mark \in Nat /\ act[t].ceil \in Nat
    BY <1>1, Parts, Acting DEF TypeOK, Actor
  <1>3. act'[t].mark <= lastId' /\ act'[t].ceil <= lastId'
    BY <1>1, <1>2 DEF Fine
  <1>4. Used(act[t].sid)' /\ Used(act[t].held)'
    BY <1>1 DEF Used
  <1>5. Copied(t)' = {r \in S.rows : r.id > act[t].mark}
    BY <1>1 DEF Copied, Foreign, At
  <1>6. \A q \in Copied(t)' : q.of \subseteq reread'
    BY <1>1, <1>5 DEF Covers
  <1> QED BY <1>1, <1>3, <1>4, <1>5, <1>6 DEF Fine

LEMMA AdoptGrownKeeps ==
  ASSUME IInv, NEW t \in Turns, AdoptGrown(t)
  PROVE  IInv'
  <1> DEFINE s == act[t].sid
  <1>1. TypeOK /\ Chained /\ LeaseOK /\ RowsOK /\ Fine(t) /\ t \in Actors /\ t \in Messages
    BY Parts, Acting
  <1>2. act[t].sid \in Segments /\ Used(act[t].sid) /\ lastId \in Nat
    BY <1>1 DEF TypeOK, Actor, Fine
  <1>3. act[t].held = act[t].sid /\ At(t, {"captured"}) /\ latest' = latest /\ ~Rotated(act[t].sid)
    BY <1>1 DEF AdoptGrown, MayRotate, At, Fine, Seated
  <1>4. CASE act[t].owed
    <2>1. Lands(t) /\ Appends(act[t].sid, t) /\ LeaseIs(act[t].sid, HeldBy(t))
      BY <1>4 DEF AdoptGrown
    <2>2. /\ Own(t).id = lastId + 1 /\ Own(t).of = {t} /\ Own(t) \in Row
          /\ ses' \in [Segments -> Session]
          /\ ses'[act[t].sid].rows = ses[act[t].sid].rows \cup {Own(t)}
          /\ \A k \in Segments : ses'[k].end = ses[k].end /\ ses'[k].lock = ses[k].lock
          /\ lastId' = lastId + 1 /\ appended' \in SUBSET Messages
          /\ tail' \in [Actors -> SUBSET Messages]
      BY <1>1, <1>2, <2>1, Appended
    <2> HIDE DEF Own
    <2>3. PICK S \in Session : ses'[act[t].sid] = S
      BY <1>2, <2>2
    <2>4. IsFiniteSet(S.rows) /\ S.end # "unused"
      <3>1. IsFiniteSet(ses[act[t].sid].rows)
        BY <1>1, <1>2 DEF RowsOK
      <3>2. S.rows = ses[act[t].sid].rows \cup {Own(t)}
        BY <2>2, <2>3
      <3>3. IsFiniteSet(S.rows)
        BY <3>1, <3>2, FS_AddElement
      <3>4. S.end # "unused"
        BY <1>2, <2>2, <2>3 DEF Used
      <3> QED BY <3>3, <3>4
    <2>5. /\ act' \in [Actors -> Actor] /\ reread' \in SUBSET Messages /\ reread \subseteq reread'
          /\ \A b \in Actors \ {t} : act'[b] = act[b]
          /\ \E r \in Actor : Becomes(t, r) /\ r.owed = FALSE /\ r.at = "rotating"
          /\ act'[t].held = act[t].held
      BY <2>3, <2>4, GrownIs
    <2>6. t \notin Known /\ Known \cup {t} \subseteq Known'
      BY <1>2, <1>4, <2>1, <2>5, Stored
    <2>7. LeaseOK' /\ lease' \in [Segments -> Claim]
      <3>1. latest = t /\ latest' = latest
        BY <1>1, <1>2, <1>3, <2>1, Latest DEF Lands
      <3> QED BY <1>1, <1>2, <2>1, <3>1, LeaseSet, Acting
    <2>8. TypeOK'
      <3>1. lastId' \in Nat /\ latest' \in Turns \cup {Nobody}
        BY <1>1, <1>2, <1>3, <2>2 DEF TypeOK
      <3> QED BY <2>2, <2>5, <2>7, <3>1 DEF TypeOK
    <2>9. Covers(S.rows) \subseteq Known'
      <3>1. \A q \in ses[act[t].sid].rows : q.of \subseteq Known
        BY <1>1, <1>2 DEF RowsOK, Covered, Covers
      <3>2. \A q \in S.rows : q.of \subseteq Known'
        BY <2>2, <2>3, <2>6, <3>1
      <3> QED BY <3>2 DEF Covers
    <2>10. ASSUME Locks(t)'
           PROVE  Locks(t) /\ tail'[t] \subseteq Covers({r \in S.rows : r.id > act[t].mark})
      <3>1. Locks(t)
        BY <1>2, <1>3, <2>2, <2>5, <2>10 DEF Locks
      <3>2. tail[t] \subseteq Covers(Foreign(t))
        BY <1>1, <1>3, <3>1 DEF Fine, At, Holding, Copied
      <3>3. /\ Foreign(t) \subseteq {r \in S.rows : r.id > act[t].mark}
            /\ Own(t) \in {r \in S.rows : r.id > act[t].mark}
            /\ tail'[t] = tail[t] \cup {t}
        BY <1>1, <1>2, <1>3, <2>1, <2>3, AppendedBehind DEF Fine, At
      <3> QED BY <2>2, <3>1, <3>2, <3>3 DEF Covers
    <2>11. Fine(t)'
      BY <1>2, <2>2, <2>3, <2>4, <2>9, <2>10, GrownFine
    <2>12. \A b \in Actors : (act'[b] = act[b] /\ t \notin {b} \cap Turns) \/ Fine(b)'
      BY <2>5, <2>11
    <2> QED BY <1>1, <1>2, <2>1, <2>5, <2>6, <2>7, <2>8, <2>12, AppendKeeps
  <1>5. CASE ~act[t].owed
    <2>1. UNCHANGED <<ses, lastId, lease, appended, tail>>
      BY <1>5 DEF AdoptGrown
    <2>2. PICK S \in Session : ses'[act[t].sid] = S /\ ses[act[t].sid] = S
      BY <1>1, <1>2, <2>1 DEF TypeOK
    <2>3. IsFiniteSet(S.rows) /\ S.end # "unused" /\ Covers(S.rows) \subseteq Known
      BY <1>1, <1>2, <2>2 DEF RowsOK, Covered, Used
    <2>4. /\ act' \in [Actors -> Actor] /\ reread' \in SUBSET Messages /\ reread \subseteq reread'
          /\ \A b \in Actors \ {t} : act'[b] = act[b]
          /\ ~Unwritten(t)' /\ act'[t].held = act[t].held
      BY <2>2, <2>3, GrownIs
    <2>5. LeaseOK' /\ TypeOK'
      BY <1>1, <1>3, <2>1, <2>4, LeaseStays DEF TypeOK
    <2>6. Still
      BY <2>1, <2>4 DEF Still, Used, Rotated
    <2>7. \A b \in Actors \ {t} : NotTaken(b)
      BY <2>1, <2>4 DEF NotTaken, Locks
    <2>8. ASSUME Known \subseteq Known' PROVE Fine(t)'
      <3>1. ASSUME Locks(t)'
            PROVE  Locks(t) /\ tail'[t] \subseteq Covers({r \in S.rows : r.id > act[t].mark})
        <4>1. Locks(t)
          BY <2>1, <2>4, <3>1 DEF Locks
        <4>2. tail[t] \subseteq Covers(Foreign(t)) /\ Foreign(t) = {r \in S.rows : r.id > act[t].mark}
          BY <1>1, <1>3, <2>2, <4>1 DEF Fine, At, Holding, Copied, Foreign
        <4> QED BY <2>1, <4>1, <4>2
      <3>2. Covers(S.rows) \subseteq Known' /\ lastId' \in Nat /\ lastId <= lastId'
        BY <1>2, <2>1, <2>3, <2>8
      <3> QED BY <2>2, <2>3, <3>1, <3>2, GrownFine
    <2> QED BY <2>1, <2>4, <2>5, <2>6, <2>7, <2>8, StillKeeps
  <1> QED BY <1>4, <1>5

(***************************************************************************)
(* Commits of a compaction                                                 *)
(***************************************************************************)
\* What a compaction that has its lock writes: the summary and copies of what is in hand.
Written(a) == {Summary(a)} \cup Clones(Copied(a), lastId + 1)

LEMMA WrittenIs ==
  ASSUME IInv, NEW a \in Actors, At(a, {"summary", "publishing"}), Locks(a)
  PROVE  /\ Written(a) \subseteq Row /\ IsFiniteSet(Written(a)) /\ Cardinality(Copied(a)) \in Nat
         /\ \A r \in Written(a) : r.id <= lastId + 1 + Cardinality(Copied(a))
         /\ Covers(Written(a)) \subseteq Known \cup ({a} \cap Turns)
         /\ tail[a] \subseteq Covers(Written(a))
         /\ \A q, r \in Written(a) : q # r => q.of \cap r.of \subseteq reread
  <1> DEFINE F == Copied(a)
             C == Clones(F, lastId + 1)
  <1>1. TypeOK /\ RowsOK /\ NotDoubled /\ Fine(a)
    BY Parts
  <1>2. act[a] \in Actor /\ act[a].held \in Segments /\ lastId \in Nat /\ lastId + 1 \in Nat
        /\ act[a].mem.of \subseteq Messages
    BY <1>1 DEF TypeOK, Actor
  <1>3. F \subseteq ses[act[a].held].rows
    BY DEF Copied, ForeignTail, Foreign
  <1>4. ses[act[a].held].rows \subseteq Row /\ IsFiniteSet(ses[act[a].held].rows)
        /\ Covered(act[a].held) \subseteq Known
    BY <1>1, <1>2 DEF TypeOK, Session, RowsOK
  <1>5. /\ tail[a] \subseteq Covers(F) /\ \A r \in F : act[a].mem.of \cap r.of \subseteq reread
        /\ act[a].mem.of \subseteq Known \cup ({a} \cap Turns)
    BY <1>1 DEF Fine, At, Holding
  <1>6. \A q, r \in F : q # r => q.of \cap r.of \subseteq reread
    BY <1>1, <1>2, <1>3 DEF NotDoubled
  <1>7. F \subseteq Row /\ IsFiniteSet(F) /\ \A r \in F : r.of \subseteq Known
    <2>1. IsFiniteSet(F)
      BY <1>3, <1>4, FS_Subset
    <2>2. \A r \in F : r.of \subseteq Covered(act[a].held)
      BY <1>3 DEF Covered, Covers
    <2> QED BY <1>3, <1>4, <2>1, <2>2
  <1> HIDE DEF F
  <1>8. /\ C \subseteq Row /\ IsFiniteSet(C) /\ Cardinality(F) \in Nat
        /\ \A c \in C : c.id <= lastId + 1 + Cardinality(F)
        /\ \A c \in C : \E r \in F : c.of = r.of
        /\ \A b, c \in C : b # c => \E q, r \in F : q # r /\ b.of = q.of /\ c.of = r.of
        /\ Covers(C) = Covers(F)
    BY <1>2, <1>7, Cloned
  <1>9. Summary(a) \in Row /\ Summary(a).id = lastId + 1 /\ Summary(a).of = act[a].mem.of
    BY <1>2 DEF Summary, Row
  <1>10. Written(a) = {Summary(a)} \cup C
    BY DEF Written, F
  <1> HIDE DEF C, Summary
  <1>11. IsFiniteSet(Written(a))
    <2>1. IsFiniteSet(C \cup {Summary(a)}) /\ Written(a) = C \cup {Summary(a)}
      BY <1>8, <1>10, FS_AddElement
    <2> QED BY <2>1
  <1>12. \A r \in Written(a) : r.id <= lastId + 1 + Cardinality(F)
    BY <1>2, <1>8, <1>9, <1>10
  <1>13. \A r \in Written(a) : r.of \subseteq Known \cup ({a} \cap Turns)
    BY <1>5, <1>7, <1>8, <1>9, <1>10
  <1>14. Covers(C) \subseteq Covers(Written(a))
    BY <1>10 DEF Covers
  <1>15. \A q, r \in Written(a) : q # r => q.of \cap r.of \subseteq reread
    <2>1. \A c \in C : act[a].mem.of \cap c.of \subseteq reread
      BY <1>5, <1>8
    <2>2. \A b, c \in C : b # c => b.of \cap c.of \subseteq reread
      BY <1>6, <1>8
    <2> QED BY <1>9, <1>10, <2>1, <2>2
  <1>16. Covers(Written(a)) \subseteq Known \cup ({a} \cap Turns)
    BY <1>13 DEF Covers
  <1> QED BY <1>5, <1>8, <1>9, <1>10, <1>11, <1>12, <1>14, <1>15, <1>16 DEF F

\* The compaction writes them to its session, or to a new one.
LEMMA CommitKeeps ==
  ASSUME IInv, NEW a \in Actors, At(a, {"summary", "publishing"}), Locks(a),
         NEW s \in Segments, Becomes(a, Compacted(a, s)), ses'[s].end # "unused",
         NEW k \in Segments, k = act[a].held \/ ~Used(k), ses'[k].rows = Written(a),
         ses' \in [Segments -> Session], Chained',
         \A j \in Segments \ {k} : ses'[j].rows = ses[j].rows,
         \A j \in Segments : Used(j) => ses'[j].end # "unused" /\ ses'[j].lock.by = ses[j].lock.by,
         lastId' = lastId + 1 + Cardinality(Copied(a)),
         UNCHANGED <<lease, latest, appended, tail, reread>>
  PROVE  IInv'
  <1> DEFINE r == Compacted(a, s)
  <1>1. TypeOK /\ LeaseOK /\ RowsOK /\ NotDoubled /\ \A b \in Actors : Fine(b)
    BY Parts
  <1>2. act[a] \in Actor /\ lastId \in Nat
    BY <1>1 DEF TypeOK
  <1>3. /\ r \in Actor /\ r.at = "closing" /\ r.sid = s /\ r.owed = FALSE /\ r.mem.of = act[a].mem.of
        /\ r.held = act[a].held /\ r.mark = act[a].mark /\ r.ceil = act[a].ceil
    BY <1>2 DEF Compacted, Actor, Stages
  <1> HIDE DEF r
  <1>4. act' \in [Actors -> Actor] /\ act'[a] = r /\ \A b \in Actors \ {a} : act'[b] = act[b]
    BY <1>1, <1>3, Becoming DEF r
  <1>5. /\ Written(a) \subseteq Row /\ IsFiniteSet(Written(a)) /\ Cardinality(Copied(a)) \in Nat
        /\ \A q \in Written(a) : q.id <= lastId'
        /\ Covers(Written(a)) \subseteq Known \cup ({a} \cap Turns)
        /\ \A p, q \in Written(a) : p # q => p.of \cap q.of \subseteq reread
    BY WrittenIs
  <1>6. lastId' \in Nat /\ lastId <= lastId'
    BY <1>2, <1>5
  <1>7. TypeOK' /\ LeaseOK'
    BY <1>1, <1>4, <1>6, LeaseStays DEF TypeOK
  <1>8. ~Unwritten(a)'
    BY <1>3, <1>4 DEF Unwritten, At
  <1>9. Known \cup ({a} \cap Turns) \subseteq Known'
    <2>1. \A t \in Turns : Unwritten(t)' => Unwritten(t)
      BY <1>4, <1>8, Acting DEF Unwritten, At
    <2>2. Known \subseteq Known'
      BY <2>1, KnownGrows
    <2> QED BY <1>8, <2>2 DEF Known
  <1>10. RowsOK'
    <2> SUFFICES ASSUME NEW j \in Segments
                 PROVE  /\ IsFiniteSet(ses'[j].rows) /\ Covers(ses'[j].rows) \subseteq Known'
                        /\ \A q \in ses'[j].rows : q.id <= lastId'
      BY DEF RowsOK, Covered
    <2>1. CASE j = k
      BY <1>5, <1>9, <2>1
    <2>2. CASE j # k
      <3>1. ses'[j].rows = ses[j].rows /\ ses[j].rows \subseteq Row
        BY <1>1, <2>2 DEF TypeOK, Session
      <3>2. IsFiniteSet(ses[j].rows) /\ Covers(ses[j].rows) \subseteq Known' /\ \A q \in ses[j].rows : q.id <= lastId
        BY <1>1, <1>9 DEF RowsOK, Covered
      <3>3. \A q \in ses[j].rows : q.id <= lastId'
        BY <1>2, <1>6, <3>1, <3>2 DEF Row
      <3> QED BY <3>1, <3>2, <3>3
    <2> QED BY <2>1, <2>2
  <1>11. NotDoubled'
    <2>1. \A j \in Segments : ses'[j].rows = ses[j].rows \/ ses'[j].rows = Written(a)
      OBVIOUS
    <2> QED BY <1>1, <1>5, <2>1 DEF NotDoubled
  <1>12. Fine(a)'
    <2>1. Used(act[a].sid)' /\ Used(act[a].held)'
      <3>1. act[a].held \in Segments /\ Used(act[a].held)
        BY <1>1, <1>2 DEF Fine, Actor
      <3>2. act'[a].sid = s /\ act'[a].held = act[a].held
        BY <1>3, <1>4
      <3> QED BY <3>1, <3>2 DEF Used
    <2>2. ~At(a, Seated)' /\ ~At(a, Holding)'
      BY <1>3, <1>4 DEF At, Seated, Holding
    <2>3. act'[a].mark <= lastId' /\ act'[a].ceil <= lastId'
      <3>1. act[a].mark \in Nat /\ act[a].ceil \in Nat /\ act[a].mark <= lastId /\ act[a].ceil <= lastId
        BY <1>1, <1>2 DEF Fine, Actor
      <3> QED BY <1>2, <1>3, <1>4, <1>6, <3>1
    <2>4. act'[a].mem.of \subseteq Known' \cup ({a} \cap Turns)
      <3>1. act[a].mem.of \subseteq Known \cup ({a} \cap Turns)
        BY <1>1 DEF Fine
      <3> QED BY <1>3, <1>4, <1>9, <3>1
    <2> QED BY <2>1, <2>2, <2>3, <2>4 DEF Fine
  <1>13. ASSUME NEW b \in Actors, b # a PROVE Fine(b)'
    <2>1. act'[b] = act[b] /\ Fine(b) /\ act[b] \in Actor
      BY <1>1, <1>4, <1>13 DEF TypeOK
    <2>2. act[b].sid \in Segments /\ act[b].held \in Segments /\ act[b].mark \in Nat /\ act[b].ceil \in Nat
          /\ Used(act[b].sid) /\ Used(act[b].held)
      BY <2>1 DEF Actor, Fine
    <2>3. Used(act[b].sid)' /\ Used(act[b].held)'
      BY <2>1, <2>2 DEF Used
    <2>4. act[b].mark <= lastId' /\ act[b].ceil <= lastId'
      <3>1. act[b].mark <= lastId /\ act[b].ceil <= lastId
        BY <2>1 DEF Fine
      <3> QED BY <1>2, <1>6, <2>2, <3>1
    <2>5. act[b].mem.of \subseteq Known' \cup ({b} \cap Turns)
      <3>1. act[b].mem.of \subseteq Known \cup ({b} \cap Turns)
        BY <2>1 DEF Fine
      <3> QED BY <1>9, <3>1
    <2>6. ASSUME At(b, Holding), Locks(b)'
          PROVE  tail[b] \subseteq Covers(Copied(b)') /\ \A q \in Copied(b)' : act[b].mem.of \cap q.of \subseteq reread
      <3>1. Locks(b)
        BY <2>1, <2>2, <2>6 DEF Locks
      <3>2. act[b].held # k
        BY <1>13, <2>2, <3>1 DEF Locks
      <3>3. Copied(b)' = Copied(b)
        BY <2>1, <2>2, <3>2 DEF Copied, Foreign, ForeignTail, At
      <3>4. tail[b] \subseteq Covers(Copied(b)) /\ \A q \in Copied(b) : act[b].mem.of \cap q.of \subseteq reread
        BY <2>1, <2>6, <3>1 DEF Fine
      <3> QED BY <3>3, <3>4
    <2>7. At(b, Seated)' = At(b, Seated) /\ At(b, Holding)' = At(b, Holding)
      BY <2>1 DEF At
    <2> QED BY <2>1, <2>3, <2>4, <2>5, <2>6, <2>7 DEF Fine
  <1>14. \A b \in Actors : Fine(b)'
    BY <1>12, <1>13
  <1> QED BY <1>7, <1>10, <1>11, <1>14, PartsNext

LEMMA CommitInPlaceKeeps ==
  ASSUME IInv, NEW a \in Actors, CommitInPlace(a)
  PROVE  IInv'
  <1> DEFINE h == act[a].held
             r == [ses[h] EXCEPT !.rows = Written(a)]
  <1>1. TypeOK /\ Chained /\ Fine(a)
    BY Parts
  <1>2. h \in Segments /\ ses[h] \in Session /\ act[a].sid = h /\ Used(h) /\ At(a, {"summary", "publishing"})
        /\ Locks(a)
    BY <1>1 DEF TypeOK, Actor, Fine, CommitInPlace, At, Seated
  <1>3. Copied(a) = Foreign(a)
    BY DEF CommitInPlace, Copied, At
  <1>4. /\ SessionIs(h, r) /\ lastId' = lastId + 1 + Cardinality(Copied(a))
        /\ Becomes(a, Compacted(a, h)) /\ UNCHANGED <<lease, latest, appended, tail, reread>>
    BY <1>2, <1>3 DEF CommitInPlace, Written
  <1> HIDE DEF h
  <1>5. r \in Session /\ r.rows = Written(a) /\ r.end = ses[h].end /\ r.parent = ses[h].parent /\ r.lock = ses[h].lock
    <2>1. Written(a) \subseteq Row
      BY <1>2, WrittenIs
    <2> QED BY <1>2, <2>1 DEF Session
  <1> HIDE DEF r
  <1>6. ses' \in [Segments -> Session] /\ ses'[h] = r /\ \A k \in Segments \ {h} : ses'[k] = ses[k]
    BY <1>1, <1>2, <1>4, <1>5 DEF SessionIs, TypeOK
  <1>7. \A k \in Segments : ses'[k].end = ses[k].end /\ ses'[k].parent = ses[k].parent /\ ses'[k].lock = ses[k].lock
    BY <1>5, <1>6
  <1>8. Chained'
    <2>1. \A k \in Segments : Used(k)' = Used(k) /\ Rotated(k)' = Rotated(k)
      BY <1>7 DEF Used, Rotated
    <2>2. \A k \in Segments \ {1} : k - 1 \in Segments
      BY Numbers
    <2>3. \A k \in Segments : ~Used(k) => ses'[k] = ses[k]
      BY <1>2, <1>6
    <2> QED BY <1>1, <1>7, <2>1, <2>2, <2>3, Numbers DEF Chained
  <1>9. ses'[h].end # "unused" /\ ses'[h].rows = Written(a)
    BY <1>2, <1>5, <1>6 DEF Used
  <1>10. \A j \in Segments : Used(j) => ses'[j].end # "unused" /\ ses'[j].lock.by = ses[j].lock.by
    BY <1>7 DEF Used
  <1>11. h = act[a].held
    BY DEF h
  <1>12. \A j \in Segments \ {h} : ses'[j].rows = ses[j].rows
    BY <1>6
  <1> QED BY <1>2, <1>4, <1>6, <1>8, <1>9, <1>10, <1>11, <1>12, CommitKeeps

LEMMA PublishKeeps ==
  ASSUME IInv, NEW t \in Turns, Publish(t)
  PROVE  IInv'
  <1> DEFINE h == act[t].held
             p == [ses[h] EXCEPT !.end = "compression", !.lock = HeldBy(t)]
  <1>1. TypeOK /\ Chained /\ Fine(t) /\ t \in Actors /\ HeldBy(t) \in Claim /\ HeldBy(t).by = t
    BY Parts, Acting
  <1>2. h \in Segments /\ ses[h] \in Session /\ Used(h) /\ ~Rotated(h) /\ At(t, {"summary", "publishing"})
        /\ Locks(t) /\ Copied(t) = ForeignTail(t)
    BY <1>1 DEF TypeOK, Actor, Fine, Publish, Publishable, At, Rotated, Copied
  <1>3. PICK k \in Segments :
          /\ ~Used(k) /\ \A j \in Segments : j < k => Used(j)
          /\ ses' = [ses EXCEPT ![k] = Child(t), ![h] = p]
          /\ Becomes(t, Compacted(t, k))
    BY DEF Publish
  <1>4. lastId' = lastId + 1 + Cardinality(Copied(t)) /\ UNCHANGED <<lease, latest, appended, tail, reread>>
    BY <1>2 DEF Publish
  <1>5. /\ Child(t) \in Session /\ Child(t).rows = Written(t) /\ Child(t).parent = h /\ Child(t).end = "open"
    <2>1. Child(t) = [end |-> "open", parent |-> h, rows |-> Written(t), lock |-> Free]
      BY <1>2 DEF Child, Written
    <2>2. Written(t) \subseteq Row
      BY <1>1, <1>2, WrittenIs
    <2> QED BY <1>2, <2>1, <2>2, Acting DEF Session
  <1>h. h = act[t].held
    OBVIOUS
  <1> HIDE DEF h, Child
  <1>6. /\ p \in Session /\ p.end = "compression" /\ p.rows = ses[h].rows /\ p.parent = ses[h].parent
        /\ p.lock.by = t
    BY <1>1, <1>2 DEF Session
  <1> HIDE DEF p
  <1>7. h # k
    BY <1>2, <1>3
  <1>8. /\ ses' \in [Segments -> Session] /\ ses'[k] = Child(t) /\ ses'[h] = p
        /\ \A j \in Segments \ {h, k} : ses'[j] = ses[j]
    <2>1. ses \in [Segments -> Session]
      BY <1>1 DEF TypeOK
    <2> QED BY <1>2, <1>3, <1>5, <1>6, <1>7, <2>1
  <1>9. ses[h].lock.by = t
    BY <1>2, <1>h DEF Locks
  <1>10. k = h + 1
    <2>1. PICK m \in Segments : Last(m)
      BY <1>1, Chain
    <2>2. /\ m \in Nat /\ h \in Nat /\ k \in Nat /\ h <= m /\ ~ (h < m) /\ ~ (k <= m)
      BY <1>2, <1>3, <2>1, Numbers DEF Last
    <2>3. m + 1 \in Segments
      BY <2>1, <2>2, Numbers
    <2>4. ~ (m + 1 < k)
      <3>1. m + 1 < k => m + 1 <= m
        BY <1>3, <2>1, <2>3 DEF Last
      <3> QED BY <2>2, <3>1
    <2> QED BY <2>2, <2>4
  <1>11. ASSUME NEW j \in Segments
         PROVE  /\ (ses'[j].end # "unused") <=> (Used(j) \/ j = k)
                /\ (ses'[j].end = "compression") <=> (Rotated(j) \/ j = h)
                /\ j # k => ses'[j].parent = ses[j].parent
                /\ j # k => ses'[j].rows = ses[j].rows
                /\ Used(j) => ses'[j].lock.by = ses[j].lock.by
    <2>1. CASE j = k
      BY <1>3, <1>5, <1>7, <1>8, <2>1 DEF Used, Rotated
    <2>2. CASE j = h
      BY <1>2, <1>6, <1>7, <1>8, <1>9, <2>2 DEF Used, Rotated
    <2>3. CASE j \notin {h, k}
      BY <1>8, <2>3 DEF Used, Rotated
    <2> QED BY <2>1, <2>2, <2>3
  <1>12. Chained'
    <2>1. \A j \in Segments : (Used(j)' <=> (Used(j) \/ j = k)) /\ (Rotated(j)' <=> (Rotated(j) \/ j = h))
      BY <1>11 DEF Used, Rotated
    <2>2. Used(1)' /\ ses'[1].parent = 0
      BY <1>1, <1>3, <1>11, <2>1, Numbers DEF Chained
    <2>3. ASSUME NEW j \in Segments \ {1}, Used(j)' PROVE ses'[j].parent = j - 1 /\ Rotated(j - 1)'
      <3>1. j - 1 \in Segments /\ h \in Nat
        BY <1>2, Numbers
      <3>2. CASE j = k
        <4>1. ses'[j].parent = h /\ j - 1 = h
          BY <1>5, <1>8, <1>10, <3>1, <3>2
        <4> QED BY <2>1, <3>1, <4>1
      <3>3. CASE j # k
        BY <1>1, <1>11, <2>1, <2>3, <3>1, <3>3 DEF Chained
      <3> QED BY <3>2, <3>3
    <2>4. ASSUME NEW j \in Segments, Rotated(j)' PROVE j + 1 \in Segments /\ Used(j + 1)'
      BY <1>1, <1>3, <1>10, <2>1, <2>4 DEF Chained
    <2>5. ASSUME NEW j \in Segments, ~Used(j)' PROVE ses'[j] = Unused
      <3>1. ~Used(j) /\ j # k /\ j # h
        BY <1>2, <2>1, <2>5
      <3> QED BY <1>1, <1>8, <3>1 DEF Chained
    <2> QED BY <2>2, <2>3, <2>4, <2>5 DEF Chained
  <1>13. ses'[k].end # "unused" /\ ses'[k].rows = Written(t)
    BY <1>5, <1>8
  <1>14. \A j \in Segments \ {k} : ses'[j].rows = ses[j].rows
    BY <1>11
  <1>15. \A j \in Segments : Used(j) => ses'[j].end # "unused" /\ ses'[j].lock.by = ses[j].lock.by
    BY <1>11
  <1> QED BY <1>1, <1>2, <1>3, <1>4, <1>8, <1>12, <1>13, <1>14, <1>15, CommitKeeps

(***************************************************************************)
(* The invariant                                                           *)
(***************************************************************************)
LEMMA InitInv == Init => IInv
  <1> SUFFICES ASSUME Init PROVE IInv
    OBVIOUS
  <1>1. /\ ses = [s \in Segments |-> IF s = 1 THEN Opened ELSE Unused] /\ lastId = 1
        /\ lease = [s \in Segments |-> Free] /\ act = [a \in Actors |-> New] /\ latest = Nobody
        /\ appended = {Seed} /\ tail = [a \in Actors |-> {}] /\ reread = {}
    BY DEF Init
  <1>2. /\ Opened \in Session /\ Opened.rows = {[id |-> 1, of |-> {Seed}]} /\ Opened.parent = 0 /\ Opened.end = "open"
        /\ Unused \in Session /\ Unused.rows = {} /\ Unused.end = "unused"
        /\ Seed \in Messages /\ Seed \notin Turns
    <2>1. Seed \in Messages /\ Seed \notin Turns
      BY ConstantsAssumption DEF Messages
    <2>2. {[id |-> 1, of |-> {Seed}]} \subseteq Row
      BY <2>1 DEF Row
    <2> QED BY <2>1, <2>2, Acting DEF Opened, Unused, Session
  <1>3. /\ New \in Actor /\ New.at = "idle" /\ New.sid = 1 /\ New.held = 1 /\ New.mem.of = {}
        /\ New.mark = 0 /\ New.ceil = 0
    BY Numbers DEF New, Actor, Stages
  <1> HIDE DEF New, Opened
  <1>4. TypeOK
    BY <1>1, <1>2, <1>3, Acting DEF TypeOK
  <1>5. \A s \in Segments : ses[s] = IF s = 1 THEN Opened ELSE Unused
    BY <1>1
  <1>6. Chained
    BY <1>2, <1>5, Numbers DEF Chained, Used, Rotated
  <1>7. LeaseOK
    BY <1>1, Acting DEF LeaseOK, OneLease, LeaseIsLatest
  <1>8. RowsOK
    <2> SUFFICES ASSUME NEW s \in Segments
                 PROVE  /\ IsFiniteSet(ses[s].rows) /\ Covers(ses[s].rows) \subseteq Known
                        /\ \A r \in ses[s].rows : r.id <= lastId
      BY DEF RowsOK, Covered
    <2>1. IsFiniteSet({}) /\ IsFiniteSet({[id |-> 1, of |-> {Seed}]})
      BY FS_EmptySet, FS_Singleton
    <2>2. ses[s].rows = {} \/ ses[s].rows = {[id |-> 1, of |-> {Seed}]}
      BY <1>2, <1>5
    <2>3. Seed \in Known
      BY <1>1, <1>2 DEF Known
    <2>4. \A r \in ses[s].rows : r.id <= 1 /\ r.of \subseteq Known
      BY <2>2, <2>3
    <2> QED BY <1>1, <2>1, <2>2, <2>4 DEF Covers
  <1>9. NotDoubled
    BY <1>2, <1>5 DEF NotDoubled
  <1>10. ASSUME NEW a \in Actors PROVE Fine(a)
    <2>1. act[a] = New /\ Used(1)
      BY <1>1, <1>6 DEF Chained
    <2> QED BY <1>1, <1>3, <2>1 DEF Fine, At, Seated, Holding
  <1> QED BY <1>4, <1>6, <1>7, <1>8, <1>9, <1>10, Parts

LEMMA NextInv == IInv /\ [Next]_vars => IInv'
  <1> SUFFICES ASSUME IInv, [Next]_vars PROVE IInv'
    OBVIOUS
  <1>1. CASE UNCHANGED vars
    BY <1>1, ClaimsKeep
  <1>2. ASSUME NEW t \in Turns, Load(t) \/ GivesUp(t) \/ Turn(t) \/ Rotation(t) PROVE IInv'
    <2>1. t \in Actors
      BY Acting
    <2>2. CASE Load(t) \/ GivesUp(t)
      BY <2>2, AdmissionKeeps
    <2>3. CASE Turn(t)
      BY <2>3, AdmissionKeeps, FlushKeeps DEF Turn
    <2>4. CASE Rotation(t)
      BY <2>1, <2>4, CompactionMoves, AdoptGrownKeeps, CeilingKeeps, FlushKeeps, PublishKeeps DEF Rotation
    <2> QED BY <1>2, <2>2, <2>3, <2>4
  <1>3. ASSUME NEW c \in Cleaners, Clean(c) PROVE IInv'
    BY <1>3, CleanKeeps
  <1>4. ASSUME NEW a \in Actors, Compaction(a) \/ LockRefreshed(a) \/ Stall(a) \/ Crash(a) PROVE IInv'
    <2>1. CASE Compaction(a)
      BY <2>1, TakeLockKeeps, CompactionMoves, CaptureKeeps, AdoptRotatedKeeps, CommitInPlaceKeeps,
         UnlockKeeps DEF Compaction
    <2>2. CASE LockRefreshed(a)
      BY <2>2, ClaimsKeep
    <2>3. CASE Stall(a) \/ Crash(a)
      BY <2>3, StallKeeps, CompactionMoves
    <2> QED BY <1>4, <2>1, <2>2, <2>3
  <1>5. ASSUME NEW n \in Notes, Land(n) PROVE IInv'
    BY <1>5, BesideKeeps
  <1>6. ASSUME NEW d \in Deliveries, Deliver(d) PROVE IInv'
    BY <1>6, BesideKeeps
  <1>7. ASSUME NEW s \in Segments, LeaseExpires(s) \/ LockExpires(s) PROVE IInv'
    BY <1>7, ClaimsKeep
  <1>8. ASSUME NEW s \in Segments, NEW reason \in {"automatic", "deliberate"}, EndSession(s, reason) PROVE IInv'
    BY <1>8, ClaimsKeep
  <1> QED BY <1>1, <1>2, <1>3, <1>4, <1>5, <1>6, <1>7, <1>8 DEF Next

\* What writes rows: appends, by turns and beside them, and the commits of compactions.
LEMMA Writers ==
  ASSUME Next
  PROVE  \/ lastId' = lastId /\ appended' = appended
         \/ \E t \in Turns : Flush(t) \/ FlushOwn(t) \/ AdoptGrown(t) \/ Publish(t)
         \/ \E a \in Actors : CommitInPlace(a)
         \/ \E n \in Notes : Land(n)
         \/ \E d \in Deliveries : Deliver(d)
  <1>1. ASSUME NEW t \in Turns, Load(t) \/ GivesUp(t) \/ Turn(t)
        PROVE  (lastId' = lastId /\ appended' = appended) \/ Flush(t)
    BY <1>1 DEF Turn, Load, GivesUp, Waits, Admit, Serve, Reload, Begin, Finish
  <1>2. ASSUME NEW t \in Turns, Rotation(t)
        PROVE  (lastId' = lastId /\ appended' = appended) \/ FlushOwn(t) \/ AdoptGrown(t) \/ Publish(t)
    BY <1>2 DEF Rotation, StartRotation, Ceiling, SkipFlush
  <1>3. ASSUME NEW c \in Cleaners, Clean(c) PROVE lastId' = lastId /\ appended' = appended
    BY <1>3 DEF Clean
  <1>4. ASSUME NEW a \in Actors, Compaction(a) \/ LockRefreshed(a) \/ Stall(a) \/ Crash(a)
        PROVE  (lastId' = lastId /\ appended' = appended) \/ CommitInPlace(a)
    BY <1>4 DEF Compaction, TakeLock, SitOut, Capture, AdoptRotated, StartInPlace, Abort, Unlock,
                LockRefreshed, Stall, Crash
  <1>5. ASSUME NEW s \in Segments, LeaseExpires(s) \/ LockExpires(s) PROVE lastId' = lastId /\ appended' = appended
    BY <1>5 DEF LeaseExpires, LockExpires
  <1>6. ASSUME NEW s \in Segments, NEW reason \in {"automatic", "deliberate"}, EndSession(s, reason)
        PROVE  lastId' = lastId /\ appended' = appended
    BY <1>6 DEF EndSession
  <1> QED BY <1>1, <1>2, <1>3, <1>4, <1>5, <1>6 DEF Next

\* Who stores the message of a turn is that turn, with the lease.
LEMMA Fenced ==
  ASSUME IInv, [Next]_vars, NEW t \in Turns, t \in appended' \ appended
  PROVE  t = latest
  <1>1. TypeOK /\ Chained /\ LeaseOK /\ Fine(t)
    BY Parts, Acting
  <1>2. ASSUME NEW u \in Turns, Flush(u) \/ FlushOwn(u) \/ AdoptGrown(u) PROVE Leases(t, act[t].sid)
    <2>1. CASE Flush(u) \/ FlushOwn(u)
      BY <2>1 DEF Flush, FlushOwn, Lands, Appends
    <2>2. CASE AdoptGrown(u)
      BY <2>2 DEF AdoptGrown, Lands, Appends
    <2> QED BY <1>2, <2>1, <2>2
  <1>3. ASSUME NEW u \in Turns, Publish(u) PROVE FALSE
    BY <1>3 DEF Publish
  <1>4. ASSUME NEW a \in Actors, CommitInPlace(a) PROVE FALSE
    BY <1>4 DEF CommitInPlace
  <1>5. ASSUME NEW n \in Notes \cup Deliveries, Land(n) \/ Deliver(n) PROVE FALSE
    BY <1>5, ConstantsAssumption DEF Land, Deliver, Appends
  <1>6. Leases(t, act[t].sid)
    BY <1>2, <1>3, <1>4, <1>5, Writers DEF vars
  <1>7. act[t].sid \in Segments /\ Used(act[t].sid)
    BY <1>1, Acting DEF TypeOK, Actor, Fine
  <1> QED BY <1>1, <1>6, <1>7, Latest

\* A compaction commits by archive_and_compact or by publish_compression_child.
LEMMA Committers ==
  ASSUME TypeOK, [Next]_vars, NEW a \in Actors, Commits(a)
  PROVE  CommitInPlace(a) \/ (a \in Turns /\ Publish(a))
  <1>1. act \in [Actors -> Actor] /\ act[a].at \in {"summary", "publishing"} /\ act'[a].at = "closing"
        /\ lastId' # lastId
    BY DEF TypeOK, Commits
  <1>2. ASSUME NEW t \in Turns, Flush(t) \/ FlushOwn(t) \/ AdoptGrown(t) PROVE FALSE
    <2>1. At(t, {"running", "compacted", "ceiled", "captured"})
      BY <1>2 DEF Flush, FlushOwn, AdoptGrown, MayRotate, At
    <2>2. \E r : act' = [act EXCEPT ![t] = r]
      BY <1>2 DEF Flush, FlushOwn, AdoptGrown, ReadAgain, Becomes
    <2>3. a # t
      BY <1>1, <2>1 DEF At
    <2> QED BY <1>1, <2>2, <2>3
  <1>3. ASSUME NEW t \in Turns, Publish(t) PROVE a = t
    <2>1. \E r : act' = [act EXCEPT ![t] = r]
      BY <1>3 DEF Publish, Becomes
    <2> QED BY <1>1, <2>1
  <1>4. ASSUME NEW b \in Actors, CommitInPlace(b) PROVE a = b
    <2>1. \E r : act' = [act EXCEPT ![b] = r]
      BY <1>4 DEF CommitInPlace, Becomes
    <2> QED BY <1>1, <2>1
  <1>5. ASSUME NEW n \in Notes \cup Deliveries, Land(n) \/ Deliver(n) PROVE FALSE
    <2>1. act' = act
      BY <1>5 DEF Land, Deliver
    <2> QED BY <1>1, <2>1
  <1> QED BY <1>1, <1>2, <1>3, <1>4, <1>5, Writers DEF vars

LEMMA Kept ==
  ASSUME IInv, [Next]_vars, NEW a \in Actors, Commits(a)
  PROVE  tail[a] \subseteq Covered(act[a].sid)'
  <1>1. TypeOK /\ Chained /\ Fine(a) /\ act[a].held \in Segments /\ act[a].sid \in Segments
    BY Parts DEF TypeOK, Actor
  <1>2. CASE CommitInPlace(a)
    <2>1. At(a, {"summary", "publishing"}) /\ Locks(a) /\ Copied(a) = Foreign(a) /\ act[a].sid = act[a].held
      BY <1>1, <1>2 DEF CommitInPlace, At, Copied, Fine, Seated
    <2>2. ses'[act[a].held].rows = Written(a) /\ act'[a].sid = act[a].held
      <3>1. /\ SessionIs(act[a].held, [ses[act[a].held] EXCEPT !.rows = Written(a)])
            /\ Becomes(a, Compacted(a, act[a].sid))
        BY <1>2, <2>1 DEF CommitInPlace, Written
      <3>2. ses[act[a].held] \in Session /\ act[a] \in Actor
        BY <1>1 DEF TypeOK
      <3>3. ses'[act[a].held].rows = Written(a)
        BY <1>1, <3>1, <3>2 DEF SessionIs, TypeOK, Session
      <3>4. act'[a].sid = act[a].sid
        BY <1>1, <3>1, <3>2 DEF Becomes, Compacted, TypeOK, Actor
      <3> QED BY <2>1, <3>3, <3>4
    <2>3. tail[a] \subseteq Covers(Written(a))
      BY <2>1, WrittenIs
    <2> QED BY <2>2, <2>3 DEF Covered
  <1>3. CASE a \in Turns /\ Publish(a)
    <2>1. At(a, {"summary", "publishing"}) /\ Locks(a) /\ Copied(a) = ForeignTail(a) /\ Used(act[a].held)
      BY <1>1, <1>3 DEF Publish, Publishable, At, Copied, Fine
    <2> DEFINE h == act[a].held
               p == [ses[h] EXCEPT !.end = "compression", !.lock = HeldBy(a)]
    <2>2. PICK k \in Segments : ~Used(k) /\ ses' = [ses EXCEPT ![k] = Child(a), ![h] = p] /\ Becomes(a, Compacted(a, k))
      BY <1>3 DEF Publish
    <2>3. k # act[a].held
      BY <2>1, <2>2
    <2>4. Child(a).rows = Written(a)
      BY <2>1 DEF Child, Written
    <2> HIDE DEF h, p, Child
    <2>5. ses'[k] = Child(a)
      BY <1>1, <2>2, <2>3 DEF TypeOK, h
    <2>6. act'[a].sid = k
      BY <1>1, <2>2 DEF Becomes, Compacted, TypeOK, Actor
    <2>7. tail[a] \subseteq Covers(Written(a))
      BY <2>1, WrittenIs
    <2> QED BY <2>4, <2>5, <2>6, <2>7 DEF Covered
  <1> QED BY <1>1, <1>2, <1>3, Committers

(***************************************************************************)
(* Theorems                                                                *)
(***************************************************************************)
LEMMA Inductive == Spec => []IInv
  <1>1. Init => IInv
    BY InitInv
  <1>2. IInv /\ [Next]_vars => IInv'
    BY NextInv
  <1> QED BY <1>1, <1>2, PTL DEF Spec

\* The sessions of a conversation are one chain under one lease (_session_turn_lease_key_on_conn,
\* publish_compression_child), each with at most one continuation; the lease is held by the turn
\* that was admitted last, or by nobody; and a compaction that still has its lock has in hand
\* what was appended behind its watermark.
THEOREM Invariance == Spec => []Inv
  <1>1. IInv => Inv
    BY DEF IInv
  <1> QED BY <1>1, Inductive, PTL

\* However compactions, rotations and appends interleave, a transcript has no message twice
\* (archive_and_compact, publish_compression_child), but for what a rotation read again.
THEOREM NotDoubledHolds == Spec => []NotDoubled
  <1>1. IInv => NotDoubled
    BY DEF IInv
  <1> QED BY <1>1, Inductive, PTL

\* A flush by a turn that lost its lease to a later turn or to a delivery is refused
\* (_flush_messages_to_session_db).
THEOREM LateWritersStop == Spec => LateWritesFenced
  <1>1. IInv /\ [Next]_vars => [\A t \in Turns : t \in appended' \ appended => t = latest]_vars
    BY Fenced
  <1> QED BY <1>1, Inductive, PTL DEF Spec, LateWritesFenced

\* A commit of a compaction, in place or in a child, keeps everything that was appended
\* behind its watermark while the summary was written.
THEOREM TailIsKept == Spec => TailKept
  <1>1. IInv /\ [Next]_vars => [\A a \in Actors : Commits(a) => tail[a] \subseteq Covered(act[a].sid)']_vars
    BY Kept
  <1> QED BY <1>1, Inductive, PTL DEF Spec, TailKept
=============================================================================
