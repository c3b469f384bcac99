------------------------- MODULE Descriptors_proofs --------------------------
(***************************************************************************)
(* The part of what Objects_rules checks that is about iterators over      *)
(* directories, for every number of them: DirInv, which says that the      *)
(* users of each state are counted and each stream is read through one     *)
(* state, is kept by every operation, and what an iterator shows by every  *)
(* operation on others.                                                    *)
(***************************************************************************)
EXTENDS MCObjects, TLAPS, SequenceTheorems, FiniteSetTheorems, WellFoundedInduction

-----------------------------------------------------------------------------
(* Iterators over directories: who shares which state, and who reads which *)
(* stream.                                                                 *)

At(a, d) == {i \in Iterators : a[i] = d}

\* A reference that is counted and that no iterator has yet, or none.
Pending(p, d) == IF d = p THEN 1 ELSE 0

DataRec(x) ==
    /\ x = [m_refs |-> x.m_refs, m_last |-> x.m_last, m_valid |-> x.m_valid, m_dots |-> x.m_dots,
            m_last_name |-> x.m_last_name, m_dir |-> x.m_dir]
    /\ x.m_refs \in Nat /\ x.m_valid \in BOOLEAN /\ x.m_dir \in Nat

\* What the iterators a share is counted, but for what an exception left wrong:
\* that is too much, or never touched again.
DataTypes(dt, a) ==
    /\ DOMAIN dt \subseteq Nat \ {0} /\ IsFiniteSet(DOMAIN dt) /\ dt = [d \in DOMAIN dt |-> dt[d]]
    /\ \A d \in DOMAIN dt : DataRec(dt[d])
    /\ a \in [Iterators -> Nat] /\ \A i \in Iterators : a[i] # 0 => a[i] \in DOMAIN dt

RefsRight(dt, a, dm, p) ==
    \A d \in DOMAIN dt :
        /\ d \notin dm => dt[d].m_refs = Cardinality(At(a, d)) + Pending(p, d) /\ dt[d].m_refs > 0
        /\ d \in dm => dt[d].m_refs = 0 \/ dt[d].m_refs >= Cardinality(At(a, d)) + Pending(p, d)

\* A stream that is open, and that no exception left alone, is read through one
\* of them, and no other is.
Reads(dt, d, dir) == dt[d].m_valid /\ dt[d].m_dir = dir
ReadersRight(dt, st, w) ==
    /\ w \subseteq 1..Len(st)
    /\ \A d \in DOMAIN dt : dt[d].m_dir \in 0..Len(st)
    /\ \A dir \in 1..Len(st) : \A d, e \in DOMAIN dt : Reads(dt, d, dir) /\ Reads(dt, e, dir) => d = e
    /\ \A dir \in 1..Len(st) : (\E d \in DOMAIN dt : Reads(dt, d, dir)) <=> st[dir].open /\ dir \notin w

StreamRecs == [left : SUBSET Names, buffer : Names \cup {Dir!Nothing}, open : BOOLEAN]

\* A state of the memory that is right, but for the counts; and with them.
ReadRight(s, w) ==
    /\ s = [data |-> s.data, at |-> s.at, streams |-> s.streams, ok |-> s.ok, thrown |-> s.thrown]
    /\ DataTypes(s.data, s.at) /\ s.streams \in Seq(StreamRecs) /\ ReadersRight(s.data, s.streams, w)
Right(s, dm, w, p) == ReadRight(s, w) /\ RefsRight(s.data, s.at, dm, p)

LEMMA AtIsFinite ==
    ASSUME NEW a, NEW d
    PROVE  IsFiniteSet(At(a, d)) /\ Cardinality(At(a, d)) \in Nat
<1>1. At(a, d) \subseteq Iterators /\ IsFiniteSet(Iterators)
  BY ObjectsAssumption DEF At
<1>2. IsFiniteSet(At(a, d))
  BY <1>1, FS_Subset
<1> QED
  BY <1>2, FS_CardinalityType

LEMMA PendingIsOne == ASSUME NEW p, NEW d PROVE Pending(p, d) \in {0, 1}
  BY DEF Pending

LEMMA DirCount == ASSUME NEW S PROVE Dir!Cardinality(S) = Cardinality(S)
  BY DEF Dir!Cardinality, Cardinality

\* There is always a number for a new state.
LEMMA NewIsNew ==
    ASSUME NEW s, IsFiniteSet(DOMAIN s.data)
    PROVE  Dir!New(s) \in Nat \ {0} /\ Dir!New(s) \notin DOMAIN s.data
<1>1. PICK D : D = DOMAIN s.data
  OBVIOUS
<1>2. PICK k : k = Cardinality(D)
  OBVIOUS
<1>3. k \in Nat /\ IsFiniteSet(D)
  BY <1>1, <1>2, FS_CardinalityType
<1>4. \E n \in 1..k + 1 : n \notin D
  <2> SUFFICES ASSUME 1..k + 1 \subseteq D PROVE FALSE
    OBVIOUS
  <2>1. Cardinality(1..k + 1) <= Cardinality(D)
    BY <1>3, FS_Subset
  <2>2. Cardinality(1..k + 1) = IF 1 > k + 1 THEN 0 ELSE (k + 1) - 1 + 1
    <3>1. 1 \in Int /\ k + 1 \in Int
      BY <1>3
    <3> QED
      BY <3>1, FS_Interval
  <2>3. Cardinality(1..k + 1) = k + 1
    BY <1>3, <2>2
  <2> QED
    BY <1>2, <1>3, <2>1, <2>3
<1>5. Dir!New(s) = CHOOSE n \in 1..k + 1 : n \notin D
  BY <1>1, <1>2, DirCount DEF Dir!New
<1>6. PICK n : n = CHOOSE x \in 1..k + 1 : x \notin D
  OBVIOUS
<1>7. n \in 1..k + 1 /\ n \notin D
  BY <1>4, <1>6
<1>8. n \in Nat \ {0}
  BY <1>3, <1>7
<1> QED
  BY <1>1, <1>5, <1>6, <1>7, <1>8

\* One goes from f to e: what that does to who is where.
Leaves(a, j, f, e, b) ==
    /\ a \in [Iterators -> Nat] /\ j \in Iterators /\ f \in Nat /\ e \in Nat /\ a[j] = f /\ f # e
    /\ b = [a EXCEPT ![j] = e]
Left(a, j, f, e, b) ==
    /\ b \in [Iterators -> Nat] /\ b[j] = e /\ \A i \in Iterators \ {j} : b[i] = a[i]
    /\ Cardinality(At(b, e)) = Cardinality(At(a, e)) + 1
    /\ Cardinality(At(b, f)) = Cardinality(At(a, f)) - 1
    /\ \A d : d # e /\ d # f => At(b, d) = At(a, d)

LEMMA AtGrows == ASSUME NEW a, NEW j, NEW f, NEW e, NEW b, Leaves(a, j, f, e, b) PROVE Left(a, j, f, e, b)
<1>0. a \in [Iterators -> Nat] /\ j \in Iterators /\ e \in Nat /\ a[j] = f /\ f # e /\ b = [a EXCEPT ![j] = e]
  BY DEF Leaves
<1>1. b \in [Iterators -> Nat] /\ b[j] = e /\ \A i \in Iterators \ {j} : b[i] = a[i]
  BY <1>0
<1>2. At(b, e) = At(a, e) \cup {j} /\ j \notin At(a, e)
  BY <1>0, <1>1 DEF At
<1>3. Cardinality(At(b, e)) = Cardinality(At(a, e)) + 1
  <2>1. Cardinality(At(a, e) \cup {j}) = Cardinality(At(a, e)) + 1
    BY <1>2, AtIsFinite, FS_AddElement
  <2> QED
    BY <1>2, <2>1
<1>4. At(b, f) = At(a, f) \ {j} /\ j \in At(a, f)
  BY <1>0, <1>1 DEF At
<1>5. Cardinality(At(b, f)) = Cardinality(At(a, f)) - 1
  <2>1. IsFiniteSet(At(a, f))
    BY AtIsFinite
  <2>2. Cardinality(At(a, f) \ {j}) = Cardinality(At(a, f)) - 1
    BY <1>4, <2>1, FS_RemoveElement
  <2> QED
    BY <1>4, <2>2
<1>6. ASSUME NEW d, d # e, d # f PROVE At(b, d) = At(a, d)
  BY <1>0, <1>1, <1>6 DEF At
<1> QED
  BY <1>1, <1>3, <1>5, <1>6 DEF Left

\* A state x put for d, or d gone.
Put(dt, d, x) == [e \in DOMAIN dt \cup {d} |-> IF e = d THEN x ELSE dt[e]]
Drop(dt, d) == [e \in DOMAIN dt \ {d} |-> dt[e]]

LEMMA PutTypes ==
    ASSUME NEW dt, NEW a, DataTypes(dt, a), NEW d \in Nat \ {0}, NEW x, DataRec(x)
    PROVE  DataTypes(Put(dt, d, x), a)
<1>1. PICK more : more = Put(dt, d, x)
  OBVIOUS
<1>2. /\ DOMAIN more = DOMAIN dt \cup {d} /\ more[d] = x /\ \A e \in DOMAIN dt : e # d => more[e] = dt[e]
      /\ more = [e \in DOMAIN more |-> more[e]]
  <2>1. more = [e \in DOMAIN more |-> more[e]]
    BY <1>1 DEF Put
  <2> QED
    BY <1>1, <2>1 DEF Put
<1>3. IsFiniteSet(DOMAIN dt \cup {d})
  BY FS_AddElement DEF DataTypes
<1>4. DataTypes(more, a)
  BY <1>2, <1>3 DEF DataTypes
<1> QED
  BY <1>1, <1>4

\* One d is counted otherwise, for the others nothing changes.
LEMMA RefsChange ==
    ASSUME NEW dt, NEW a, NEW b, NEW dm, NEW p, NEW q, NEW d, NEW x, RefsRight(dt, a, dm, p),
           \A e \in DOMAIN dt : e # d =>
               Cardinality(At(b, e)) + Pending(q, e) = Cardinality(At(a, e)) + Pending(p, e),
           d \notin dm => x.m_refs = Cardinality(At(b, d)) + Pending(q, d) /\ x.m_refs > 0,
           d \in dm => x.m_refs = 0 \/ x.m_refs >= Cardinality(At(b, d)) + Pending(q, d)
    PROVE  RefsRight(Put(dt, d, x), b, dm, q)
<1>1. PICK more : more = Put(dt, d, x)
  OBVIOUS
<1>2. DOMAIN more = DOMAIN dt \cup {d} /\ more[d] = x /\ \A e \in DOMAIN dt : e # d => more[e] = dt[e]
  BY <1>1 DEF Put
<1>3. ASSUME NEW e \in DOMAIN more
      PROVE  /\ e \notin dm => more[e].m_refs = Cardinality(At(b, e)) + Pending(q, e) /\ more[e].m_refs > 0
             /\ e \in dm => more[e].m_refs = 0 \/ more[e].m_refs >= Cardinality(At(b, e)) + Pending(q, e)
  <2>1. CASE e = d
    BY <1>2, <2>1
  <2>2. CASE e # d
    <3>1. /\ e \in DOMAIN dt /\ more[e] = dt[e]
          /\ Cardinality(At(b, e)) + Pending(q, e) = Cardinality(At(a, e)) + Pending(p, e)
      BY <1>2, <2>2
    <3> QED
      BY <3>1 DEF RefsRight
  <2> QED
    BY <2>1, <2>2
<1>4. RefsRight(more, b, dm, q)
  BY <1>3 DEF RefsRight
<1> QED
  BY <1>1, <1>4

LEMMA RefsMore ==
    ASSUME NEW dt, NEW a, NEW dm, DataTypes(dt, a), RefsRight(dt, a, dm, 0), NEW d \in DOMAIN dt, dt[d].m_refs > 0,
           NEW x, x.m_refs = dt[d].m_refs + 1
    PROVE  RefsRight(Put(dt, d, x), a, dm, d)
<1>1. \A e \in DOMAIN dt : Pending(0, e) = 0
  BY DEF Pending, DataTypes
<1>2. \A e \in DOMAIN dt : e # d => Pending(d, e) = 0
  BY DEF Pending
<1>3. Pending(d, d) = 1
  BY DEF Pending
<1>4. PICK n \in Nat : n = Cardinality(At(a, d))
  BY AtIsFinite
<1>5. dt[d].m_refs \in Nat
  BY DEF DataTypes, DataRec
<1>6. d \notin dm => dt[d].m_refs = n
  BY <1>1, <1>4 DEF RefsRight
<1>7. d \in dm => dt[d].m_refs >= n
  BY <1>1, <1>4, <1>5 DEF RefsRight
<1>8. d \notin dm => x.m_refs = Cardinality(At(a, d)) + Pending(d, d) /\ x.m_refs > 0
  BY <1>3, <1>4, <1>5, <1>6
<1>9. d \in dm => x.m_refs >= Cardinality(At(a, d)) + Pending(d, d)
  BY <1>3, <1>4, <1>5, <1>7
<1>10. \A e \in DOMAIN dt : e # d => Cardinality(At(a, e)) + Pending(d, e) = Cardinality(At(a, e)) + Pending(0, e)
  BY <1>1, <1>2
<1> QED
  BY <1>8, <1>9, <1>10, RefsChange

\* An iterator that is at nothing takes the pending reference.
LEMMA RefsTaken ==
    ASSUME NEW dt, NEW a, NEW dm, NEW p \in DOMAIN dt, DataTypes(dt, a), RefsRight(dt, a, dm, p),
           NEW j \in Iterators, a[j] = 0
    PROVE  DataTypes(dt, [a EXCEPT ![j] = p]) /\ RefsRight(dt, [a EXCEPT ![j] = p], dm, 0)
<1>1. PICK b : b = [a EXCEPT ![j] = p]
  OBVIOUS
<1>2. a \in [Iterators -> Nat] /\ p \in Nat /\ 0 \in Nat /\ 0 # p /\ DOMAIN dt \subseteq Nat \ {0}
  BY DEF DataTypes
<1>3. /\ b \in [Iterators -> Nat] /\ b[j] = p /\ \A i \in Iterators \ {j} : b[i] = a[i]
      /\ Cardinality(At(b, p)) = Cardinality(At(a, p)) + 1
      /\ \A d : d # p /\ d # 0 => At(b, d) = At(a, d)
  <2>1. Leaves(a, j, 0, p, b)
    BY <1>1, <1>2 DEF Leaves
  <2>2. Left(a, j, 0, p, b)
    BY <2>1, AtGrows
  <2> QED
    BY <2>2 DEF Left
<1>4. DataTypes(dt, b)
  BY <1>3 DEF DataTypes
<1>5. ASSUME NEW e \in DOMAIN dt
      PROVE  Cardinality(At(b, e)) + Pending(0, e) = Cardinality(At(a, e)) + Pending(p, e)
  <2>1. e # 0 /\ Pending(0, e) = 0
    BY <1>2 DEF Pending
  <2>2. CASE e = p
    <3>1. Pending(p, e) = 1
      BY <2>2 DEF Pending
    <3>2. Cardinality(At(a, e)) \in Nat
      BY AtIsFinite
    <3> QED
      BY <1>3, <2>1, <2>2, <3>1, <3>2
  <2>3. CASE e # p
    <3>1. Pending(p, e) = 0 /\ At(b, e) = At(a, e)
      BY <1>3, <2>1, <2>3 DEF Pending
    <3> QED
      BY <2>1, <3>1
  <2> QED
    BY <2>2, <2>3
<1>6. RefsRight(dt, b, dm, 0)
  BY <1>5 DEF RefsRight
<1> QED
  BY <1>1, <1>4, <1>6

\* An iterator lets go of a state that others have too ...
LEMMA RefsLess ==
    ASSUME NEW dt, NEW a, NEW dm, NEW p, DataTypes(dt, a), RefsRight(dt, a, dm, p),
           NEW j \in Iterators, a[j] # 0, dt[a[j]].m_refs > 1, NEW x, x.m_refs = dt[a[j]].m_refs - 1
    PROVE  RefsRight(Put(dt, a[j], x), [a EXCEPT ![j] = 0], dm, p)
<1>1. PICK b : b = [a EXCEPT ![j] = 0]
  OBVIOUS
<1>2. PICK d : d = a[j]
  OBVIOUS
<1>3. a \in [Iterators -> Nat] /\ d \in DOMAIN dt /\ DOMAIN dt \subseteq Nat \ {0} /\ d # 0 /\ d \in Nat /\ 0 \in Nat
  BY <1>2 DEF DataTypes
<1>4. Cardinality(At(b, d)) = Cardinality(At(a, d)) - 1 /\ \A e : e # 0 /\ e # d => At(b, e) = At(a, e)
  <2>1. Leaves(a, j, d, 0, b)
    BY <1>1, <1>2, <1>3 DEF Leaves
  <2>2. Left(a, j, d, 0, b)
    BY <2>1, AtGrows
  <2> QED
    BY <2>2 DEF Left
<1>5. PICK n \in Nat : n = Cardinality(At(a, d))
  BY AtIsFinite
<1>6. PICK k \in {0, 1} : k = Pending(p, d)
  BY PendingIsOne
<1>7. dt[d].m_refs \in Nat /\ dt[d].m_refs > 1
  BY <1>2, <1>3 DEF DataTypes, DataRec
<1>8. (d \notin dm => dt[d].m_refs = n + k) /\ (d \in dm => dt[d].m_refs >= n + k)
  BY <1>3, <1>5, <1>6, <1>7 DEF RefsRight
<1>9. d \notin dm => x.m_refs = Cardinality(At(b, d)) + Pending(p, d) /\ x.m_refs > 0
  <2>1. x.m_refs = dt[d].m_refs - 1 /\ Cardinality(At(b, d)) = n - 1
    BY <1>2, <1>4, <1>5
  <2> QED
    BY <1>6, <1>7, <1>8, <2>1
<1>10. d \in dm => x.m_refs >= Cardinality(At(b, d)) + Pending(p, d)
  <2>1. x.m_refs = dt[d].m_refs - 1 /\ Cardinality(At(b, d)) = n - 1
    BY <1>2, <1>4, <1>5
  <2> QED
    BY <1>6, <1>7, <1>8, <2>1
<1>11. \A e \in DOMAIN dt : e # d => Cardinality(At(b, e)) + Pending(p, e) = Cardinality(At(a, e)) + Pending(p, e)
  BY <1>3, <1>4
<1>12. RefsRight(Put(dt, d, x), b, dm, p)
  BY <1>9, <1>10, <1>11, RefsChange
<1> QED
  BY <1>1, <1>2, <1>12

\* ... or of one that nobody has then.
Dropped(dt, d, b, dm, p) == DataTypes(Drop(dt, d), b) /\ RefsRight(Drop(dt, d), b, dm, p) /\ p # d

LEMMA RefsGone ==
    ASSUME NEW dt, NEW a, NEW dm, NEW p, DataTypes(dt, a), RefsRight(dt, a, dm, p),
           NEW j \in Iterators, NEW d, d = a[j], d # 0, dt[d].m_refs = 1, NEW b, b = [a EXCEPT ![j] = 0]
    PROVE  Dropped(dt, d, b, dm, p)
<1>1. b = [a EXCEPT ![j] = 0]
  OBVIOUS
<1>2. d = a[j]
  OBVIOUS
<1>3. a \in [Iterators -> Nat] /\ d \in DOMAIN dt /\ DOMAIN dt \subseteq Nat \ {0} /\ d # 0 /\ d \in Nat /\ 0 \in Nat
  BY <1>2 DEF DataTypes
<1>4. /\ Cardinality(At(b, d)) = Cardinality(At(a, d)) - 1 /\ \A e : e # 0 /\ e # d => At(b, e) = At(a, e)
      /\ b \in [Iterators -> Nat] /\ b[j] = 0 /\ \A i \in Iterators \ {j} : b[i] = a[i]
  <2>1. Leaves(a, j, d, 0, b)
    BY <1>1, <1>2, <1>3 DEF Leaves
  <2>2. Left(a, j, d, 0, b)
    BY <2>1, AtGrows
  <2> QED
    BY <2>2 DEF Left
<1>5. PICK n \in Nat : n = Cardinality(At(a, d))
  BY AtIsFinite
<1>6. PICK k \in {0, 1} : k = Pending(p, d)
  BY PendingIsOne
<1>7. (d \notin dm => dt[d].m_refs = n + k) /\ (d \in dm => dt[d].m_refs = 0 \/ dt[d].m_refs >= n + k) /\ dt[d].m_refs = 1
  BY <1>2, <1>3, <1>5, <1>6 DEF RefsRight
<1>8. Cardinality(At(b, d)) \in Nat /\ IsFiniteSet(At(b, d))
  BY AtIsFinite
<1>9. Cardinality(At(b, d)) = 0 /\ k = 0
  BY <1>4, <1>5, <1>6, <1>7, <1>8
<1>10. At(b, d) = {}
  BY <1>8, <1>9, FS_EmptySet
<1>11. p # d
  BY <1>6, <1>9 DEF Pending
<1>12. PICK less : less = Drop(dt, d)
  OBVIOUS
<1>13. DOMAIN less = DOMAIN dt \ {d} /\ (\A e \in DOMAIN less : less[e] = dt[e]) /\ less = [e \in DOMAIN less |-> less[e]]
  BY <1>12 DEF Drop
<1>14. IsFiniteSet(DOMAIN dt \ {d})
  <2>1. IsFiniteSet(DOMAIN dt) /\ DOMAIN dt \ {d} \subseteq DOMAIN dt
    BY DEF DataTypes
  <2> QED
    BY <2>1, FS_Subset
<1>15. \A i \in Iterators : b[i] # 0 => b[i] \in DOMAIN less
  <2> SUFFICES ASSUME NEW i \in Iterators, b[i] # 0 PROVE b[i] \in DOMAIN less
    OBVIOUS
  <2>1. b[i] = a[i] /\ a[i] \in DOMAIN dt /\ b[i] # d
    BY <1>4, <1>10 DEF DataTypes, At
  <2> QED
    BY <1>13, <2>1
<1>16. DataTypes(less, b)
  BY <1>4, <1>13, <1>14, <1>15 DEF DataTypes
<1>17. RefsRight(less, b, dm, p)
  <2>1. \A e \in DOMAIN less : e \in DOMAIN dt /\ less[e] = dt[e] /\ At(b, e) = At(a, e)
    BY <1>3, <1>4, <1>13
  <2> QED
    BY <2>1 DEF RefsRight
<1> QED
  BY <1>1, <1>2, <1>11, <1>12, <1>16, <1>17 DEF Dropped

\* An exception leaves the state with a count of zero, and the pending reference.
LEMMA RefsDoomed ==
    ASSUME NEW dt, NEW a, NEW dm, NEW p, DataTypes(dt, a), RefsRight(dt, a, dm, p),
           NEW d \in DOMAIN dt, NEW x, x.m_refs = 0
    PROVE  RefsRight(Put(dt, d, x), a, dm \cup {d, p}, 0)
<1>1. PICK more : more = Put(dt, d, x)
  OBVIOUS
<1>2. DOMAIN more = DOMAIN dt \cup {d} /\ more[d] = x /\ \A e \in DOMAIN dt : e # d => more[e] = dt[e]
  BY <1>1 DEF Put
<1>3. ASSUME NEW e \in DOMAIN more
      PROVE  /\ e \notin dm \cup {d, p} => more[e].m_refs = Cardinality(At(a, e)) + Pending(0, e) /\ more[e].m_refs > 0
             /\ e \in dm \cup {d, p} => more[e].m_refs = 0 \/ more[e].m_refs >= Cardinality(At(a, e)) + Pending(0, e)
  <2>1. e \in DOMAIN dt /\ Pending(0, e) = 0
    BY <1>2 DEF DataTypes, Pending
  <2>2. PICK n \in Nat : n = Cardinality(At(a, e))
    BY AtIsFinite
  <2>3. CASE e = d
    BY <1>2, <2>3
  <2>4. CASE e # d /\ e = p
    <3>1. Pending(p, e) = 1 /\ more[e] = dt[e]
      BY <1>2, <2>1, <2>4 DEF Pending
    <3>2. more[e].m_refs = 0 \/ more[e].m_refs >= n + 1
      BY <2>1, <2>2, <3>1 DEF RefsRight
    <3>3. more[e].m_refs \in Nat
      BY <2>1, <3>1 DEF DataTypes, DataRec
    <3> QED
      BY <2>1, <2>2, <2>4, <3>2, <3>3
  <2>5. CASE e # d /\ e # p
    <3>1. Pending(p, e) = 0 /\ more[e] = dt[e]
      BY <1>2, <2>1, <2>5 DEF Pending
    <3> QED
      BY <2>1, <2>5, <3>1 DEF RefsRight
  <2> QED
    BY <2>3, <2>4, <2>5
<1>4. RefsRight(more, a, dm \cup {d, p}, 0)
  BY <1>3 DEF RefsRight
<1> QED
  BY <1>1, <1>4

\* A new state has one user who is to come.
LEMMA RefsNew ==
    ASSUME NEW dt, NEW a, NEW dm, DataTypes(dt, a), RefsRight(dt, a, dm, 0),
           NEW n \in Nat \ {0}, n \notin DOMAIN dt, NEW x, x.m_refs = 1
    PROVE  RefsRight(Put(dt, n, x), a, dm, n)
<1>1. At(a, n) = {}
  BY DEF DataTypes, At
<1>2. Cardinality(At(a, n)) = 0
  BY <1>1, FS_EmptySet
<1>3. Pending(n, n) = 1 /\ \A e \in DOMAIN dt : Pending(n, e) = 0 /\ Pending(0, e) = 0
  BY DEF Pending, DataTypes
<1>4. \A e \in DOMAIN dt : e # n => Cardinality(At(a, e)) + Pending(n, e) = Cardinality(At(a, e)) + Pending(0, e)
  BY <1>3
<1>5. x.m_refs = Cardinality(At(a, n)) + Pending(n, n) /\ x.m_refs > 0
  BY <1>2, <1>3
<1>6. x.m_refs >= Cardinality(At(a, n)) + Pending(n, n)
  BY <1>2, <1>3
<1> QED
  BY <1>4, <1>5, <1>6, RefsChange

LEMMA ExceptIsPut ==
    ASSUME NEW dt, dt = [e \in DOMAIN dt |-> dt[e]], NEW d \in DOMAIN dt, NEW x
    PROVE  [dt EXCEPT ![d] = x] = Put(dt, d, x)
<1>1. PICK f : f = [e \in DOMAIN dt |-> dt[e]]
  OBVIOUS
<1>2. [f EXCEPT ![d] = x] = [e \in DOMAIN f |-> IF e = d THEN x ELSE f[e]] /\ DOMAIN f = DOMAIN dt \cup {d}
  BY <1>1
<1> QED
  BY <1>1, <1>2 DEF Put

\* The streams are as open as before, and the same read them.
LEMMA ReadersSame ==
    ASSUME NEW dt, NEW st, NEW w, ReadersRight(dt, st, w), NEW more, NEW now, Len(now) = Len(st),
           \A dir \in 1..Len(st) : now[dir].open = st[dir].open,
           \A d \in DOMAIN more : more[d].m_dir \in 0..Len(st),
           \A dir \in 1..Len(st) : \A d : (d \in DOMAIN more /\ Reads(more, d, dir)) <=> (d \in DOMAIN dt /\ Reads(dt, d, dir))
    PROVE  ReadersRight(more, now, w)
<1>1. ASSUME NEW dir \in 1..Len(st)
      PROVE  /\ \A d, e \in DOMAIN more : Reads(more, d, dir) /\ Reads(more, e, dir) => d = e
             /\ (\E d \in DOMAIN more : Reads(more, d, dir)) <=> now[dir].open /\ dir \notin w
  BY DEF ReadersRight
<1> QED
  BY <1>1 DEF ReadersRight

\* One stream is closed and nobody reads it then.
LEMMA ReadersFewer ==
    ASSUME NEW dt, NEW st, NEW w, ReadersRight(dt, st, w), NEW more, NEW now, Len(now) = Len(st),
           NEW shut \in 1..Len(st), now[shut].open = FALSE,
           \A dir \in 1..Len(st) : dir # shut => now[dir].open = st[dir].open,
           \A d \in DOMAIN more : more[d].m_dir \in 0..Len(st) /\ ~Reads(more, d, shut),
           \A dir \in 1..Len(st) : dir # shut =>
               \A d : (d \in DOMAIN more /\ Reads(more, d, dir)) <=> (d \in DOMAIN dt /\ Reads(dt, d, dir))
    PROVE  ReadersRight(more, now, w)
<1>1. ASSUME NEW dir \in 1..Len(st)
      PROVE  /\ \A d, e \in DOMAIN more : Reads(more, d, dir) /\ Reads(more, e, dir) => d = e
             /\ (\E d \in DOMAIN more : Reads(more, d, dir)) <=> now[dir].open /\ dir \notin w
  <2>1. CASE dir = shut
    BY <2>1
  <2>2. CASE dir # shut
    BY <2>2 DEF ReadersRight
  <2> QED
    BY <2>1, <2>2
<1> QED
  BY <1>1 DEF ReadersRight

\* Only a count is changed.
Recounted(s, w, d, n, t, x) ==
    /\ ReadRight(t, w) /\ t = [s EXCEPT !.data = Put(s.data, d, x)] /\ x = [s.data[d] EXCEPT !.m_refs = n]
    /\ DataRec(x) /\ x.m_refs = n /\ x.m_valid = s.data[d].m_valid /\ x.m_dir = s.data[d].m_dir

LEMMA CountChanged ==
    ASSUME NEW s, NEW w, ReadRight(s, w), NEW d \in DOMAIN s.data, NEW n \in Nat,
           NEW t, t = [s EXCEPT !.data[d].m_refs = n]
    PROVE  \E x : Recounted(s, w, d, n, t, x)
<1>1. PICK dt, a, st, o, th : s = [data |-> dt, at |-> a, streams |-> st, ok |-> o, thrown |-> th]
  BY DEF ReadRight
<1>2. DataTypes(dt, a) /\ st \in Seq(StreamRecs) /\ ReadersRight(dt, st, w) /\ d \in DOMAIN dt
  BY <1>1 DEF ReadRight
<1>3. PICK x : x = [dt[d] EXCEPT !.m_refs = n]
  OBVIOUS
<1>4. DataRec(dt[d]) /\ d \in Nat \ {0} /\ dt = [e \in DOMAIN dt |-> dt[e]]
  BY <1>2 DEF DataTypes
<1>5. DataRec(x) /\ x.m_refs = n /\ x.m_valid = dt[d].m_valid /\ x.m_dir = dt[d].m_dir
  BY <1>3, <1>4 DEF DataRec
<1>6. PICK more : more = Put(dt, d, x)
  OBVIOUS
<1>7. t = [data |-> more, at |-> a, streams |-> st, ok |-> o, thrown |-> th]
  <2>1. t = [s EXCEPT !.data = [dt EXCEPT ![d] = x]]
    BY <1>1, <1>3
  <2>2. [dt EXCEPT ![d] = x] = more
    BY <1>2, <1>4, <1>6, ExceptIsPut
  <2>3. t = [s EXCEPT !.data = more]
    BY <2>1, <2>2
  <2> QED
    BY <1>1, <2>3
<1>8. DataTypes(more, a)
  BY <1>2, <1>4, <1>5, <1>6, PutTypes
<1>9. DOMAIN more = DOMAIN dt /\ more[d] = x /\ \A e \in DOMAIN dt : e # d => more[e] = dt[e]
  BY <1>2, <1>6 DEF Put
<1>10. ReadersRight(more, st, w)
  <2>1. \A e \in DOMAIN more : more[e].m_dir \in 0..Len(st)
    BY <1>2, <1>5, <1>9 DEF ReadersRight
  <2>2. \A dir, e : (e \in DOMAIN more /\ Reads(more, e, dir)) <=> (e \in DOMAIN dt /\ Reads(dt, e, dir))
    BY <1>5, <1>9 DEF Reads
  <2> QED
    BY <1>2, <2>1, <2>2, ReadersSame
<1>11. ReadRight(t, w)
  BY <1>2, <1>7, <1>8, <1>10 DEF ReadRight
<1>12. t = [s EXCEPT !.data = Put(s.data, d, x)] /\ x = [s.data[d] EXCEPT !.m_refs = n]
  BY <1>1, <1>3, <1>6, <1>7
<1> QED
  BY <1>1, <1>5, <1>11, <1>12 DEF Recounted

LEMMA ReferredRight ==
    ASSUME NEW s, NEW dm, NEW w, Right(s, dm, w, 0), NEW d \in DOMAIN s.data, s.data[d].m_refs > 0,
           NEW t, t = Dir!Referred(s, d)
    PROVE  /\ Right(t, dm, w, d) /\ t.at = s.at /\ t.streams = s.streams /\ t.ok = s.ok /\ t.thrown = s.thrown
           /\ DOMAIN t.data = DOMAIN s.data /\ t.data[d].m_refs = s.data[d].m_refs + 1
           /\ \A e \in DOMAIN s.data :
                  /\ e # d => t.data[e] = s.data[e]
                  /\ t.data[e].m_valid = s.data[e].m_valid /\ t.data[e].m_dir = s.data[e].m_dir
<1>1. ReadRight(s, w) /\ RefsRight(s.data, s.at, dm, 0) /\ DataTypes(s.data, s.at)
  BY DEF Right, ReadRight
<1>2. PICK n \in Nat : n = s.data[d].m_refs + 1
  <2>1. DataRec(s.data[d])
    BY <1>1 DEF DataTypes
  <2>2. s.data[d].m_refs \in Nat
    BY <2>1 DEF DataRec
  <2> QED
    BY <2>2
<1>3. t = [s EXCEPT !.data[d].m_refs = n]
  BY <1>2 DEF Dir!Referred
<1>30. PICK x : Recounted(s, w, d, n, t, x)
  BY <1>1, <1>3, CountChanged
<1>4. /\ ReadRight(t, w) /\ t = [s EXCEPT !.data = Put(s.data, d, x)]
      /\ DataRec(x) /\ x.m_refs = n /\ x.m_valid = s.data[d].m_valid /\ x.m_dir = s.data[d].m_dir
  BY <1>30 DEF Recounted
<1>5. t.data = Put(s.data, d, x) /\ t.at = s.at /\ t.streams = s.streams /\ t.ok = s.ok /\ t.thrown = s.thrown
  BY <1>1, <1>4 DEF ReadRight
<1>6. RefsRight(t.data, t.at, dm, d)
  <2>1. RefsRight(Put(s.data, d, x), s.at, dm, d)
    BY <1>1, <1>2, <1>4, RefsMore
  <2> QED
    BY <1>5, <2>1
<1>7. /\ DOMAIN t.data = DOMAIN s.data /\ t.data[d] = x /\ \A e \in DOMAIN s.data : e # d => t.data[e] = s.data[e]
  BY <1>5 DEF Put
<1> QED
  BY <1>2, <1>4, <1>5, <1>6, <1>7 DEF Right

Takes(s, j, p, t) == t = [s EXCEPT !.at[j] = p]
Took(s, dm, w, j, p, t) ==
    Right(t, dm, w, 0) /\ t.data = s.data /\ t.at[j] = p /\ \A i \in Iterators : i # j => t.at[i] = s.at[i]

LEMMA TakenRight ==
    ASSUME NEW s, NEW dm, NEW w, NEW p \in DOMAIN s.data, Right(s, dm, w, p), NEW j \in Iterators, s.at[j] = 0,
           NEW t, Takes(s, j, p, t)
    PROVE  Took(s, dm, w, j, p, t)
<1>1. PICK dt, a, st, o, th : s = [data |-> dt, at |-> a, streams |-> st, ok |-> o, thrown |-> th]
  BY DEF Right, ReadRight
<1>2. DataTypes(dt, a) /\ st \in Seq(StreamRecs) /\ ReadersRight(dt, st, w) /\ p \in DOMAIN dt /\ RefsRight(dt, a, dm, p)
      /\ a[j] = 0
  BY <1>1 DEF Right, ReadRight
<1>3. PICK b : b = [a EXCEPT ![j] = p]
  OBVIOUS
<1>4. t = [data |-> dt, at |-> b, streams |-> st, ok |-> o, thrown |-> th]
  BY <1>1, <1>3 DEF Takes
<1>5. DataTypes(dt, b) /\ RefsRight(dt, b, dm, 0)
  BY <1>2, <1>3, RefsTaken
<1>6. Right(t, dm, w, 0)
  BY <1>2, <1>4, <1>5 DEF Right, ReadRight
<1>7. b[j] = p /\ \A i \in Iterators : i # j => b[i] = a[i]
  BY <1>2, <1>3 DEF DataTypes
<1>8. s.data = dt /\ s.at = a /\ t.data = dt /\ t.at = b
  BY <1>1, <1>4
<1> QED
  BY <1>6, <1>7, <1>8 DEF Took

\* One state is changed, and perhaps its stream.
Changed(s, w, d, t, x) ==
    /\ ReadRight(t, w) /\ t.data = Put(s.data, d, x) /\ DataRec(x)
    /\ t.at = s.at /\ t.ok = s.ok /\ Len(t.streams) = Len(s.streams)

LEMMA MemoryRight ==
    ASSUME NEW dt, NEW a, NEW st, NEW o, NEW th, NEW w, NEW t,
           DataTypes(dt, a), st \in Seq(StreamRecs), ReadersRight(dt, st, w),
           t = [data |-> dt, at |-> a, streams |-> st, ok |-> o, thrown |-> th]
    PROVE  /\ ReadRight(t, w)
           /\ t.data = dt /\ t.at = a /\ t.streams = st /\ t.ok = o /\ t.thrown = th
  BY DEF ReadRight

Forgets(s, d, nothing, t) == t = [s EXCEPT !.data[d].m_last_name = nothing]
Shuts(s, d, dir, fails, t) == t = [s EXCEPT !.data[d].m_dir = 0, !.streams[dir].open = FALSE, !.thrown = fails]

LEMMA ForgottenRight ==
    ASSUME NEW s, NEW w, ReadRight(s, w), NEW d \in DOMAIN s.data, NEW nothing,
           NEW t, Forgets(s, d, nothing, t)
    PROVE  \E x : /\ Changed(s, w, d, t, x) /\ x.m_refs = s.data[d].m_refs /\ t.thrown = s.thrown
                  /\ x.m_valid = s.data[d].m_valid
<1>1. PICK dt, a, st, o, th : s = [data |-> dt, at |-> a, streams |-> st, ok |-> o, thrown |-> th]
  BY DEF ReadRight
<1>2. DataTypes(dt, a) /\ st \in Seq(StreamRecs) /\ ReadersRight(dt, st, w) /\ d \in DOMAIN dt
  BY <1>1 DEF ReadRight
<1>3. PICK x : x = [dt[d] EXCEPT !.m_last_name = nothing]
  OBVIOUS
<1>4. DataRec(dt[d]) /\ d \in Nat \ {0} /\ dt = [e \in DOMAIN dt |-> dt[e]]
  BY <1>2 DEF DataTypes
<1>5. DataRec(x) /\ x.m_refs = dt[d].m_refs /\ x.m_valid = dt[d].m_valid /\ x.m_dir = dt[d].m_dir
  BY <1>3, <1>4 DEF DataRec
<1>6. PICK more : more = Put(dt, d, x)
  OBVIOUS
<1>7. t = [data |-> more, at |-> a, streams |-> st, ok |-> o, thrown |-> th]
  <2>1. t = [s EXCEPT !.data = [dt EXCEPT ![d] = x]]
    BY <1>1, <1>3 DEF Forgets
  <2>2. [dt EXCEPT ![d] = x] = more
    BY <1>2, <1>4, <1>6, ExceptIsPut
  <2>3. t = [s EXCEPT !.data = more]
    BY <2>1, <2>2
  <2> QED
    BY <1>1, <2>3
<1>8. DataTypes(more, a)
  BY <1>2, <1>4, <1>5, <1>6, PutTypes
<1>9. DOMAIN more = DOMAIN dt /\ more[d] = x /\ \A e \in DOMAIN dt : e # d => more[e] = dt[e]
  BY <1>2, <1>6 DEF Put
<1>10. ReadersRight(more, st, w)
  <2>1. \A e \in DOMAIN more : more[e].m_dir \in 0..Len(st)
    BY <1>2, <1>5, <1>9 DEF ReadersRight
  <2>2. \A dir, e : (e \in DOMAIN more /\ Reads(more, e, dir)) <=> (e \in DOMAIN dt /\ Reads(dt, e, dir))
    BY <1>5, <1>9 DEF Reads
  <2> QED
    BY <1>2, <2>1, <2>2, ReadersSame
<1>11. ReadRight(t, w)
  BY <1>2, <1>7, <1>8, <1>10, MemoryRight
<1>12. Changed(s, w, d, t, x)
  BY <1>1, <1>5, <1>6, <1>7, <1>11 DEF Changed
<1> QED
  BY <1>1, <1>5, <1>7, <1>12

\* The stream that one reads is closed.
ShutOne(s, w, d, t, x) == Changed(s, w, d, t, x) /\ x.m_refs = s.data[d].m_refs /\ x.m_dir = 0

LEMMA ShutRight ==
    ASSUME NEW s, NEW w, ReadRight(s, w), NEW d \in DOMAIN s.data, s.data[d].m_valid, NEW dir, dir = s.data[d].m_dir, dir # 0,
           NEW fails, NEW t, Shuts(s, d, dir, fails, t)
    PROVE  \E x : ShutOne(s, w, d, t, x)
<1>1. PICK dt, a, st, o, th : s = [data |-> dt, at |-> a, streams |-> st, ok |-> o, thrown |-> th]
  BY DEF ReadRight
<1>2. DataTypes(dt, a) /\ st \in Seq(StreamRecs) /\ ReadersRight(dt, st, w) /\ d \in DOMAIN dt /\ Reads(dt, d, dir)
  BY <1>1 DEF ReadRight, Reads
<1>3. PICK x : x = [dt[d] EXCEPT !.m_dir = 0]
  OBVIOUS
<1>4. DataRec(dt[d]) /\ d \in Nat \ {0} /\ dt = [e \in DOMAIN dt |-> dt[e]]
  BY <1>2 DEF DataTypes
<1>5. DataRec(x) /\ x.m_refs = dt[d].m_refs /\ x.m_dir = 0
  BY <1>3, <1>4 DEF DataRec
<1>6. PICK more : more = Put(dt, d, x)
  OBVIOUS
<1>7. PICK now : now = [st EXCEPT ![dir].open = FALSE]
  OBVIOUS
<1>8. t = [data |-> more, at |-> a, streams |-> now, ok |-> o, thrown |-> fails]
  <2>1. t = [s EXCEPT !.data = [dt EXCEPT ![d] = x], !.streams = now, !.thrown = fails]
    BY <1>1, <1>3, <1>7 DEF Shuts
  <2>2. [dt EXCEPT ![d] = x] = more
    BY <1>2, <1>4, <1>6, ExceptIsPut
  <2>3. t = [s EXCEPT !.data = more, !.streams = now, !.thrown = fails]
    BY <2>1, <2>2
  <2> QED
    BY <1>1, <2>3
<1>9. DataTypes(more, a)
  BY <1>2, <1>4, <1>5, <1>6, PutTypes
<1>10. DOMAIN more = DOMAIN dt /\ more[d] = x /\ \A e \in DOMAIN dt : e # d => more[e] = dt[e]
  BY <1>2, <1>6 DEF Put
<1>11. Len(st) \in Nat /\ dir \in 1..Len(st)
  <2>1. dt[d].m_dir = dir /\ dir # 0 /\ dir \in 0..Len(st)
    BY <1>2 DEF Reads, ReadersRight
  <2> QED
    BY <1>2, <2>1
<1>12. now \in Seq(StreamRecs) /\ Len(now) = Len(st) /\ now[dir].open = FALSE
       /\ \A k \in 1..Len(st) : k # dir => now[k] = st[k]
  <2>1. st[dir] \in StreamRecs
    BY <1>2, <1>11
  <2>2. PICK y : y = [st[dir] EXCEPT !.open = FALSE]
    OBVIOUS
  <2>3. y \in StreamRecs /\ y.open = FALSE
    BY <2>1, <2>2 DEF StreamRecs
  <2>4. now = [st EXCEPT ![dir] = y]
    BY <1>7, <2>2
  <2> QED
    BY <1>2, <1>11, <2>3, <2>4
<1>13. ReadersRight(more, now, w)
  <2>1. \A e \in DOMAIN more : more[e].m_dir \in 0..Len(st)
    BY <1>2, <1>5, <1>10, <1>11 DEF ReadersRight
  <2>2. \A e \in DOMAIN more : ~Reads(more, e, dir)
    <3>1. \A e \in DOMAIN dt : Reads(dt, e, dir) => e = d
      BY <1>2, <1>11 DEF ReadersRight
    <3>2. \A e \in DOMAIN more : e # d => ~Reads(more, e, dir)
      BY <1>10, <3>1 DEF Reads
    <3>3. ~Reads(more, d, dir)
      BY <1>5, <1>10 DEF Reads
    <3> QED
      BY <3>2, <3>3
  <2>3. \A k \in 1..Len(st) : k # dir =>
            \A e : (e \in DOMAIN more /\ Reads(more, e, k)) <=> (e \in DOMAIN dt /\ Reads(dt, e, k))
    <3>1. \A k \in 1..Len(st) : ~Reads(more, d, k)
      BY <1>5, <1>10, <1>11 DEF Reads
    <3>2. \A k \in 1..Len(st) : k # dir => ~Reads(dt, d, k)
      BY <1>2 DEF Reads
    <3>3. \A k, e : e # d => ((e \in DOMAIN more /\ Reads(more, e, k)) <=> (e \in DOMAIN dt /\ Reads(dt, e, k)))
      BY <1>10 DEF Reads
    <3> QED
      BY <3>1, <3>2, <3>3
  <2> QED
    BY <1>2, <1>11, <1>12, <2>1, <2>2, <2>3, ReadersFewer
<1>14. /\ ReadRight(t, w)
       /\ t.data = more /\ t.at = a /\ t.streams = now /\ t.ok = o /\ t.thrown = fails
  BY <1>8, <1>9, <1>12, <1>13, MemoryRight
<1>15. Changed(s, w, d, t, x)
  <2>1. s.data = dt /\ s.at = a /\ s.ok = o /\ s.streams = st
    BY <1>1
  <2>2. Len(t.streams) = Len(s.streams)
    BY <1>12, <1>14, <2>1
  <2> QED
    BY <1>5, <1>6, <1>14, <2>1, <2>2 DEF Changed
<1> QED
  BY <1>1, <1>5, <1>15 DEF ShutOne

\* What close () leaves is not read.
Shut(s, w, d, fails, t, x) ==
    /\ Changed(s, w, d, t, x) /\ x.m_refs = s.data[d].m_refs /\ t.thrown \in {s.thrown, fails}
    /\ ~x.m_valid \/ x.m_dir = 0

LEMMA ClosedRight ==
    ASSUME NEW s, NEW w, ReadRight(s, w), NEW d \in DOMAIN s.data, NEW fails, NEW t, t = Dir!closed(s, d, fails)
    PROVE  \E x : Shut(s, w, d, fails, t, x)
<1>1. CASE ~s.data[d].m_valid
  <2>1. PICK nothing : nothing = Dir!Nothing
    OBVIOUS
  <2>2. Forgets(s, d, nothing, t)
    BY <1>1, <2>1 DEF Dir!closed, Forgets
  <2>3. PICK x : /\ Changed(s, w, d, t, x) /\ x.m_refs = s.data[d].m_refs /\ t.thrown = s.thrown
                 /\ x.m_valid = s.data[d].m_valid
    BY <2>2, ForgottenRight
  <2> QED
    BY <1>1, <2>3 DEF Shut
<1>2. CASE s.data[d].m_valid /\ s.data[d].m_dir = 0
  <2>1. t = s
    BY <1>2 DEF Dir!closed, Dir!Null
  <2>2. PICK x : x = s.data[d]
    OBVIOUS
  <2>3. DataRec(x) /\ d \in Nat \ {0} /\ s.data = [e \in DOMAIN s.data |-> s.data[e]]
    BY <2>2 DEF ReadRight, DataTypes
  <2>4. Put(s.data, d, x) = s.data
    <3>1. [s.data EXCEPT ![d] = x] = s.data
      BY <2>2, <2>3
    <3> QED
      BY <2>3, <3>1, ExceptIsPut
  <2>5. Changed(s, w, d, t, x)
    BY <2>1, <2>3, <2>4 DEF Changed
  <2>6. Shut(s, w, d, fails, t, x)
    BY <1>2, <2>1, <2>2, <2>5 DEF Shut
  <2> QED
    BY <2>6
<1>3. CASE s.data[d].m_valid /\ s.data[d].m_dir # 0
  <2>1. PICK dir : dir = s.data[d].m_dir
    OBVIOUS
  <2>2. Shuts(s, d, dir, fails, t)
    BY <1>3, <2>1 DEF Dir!closed, Dir!Null, Shuts
  <2>3. PICK x : ShutOne(s, w, d, t, x)
    <3>1. s.data[d].m_valid /\ dir # 0
      BY <1>3, <2>1
    <3> QED
      BY <2>1, <2>2, <3>1, ShutRight
  <2>4. t.thrown = fails
    BY <2>2 DEF ReadRight, Shuts
  <2> QED
    BY <2>3, <2>4 DEF Shut, ShutOne
<1> QED
  BY <1>1, <1>2, <1>3

\* An iterator lets go of what it had.
Nowhere(t, j) == [t EXCEPT !.at[j] = 0]

LEMMA NowhereTypes ==
    ASSUME NEW dt, NEW a, DataTypes(dt, a), NEW j \in Iterators
    PROVE  DataTypes(dt, [a EXCEPT ![j] = 0])
<1>1. PICK b : b = [a EXCEPT ![j] = 0]
  OBVIOUS
<1>2. b \in [Iterators -> Nat] /\ \A i \in Iterators : b[i] = IF i = j THEN 0 ELSE a[i]
  BY <1>1 DEF DataTypes
<1>3. DataTypes(dt, b)
  BY <1>2 DEF DataTypes
<1> QED
  BY <1>1, <1>3

LEMMA DropReads ==
    ASSUME NEW dt, NEW st, NEW w, ReadersRight(dt, st, w), NEW d, \A dir \in 1..Len(st) : ~Reads(dt, d, dir)
    PROVE  ReadersRight(Drop(dt, d), st, w)
<1>1. PICK less : less = Drop(dt, d)
  OBVIOUS
<1>2. DOMAIN less = DOMAIN dt \ {d} /\ \A e \in DOMAIN less : less[e] = dt[e]
  BY <1>1 DEF Drop
<1>3. \A e \in DOMAIN less : less[e].m_dir \in 0..Len(st)
  BY <1>2 DEF ReadersRight
<1>4. \A dir \in 1..Len(st) : \A e : (e \in DOMAIN less /\ Reads(less, e, dir)) <=> (e \in DOMAIN dt /\ Reads(dt, e, dir))
  BY <1>2 DEF Reads
<1>5. ReadersRight(less, st, w)
  BY <1>3, <1>4, ReadersSame
<1> QED
  BY <1>1, <1>5

\* Either it has nothing then, or an exception left the state as it was, with a
\* count of zero.
Released(s, dm, w, p, j, fails, t) ==
    /\ t.ok = s.ok /\ t.at = s.at
    /\ t = [data |-> t.data, at |-> t.at, streams |-> t.streams, ok |-> t.ok, thrown |-> t.thrown]
    /\ \/ t.thrown = FALSE /\ Right(Nowhere(t, j), dm, w, p) /\ (p \in DOMAIN s.data => p \in DOMAIN t.data)
       \/ t.thrown = TRUE /\ fails = TRUE /\ Right(t, dm \cup {s.at[j], p}, w, 0)

Lets(s, d, fails, t) == t = Dir!release(s, d, fails)

LEMMA ReleaseRight ==
    ASSUME NEW s, NEW dm, NEW w, NEW p, Right(s, dm, w, p), s.thrown = FALSE, NEW j \in Iterators,
           NEW d, d = s.at[j], d # 0, s.data[d].m_refs > 0, NEW fails \in BOOLEAN, NEW t, Lets(s, d, fails, t)
    PROVE  Released(s, dm, w, p, j, fails, t)
<1>1. PICK dt, a, st, o, th : s = [data |-> dt, at |-> a, streams |-> st, ok |-> o, thrown |-> th]
  BY DEF Right, ReadRight
<1>2. /\ DataTypes(dt, a) /\ st \in Seq(StreamRecs) /\ ReadersRight(dt, st, w) /\ RefsRight(dt, a, dm, p)
      /\ d = a[j] /\ d \in DOMAIN dt /\ th = FALSE /\ dt[d].m_refs > 0 /\ ReadRight(s, w)
  <2>1. /\ DataTypes(dt, a) /\ st \in Seq(StreamRecs) /\ ReadersRight(dt, st, w) /\ RefsRight(dt, a, dm, p)
        /\ d = a[j] /\ th = FALSE /\ dt[d].m_refs > 0 /\ ReadRight(s, w)
    BY <1>1 DEF Right, ReadRight
  <2> QED
    BY <2>1 DEF DataTypes
<1>3. PICK n \in Nat : n = dt[d].m_refs - 1
  <2>1. DataRec(dt[d])
    BY <1>2 DEF DataTypes
  <2>2. dt[d].m_refs \in Nat
    BY <2>1 DEF DataRec
  <2> QED
    BY <1>2, <2>2
<1>4. PICK c : c = [s EXCEPT !.data[d].m_refs = n]
  OBVIOUS
<1>5. PICK x : Recounted(s, w, d, n, c, x)
  BY <1>1, <1>2, <1>4, CountChanged
<1>6. PICK b : b = [a EXCEPT ![j] = 0]
  OBVIOUS
<1>7. c = [data |-> Put(dt, d, x), at |-> a, streams |-> st, ok |-> o, thrown |-> FALSE]
  BY <1>1, <1>2, <1>5 DEF Recounted
<1>8. x.m_refs = n /\ DataRec(x) /\ ReadRight(c, w) /\ c.data[d] = x /\ DOMAIN c.data = DOMAIN dt
  <2>1. PICK more : more = Put(dt, d, x)
    OBVIOUS
  <2>2. more[d] = x /\ DOMAIN more = DOMAIN dt
    BY <1>2, <2>1 DEF Put
  <2>3. c.data = more
    BY <1>7, <2>1
  <2> QED
    BY <1>5, <2>2, <2>3 DEF Recounted
<1>9. t = IF n # 0 THEN c ELSE LET k == Dir!closed(c, d, fails) IN IF k.thrown THEN k ELSE Dir!Free(k, d)
  <2>1. c = [s EXCEPT !.data[d].m_refs = @ - 1]
    BY <1>1, <1>3, <1>4
  <2>2. c.data[d].m_refs = n
    BY <1>8
  <2> QED
    BY <2>1, <2>2 DEF Dir!release, Lets
<1>10. CASE n # 0
  <2>1. t = c
    BY <1>9, <1>10
  <2>2. Nowhere(t, j) = [data |-> Put(dt, d, x), at |-> b, streams |-> st, ok |-> o, thrown |-> FALSE]
    <3>1. PICK more, no : more = Put(dt, d, x) /\ no = FALSE
      OBVIOUS
    <3>2. t = [data |-> more, at |-> a, streams |-> st, ok |-> o, thrown |-> no]
      BY <1>7, <2>1, <3>1
    <3>3. Nowhere(t, j) = [data |-> more, at |-> b, streams |-> st, ok |-> o, thrown |-> no]
      BY <1>6, <3>2 DEF Nowhere
    <3> QED
      BY <3>1, <3>3
  <2>3. DataTypes(Put(dt, d, x), b) /\ ReadersRight(Put(dt, d, x), st, w)
    <3>1. DataTypes(Put(dt, d, x), a) /\ ReadersRight(Put(dt, d, x), st, w)
      BY <1>7, <1>8 DEF ReadRight
    <3> QED
      BY <1>6, <3>1, NowhereTypes
  <2>4. RefsRight(Put(dt, d, x), b, dm, p)
    <3>1. a[j] # 0 /\ dt[a[j]].m_refs > 1 /\ x.m_refs = dt[a[j]].m_refs - 1
      <4>1. dt[d].m_refs \in Nat
        BY <1>2 DEF DataTypes, DataRec
      <4> QED
        BY <1>2, <1>3, <1>8, <1>10, <4>1
    <3>2. RefsRight(Put(dt, a[j], x), [a EXCEPT ![j] = 0], dm, p)
      BY <1>2, <3>1, RefsLess
    <3> QED
      BY <1>2, <1>6, <3>2
  <2>5. PICK u : u = Nowhere(t, j)
    OBVIOUS
  <2>6. /\ ReadRight(u, w) /\ u.data = Put(dt, d, x) /\ u.at = b
    BY <1>2, <2>2, <2>3, <2>5, MemoryRight
  <2>7. Right(u, dm, w, p)
    BY <2>4, <2>6 DEF Right
  <2>8. t.ok = s.ok /\ t.at = s.at /\ t.thrown = FALSE /\ (p \in DOMAIN s.data => p \in DOMAIN t.data)
    BY <1>1, <1>7, <1>8, <2>1
  <2>9. t = [data |-> t.data, at |-> t.at, streams |-> t.streams, ok |-> t.ok, thrown |-> t.thrown]
    BY <1>8, <2>1 DEF ReadRight
  <2> QED
    BY <2>5, <2>7, <2>8, <2>9 DEF Released
<1>11. CASE n = 0
  <2>1. PICK k : k = Dir!closed(c, d, fails)
    OBVIOUS
  <2>2. PICK y : Shut(c, w, d, fails, k, y)
    BY <1>2, <1>8, <2>1, ClosedRight
  <2>3. /\ ReadRight(k, w) /\ k.data = Put(c.data, d, y) /\ DataRec(y) /\ k.at = c.at /\ k.ok = c.ok
        /\ y.m_refs = c.data[d].m_refs /\ k.thrown \in {c.thrown, fails} /\ (~y.m_valid \/ y.m_dir = 0)
    BY <2>2 DEF Shut, Changed
  <2>4. k.at = a /\ k.ok = o /\ y.m_refs = 0 /\ k.thrown \in {FALSE, fails}
    BY <1>7, <1>8, <1>11, <2>3
  <2>5. k.data = Put(dt, d, y)
    <3>1. Put(Put(dt, d, x), d, y) = Put(dt, d, y)
      BY DEF Put
    <3> QED
      BY <1>7, <2>3, <3>1
  <2>6. t = IF k.thrown THEN k ELSE Dir!Free(k, d)
    BY <1>9, <1>11, <2>1
  <2>7. CASE k.thrown
    <3>1. t = k /\ t.thrown = TRUE /\ fails = TRUE
      BY <2>4, <2>6, <2>7
    <3>2. RefsRight(Put(dt, d, y), a, dm \cup {d, p}, 0)
      BY <1>2, <2>4, RefsDoomed
    <3>3. RefsRight(t.data, t.at, dm \cup {s.at[j], p}, 0) /\ ReadRight(t, w)
      BY <2>3, <2>4, <2>5, <3>1, <3>2
    <3>4. t.ok = s.ok /\ t.at = s.at
      BY <1>1, <2>4, <3>1
    <3>5. t = [data |-> t.data, at |-> t.at, streams |-> t.streams, ok |-> t.ok, thrown |-> t.thrown]
      BY <2>3, <3>1 DEF ReadRight
    <3> QED
      BY <3>1, <3>3, <3>4, <3>5 DEF Released, Right
  <2>8. CASE ~k.thrown
    <3>1. t = Dir!Free(k, d) /\ k.thrown = FALSE
      BY <2>4, <2>6, <2>8
    <3>2. PICK now : now = k.streams
      OBVIOUS
    <3>3. k = [data |-> Put(dt, d, y), at |-> a, streams |-> now, ok |-> o, thrown |-> FALSE]
      BY <2>3, <2>4, <2>5, <3>1, <3>2 DEF ReadRight
    <3>4. [e \in DOMAIN k.data \ {d} |-> k.data[e]] = Drop(dt, d)
      <4>1. DOMAIN Put(dt, d, y) \ {d} = DOMAIN dt \ {d} /\ \A e \in DOMAIN dt \ {d} : Put(dt, d, y)[e] = dt[e]
        BY DEF Put
      <4> QED
        BY <2>5, <4>1 DEF Drop
    <3>5. t = [data |-> Drop(dt, d), at |-> a, streams |-> now, ok |-> o, thrown |-> FALSE]
      BY <3>1, <3>3, <3>4 DEF Dir!Free
    <3>6. DataTypes(Drop(dt, d), b) /\ RefsRight(Drop(dt, d), b, dm, p) /\ p # d
      <4>1. d # 0 /\ dt[d].m_refs = 1
        <5>1. dt[d].m_refs \in Nat
          BY <1>2 DEF DataTypes, DataRec
        <5> QED
          BY <1>2, <1>3, <1>11, <5>1
      <4>2. DataTypes(dt, a) /\ RefsRight(dt, a, dm, p) /\ j \in Iterators /\ d = a[j] /\ b = [a EXCEPT ![j] = 0]
        BY <1>2, <1>6
      <4>3. Dropped(dt, d, b, dm, p)
        BY <4>1, <4>2, RefsGone
      <4> QED
        BY <4>3 DEF Dropped
    <3>7. ReadersRight(Drop(dt, d), now, w) /\ now \in Seq(StreamRecs)
      <4>1. ReadersRight(k.data, now, w) /\ now \in Seq(StreamRecs)
        BY <2>3, <3>2 DEF ReadRight
      <4>2. k.data[d] = y
        BY <2>5 DEF Put
      <4>3. \A dir \in 1..Len(now) : ~Reads(k.data, d, dir)
        BY <2>3, <4>1, <4>2 DEF Reads
      <4>4. ReadersRight(Drop(k.data, d), now, w)
        BY <4>1, <4>3, DropReads
      <4>5. Drop(k.data, d) = Drop(dt, d)
        BY <3>4 DEF Drop
      <4> QED
        BY <4>1, <4>4, <4>5
    <3>8. PICK u : u = Nowhere(t, j)
      OBVIOUS
    <3>9. u = [data |-> Drop(dt, d), at |-> b, streams |-> now, ok |-> o, thrown |-> FALSE]
      <4>1. PICK less, no : less = Drop(dt, d) /\ no = FALSE
        OBVIOUS
      <4>2. t = [data |-> less, at |-> a, streams |-> now, ok |-> o, thrown |-> no]
        BY <3>5, <4>1
      <4>3. Nowhere(t, j) = [data |-> less, at |-> b, streams |-> now, ok |-> o, thrown |-> no]
        BY <1>6, <4>2 DEF Nowhere
      <4> QED
        BY <3>8, <4>1, <4>3
    <3>10. ReadRight(u, w) /\ u.data = Drop(dt, d) /\ u.at = b
      BY <3>6, <3>7, <3>9, MemoryRight
    <3>11. Right(u, dm, w, p)
      BY <3>6, <3>10 DEF Right
    <3>12. t.ok = s.ok /\ t.at = s.at /\ t.thrown = FALSE /\ (p \in DOMAIN s.data => p \in DOMAIN t.data)
      <4>1. DOMAIN Drop(dt, d) = DOMAIN dt \ {d}
        BY DEF Drop
      <4> QED
        BY <1>1, <3>5, <3>6, <4>1
    <3>13. t = [data |-> t.data, at |-> t.at, streams |-> t.streams, ok |-> t.ok, thrown |-> t.thrown]
      BY <3>5
    <3> QED
      BY <3>8, <3>11, <3>12, <3>13 DEF Released
  <2> QED
    BY <2>7, <2>8
<1> QED
  BY <1>10, <1>11

LEMMA SetIs ==
    ASSUME NEW dt, NEW a, NEW st, NEW o, NEW th, NEW s, NEW d, NEW x,
           s = [data |-> dt, at |-> a, streams |-> st, ok |-> o, thrown |-> th]
    PROVE  Dir!Set(s, d, x) = [data |-> Put(dt, d, x), at |-> a, streams |-> st, ok |-> o, thrown |-> th]
<1>1. PICK more : more = Put(dt, d, x)
  OBVIOUS
<1>2. [y \in DOMAIN s.data \cup {d} |-> IF y = d THEN x ELSE s.data[y]] = more
  BY <1>1 DEF Put
<1>3. Dir!Set(s, d, x) = [s EXCEPT !.data = more]
  BY <1>2 DEF Dir!Set
<1> QED
  BY <1>1, <1>3

\* The stream of d is read by n instead.
LEMMA ReadersMoved ==
    ASSUME NEW dt, NEW st, NEW w, ReadersRight(dt, st, w), NEW d \in DOMAIN dt, NEW n, n \notin DOMAIN dt,
           NEW dir \in 1..Len(st), Reads(dt, d, dir),
           NEW more, DOMAIN more = DOMAIN dt \cup {n}, Reads(more, n, dir), ~more[d].m_valid, more[d].m_dir = dir,
           \A e \in DOMAIN dt : e # d => more[e] = dt[e]
    PROVE  ReadersRight(more, st, w)
<1>0. Len(st) \in Nat \/ Len(st) \notin Nat
  OBVIOUS
<1>1. \A e \in DOMAIN more : more[e].m_dir \in 0..Len(st)
  <2>1. more[n].m_dir = dt[d].m_dir /\ more[d].m_dir = dt[d].m_dir
    BY DEF Reads
  <2> QED
    BY <2>1 DEF ReadersRight
<1>2. ASSUME NEW k \in 1..Len(st), k # dir, NEW e
      PROVE  (e \in DOMAIN more /\ Reads(more, e, k)) <=> (e \in DOMAIN dt /\ Reads(dt, e, k))
  <2>1. ~Reads(more, n, k) /\ ~Reads(more, d, k) /\ ~Reads(dt, d, k)
    BY <1>2 DEF Reads
  <2>2. CASE e = n \/ e = d
    BY <2>1, <2>2
  <2>3. CASE e # n /\ e # d
    BY <2>3 DEF Reads
  <2> QED
    BY <2>2, <2>3
<1>3. ASSUME NEW e \in DOMAIN more, Reads(more, e, dir) PROVE e = n
  <2> SUFFICES ASSUME e # n PROVE FALSE
    OBVIOUS
  <2>1. e # d
    BY <1>3 DEF Reads
  <2>2. e \in DOMAIN dt /\ Reads(dt, e, dir)
    BY <1>3, <2>1 DEF Reads
  <2>3. e = d
    BY <2>2 DEF ReadersRight
  <2> QED
    BY <2>1, <2>3
<1>4. ASSUME NEW k \in 1..Len(st)
      PROVE  /\ \A e, f \in DOMAIN more : Reads(more, e, k) /\ Reads(more, f, k) => e = f
             /\ (\E e \in DOMAIN more : Reads(more, e, k)) <=> st[k].open /\ k \notin w
  <2>1. CASE k = dir
    <3>1. st[k].open /\ k \notin w
      BY <2>1 DEF ReadersRight
    <3> QED
      BY <1>3, <2>1, <3>1
  <2>2. CASE k # dir
    <3>1. \A e : (e \in DOMAIN more /\ Reads(more, e, k)) <=> (e \in DOMAIN dt /\ Reads(dt, e, k))
      BY <1>2, <2>2
    <3>2. /\ \A e, f \in DOMAIN dt : Reads(dt, e, k) /\ Reads(dt, f, k) => e = f
          /\ (\E e \in DOMAIN dt : Reads(dt, e, k)) <=> st[k].open /\ k \notin w
      BY DEF ReadersRight
    <3> QED
      BY <3>1, <3>2
  <2> QED
    BY <2>1, <2>2
<1> QED
  BY <1>1, <1>4 DEF ReadersRight

\* Who is to go on has a state of its own, which reads the stream.
Stolen(s, dm, w, i, t) ==
    /\ Right(t, dm, w, 0) /\ t.streams = s.streams /\ t.thrown = s.thrown
    /\ t.at[i] \in DOMAIN t.data /\ t.data[t.at[i]].m_valid /\ t.data[t.at[i]].m_dir = s.data[s.at[i]].m_dir
    /\ \A j \in Iterators \ {i} : t.at[j] = s.at[j]
    /\ s.data[s.at[i]].m_refs > 1 =>
           s.at[i] \in DOMAIN t.data /\ t.data[s.at[i]].m_refs = s.data[s.at[i]].m_refs - 1
    /\ s.data[s.at[i]].m_refs = 1 => t.at = s.at /\ t.data[t.at[i]].m_refs = 1

Reader(s, i) ==
    /\ s.at[i] # 0 /\ s.data[s.at[i]].m_refs > 0
    /\ s.data[s.at[i]].m_valid /\ s.data[s.at[i]].m_dir # 0

Steals(s, i, t) == t = Dir!steal(s, i)

LEMMA StealRight ==
    ASSUME NEW s, NEW dm, NEW w, Right(s, dm, w, 0), NEW i \in Iterators, Reader(s, i), NEW t, Steals(s, i, t)
    PROVE  Stolen(s, dm, w, i, t)
<1>1. PICK dt, a, st, o, th : s = [data |-> dt, at |-> a, streams |-> st, ok |-> o, thrown |-> th]
  BY DEF Right, ReadRight
<1>2. /\ DataTypes(dt, a) /\ st \in Seq(StreamRecs) /\ ReadersRight(dt, st, w) /\ RefsRight(dt, a, dm, 0)
      /\ s.data = dt /\ s.at = a /\ s.streams = st
  BY <1>1 DEF Right, ReadRight
<1>3. PICK d : d = a[i]
  OBVIOUS
<1>4. d # 0 /\ d \in DOMAIN dt /\ dt[d].m_refs > 0 /\ dt[d].m_valid /\ dt[d].m_dir # 0 /\ DataRec(dt[d]) /\ d \in Nat \ {0}
  <2>1. d # 0 /\ dt[d].m_refs > 0 /\ dt[d].m_valid /\ dt[d].m_dir # 0
    BY <1>2, <1>3 DEF Reader
  <2> QED
    BY <1>2, <1>3, <2>1 DEF DataTypes
<1>5. CASE dt[d].m_refs = 1
  <2>1. t = s
    BY <1>2, <1>3, <1>5 DEF Dir!steal, Steals
  <2> QED
    BY <1>2, <1>3, <1>4, <1>5, <2>1 DEF Stolen
<1>6. CASE dt[d].m_refs # 1
  <2>1. dt[d].m_refs \in Nat /\ dt[d].m_refs > 1
    BY <1>4, <1>6 DEF DataRec
  <2>2. PICK n, nm : n = Dir!New(s) /\ nm = Dir!Deref(s, i)
    OBVIOUS
  <2>3. n \in Nat \ {0} /\ n \notin DOMAIN dt
    BY <1>2, <2>2, NewIsNew DEF DataTypes
  <2>4. PICK left, own : /\ left = [dt[d] EXCEPT !.m_last_name = nm, !.m_valid = FALSE, !.m_refs = @ - 1]
                         /\ own = [dt[d] EXCEPT !.m_refs = 1]
    OBVIOUS
  <2>5. /\ DataRec(left) /\ left.m_refs = dt[d].m_refs - 1 /\ left.m_valid = FALSE /\ left.m_dir = dt[d].m_dir
        /\ DataRec(own) /\ own.m_refs = 1 /\ own.m_valid = dt[d].m_valid /\ own.m_dir = dt[d].m_dir
    <3>1. PICK x : x = dt[d]
      OBVIOUS
    <3>2. PICK r, l, v, ds, ln, di : x = [m_refs |-> r, m_last |-> l, m_valid |-> v, m_dots |-> ds, m_last_name |-> ln, m_dir |-> di]
      BY <1>4, <3>1 DEF DataRec
    <3>3. r \in Nat /\ r > 1 /\ v \in BOOLEAN /\ di \in Nat
      BY <1>4, <2>1, <3>1, <3>2 DEF DataRec
    <3>4. PICK no \in BOOLEAN : no = FALSE
      OBVIOUS
    <3>40. PICK q \in Nat : q = r - 1
      BY <3>3
    <3>41. left = [x EXCEPT !.m_last_name = nm, !.m_valid = no, !.m_refs = q]
      <4>1. [dt[d] EXCEPT !.m_last_name = nm, !.m_valid = FALSE, !.m_refs = @ - 1] = [x EXCEPT !.m_last_name = nm, !.m_valid = no, !.m_refs = q]
        <5>1. dt[d].m_refs - 1 = q
          BY <3>1, <3>2, <3>40
        <5> QED
          BY <3>1, <3>4, <5>1, Zenon
      <4> QED
        BY <2>4, <4>1
    <3>5. left = [m_refs |-> q, m_last |-> l, m_valid |-> no, m_dots |-> ds, m_last_name |-> nm, m_dir |-> di]
      BY <3>2, <3>41
    <3>6. own = [m_refs |-> 1, m_last |-> l, m_valid |-> v, m_dots |-> ds, m_last_name |-> ln, m_dir |-> di]
      BY <2>4, <3>1, <3>2
    <3>7. DataRec(left) /\ left.m_refs = q /\ left.m_valid = no /\ left.m_dir = di
      BY <3>4, <3>40, <3>5, <3>3 DEF DataRec
    <3>8. DataRec(own) /\ own.m_refs = 1 /\ own.m_valid = v /\ own.m_dir = di
      BY <3>6, <3>3 DEF DataRec
    <3>9. dt[d].m_refs = r /\ dt[d].m_valid = v /\ dt[d].m_dir = di
      BY <3>1, <3>2
    <3> QED
      BY <3>4, <3>40, <3>7, <3>8, <3>9
  <2>6. PICK mid, more, b, c : /\ mid = Put(dt, d, left) /\ more = Put(mid, n, own)
                               /\ b = [a EXCEPT ![i] = 0] /\ c = [a EXCEPT ![i] = n]
    OBVIOUS
  <2>7. t = [data |-> more, at |-> c, streams |-> st, ok |-> o, thrown |-> th]
    <3>1. t = [Dir!Set(Dir!Set(s, d, left), n, own) EXCEPT !.at[i] = n]
      BY <1>2, <1>3, <1>6, <2>2, <2>4 DEF Dir!steal, Steals
    <3>2. Dir!Set(s, d, left) = [data |-> mid, at |-> a, streams |-> st, ok |-> o, thrown |-> th]
      BY <1>1, <2>6, SetIs
    <3>3. PICK half : half = Dir!Set(s, d, left)
      OBVIOUS
    <3>4. Dir!Set(half, n, own) = [data |-> more, at |-> a, streams |-> st, ok |-> o, thrown |-> th]
      BY <2>6, <3>2, <3>3, SetIs
    <3> QED
      BY <2>6, <3>1, <3>3, <3>4
  <2>8. DOMAIN mid = DOMAIN dt /\ mid[d] = left /\ \A e \in DOMAIN dt : e # d => mid[e] = dt[e]
    BY <1>4, <2>6 DEF Put
  <2>9. DOMAIN more = DOMAIN mid \cup {n} /\ more[n] = own /\ \A e \in DOMAIN mid : e # n => more[e] = mid[e]
    BY <2>6 DEF Put
  <2>10. DataTypes(mid, b) /\ RefsRight(mid, b, dm, 0) /\ b[i] = 0
    <3>1. DataTypes(mid, a)
      BY <1>2, <1>4, <2>5, <2>6, PutTypes
    <3>2. RefsRight(Put(dt, a[i], left), [a EXCEPT ![i] = 0], dm, 0)
      BY <1>2, <1>3, <1>4, <2>1, <2>5, RefsLess
    <3>3. b[i] = 0
      BY <1>2, <2>6 DEF DataTypes
    <3> QED
      BY <1>3, <2>6, <3>1, <3>2, <3>3, NowhereTypes
  <2>11. DataTypes(more, b) /\ RefsRight(more, b, dm, n) /\ n \in DOMAIN more
    <3>1. n \notin DOMAIN mid
      BY <2>3, <2>8
    <3>2. DataTypes(more, b)
      BY <2>3, <2>5, <2>6, <2>10, PutTypes
    <3>3. RefsRight(more, b, dm, n)
      BY <2>3, <2>5, <2>6, <2>10, <3>1, RefsNew
    <3> QED
      BY <2>9, <3>2, <3>3
  <2>12. DataTypes(more, c) /\ RefsRight(more, c, dm, 0)
    <3>1. c = [b EXCEPT ![i] = n]
      BY <1>2, <2>6 DEF DataTypes
    <3> QED
      BY <2>10, <2>11, <3>1, RefsTaken
  <2>13. ReadersRight(more, st, w)
    <3>1. PICK dir : dir = dt[d].m_dir
      OBVIOUS
    <3>2. dir \in 1..Len(st) /\ Reads(dt, d, dir)
      <4>1. dir \in 0..Len(st) /\ dir # 0 /\ Len(st) \in Nat
        BY <1>2, <1>4, <3>1 DEF ReadersRight
      <4> QED
        BY <1>4, <3>1, <4>1 DEF Reads
    <3>3. Reads(more, n, dir) /\ ~more[d].m_valid /\ more[d].m_dir = dir
      <4>1. d # n
        BY <1>4, <2>3
      <4> QED
        BY <1>4, <2>5, <2>8, <2>9, <3>1, <4>1 DEF Reads
    <3>4. DOMAIN more = DOMAIN dt \cup {n} /\ \A e \in DOMAIN dt : e # d => more[e] = dt[e]
      BY <2>3, <2>8, <2>9
    <3> QED
      BY <1>2, <1>4, <2>3, <3>2, <3>3, <3>4, ReadersMoved
  <2>14. /\ ReadRight(t, w) /\ t.data = more /\ t.at = c /\ t.streams = st /\ t.thrown = th
    BY <1>2, <2>7, <2>12, <2>13, MemoryRight
  <2>15. Right(t, dm, w, 0)
    BY <2>12, <2>14 DEF Right
  <2>16. c[i] = n /\ \A j \in Iterators \ {i} : c[j] = a[j]
    BY <1>2, <2>6 DEF DataTypes
  <2>17. more[n].m_valid /\ more[n].m_dir = dt[d].m_dir /\ d \in DOMAIN more /\ more[d].m_refs = dt[d].m_refs - 1
    BY <1>4, <2>3, <2>5, <2>8, <2>9
  <2>18. s.thrown = th
    BY <1>1
  <2> QED
    BY <1>2, <1>3, <1>6, <2>11, <2>14, <2>15, <2>16, <2>17, <2>18 DEF Stolen
<1> QED
  BY <1>5, <1>6

\* The entry that is read is put down where it belongs.
Marks(t, d, dir, r, c, l, u) ==
    u = [Dir!Asserts(t, c) EXCEPT !.streams[dir].left = r.left, !.streams[dir].buffer = r.buffer,
                                  !.data[d].m_last = l, !.thrown = r.fails]
Reading(r) == r.left \subseteq Names /\ r.buffer \in Names \cup {Dir!Nothing}

Marked(t, dm, w, d, r, u) ==
    /\ Right(u, dm, w, 0) /\ u.at = t.at /\ u.thrown = r.fails /\ DOMAIN u.data = DOMAIN t.data
    /\ \A e \in DOMAIN t.data : u.data[e].m_refs = t.data[e].m_refs
    /\ u.data[d].m_valid = t.data[d].m_valid /\ u.data[d].m_dir = t.data[d].m_dir

LEMMA MarkIs ==
    ASSUME NEW dt, NEW a, NEW st, NEW q, NEW th, NEW m, NEW d, NEW dir, NEW lf, NEW bu, NEW l, NEW fa, NEW u,
           m = [data |-> dt, at |-> a, streams |-> st, ok |-> q, thrown |-> th],
           u = [m EXCEPT !.streams[dir].left = lf, !.streams[dir].buffer = bu, !.data[d].m_last = l, !.thrown = fa]
    PROVE  u = [data |-> [dt EXCEPT ![d].m_last = l], at |-> a,
                streams |-> [st EXCEPT ![dir].left = lf, ![dir].buffer = bu], ok |-> q, thrown |-> fa]
  OBVIOUS

LEMMA MarkRight ==
    ASSUME NEW t, NEW dm, NEW w, Right(t, dm, w, 0), NEW d \in DOMAIN t.data, NEW dir, dir = t.data[d].m_dir, dir # 0,
           NEW r, Reading(r), NEW c, NEW l, NEW u, Marks(t, d, dir, r, c, l, u)
    PROVE  Marked(t, dm, w, d, r, u)
<1>1. PICK dt, a, st, o, th : t = [data |-> dt, at |-> a, streams |-> st, ok |-> o, thrown |-> th]
  BY DEF Right, ReadRight
<1>2. /\ DataTypes(dt, a) /\ st \in Seq(StreamRecs) /\ ReadersRight(dt, st, w) /\ RefsRight(dt, a, dm, 0)
      /\ t.data = dt /\ t.at = a /\ t.streams = st /\ d \in DOMAIN dt
  BY <1>1 DEF Right, ReadRight
<1>3. DataRec(dt[d]) /\ d \in Nat \ {0} /\ dt = [e \in DOMAIN dt |-> dt[e]]
  BY <1>2 DEF DataTypes
<1>4. PICK x : x = [dt[d] EXCEPT !.m_last = l]
  OBVIOUS
<1>5. DataRec(x) /\ x.m_refs = dt[d].m_refs /\ x.m_valid = dt[d].m_valid /\ x.m_dir = dt[d].m_dir
  BY <1>3, <1>4 DEF DataRec
<1>6. PICK more : more = Put(dt, d, x)
  OBVIOUS
<1>7. DOMAIN more = DOMAIN dt /\ more[d] = x /\ \A e \in DOMAIN dt : e # d => more[e] = dt[e]
  BY <1>2, <1>6 DEF Put
<1>8. dir \in 1..Len(st) /\ Len(st) \in Nat
  <2>1. dir \in 0..Len(st) /\ Len(st) \in Nat
    BY <1>2 DEF ReadersRight
  <2> QED
    BY <2>1
<1>9. PICK lf, bu, fa : lf = r.left /\ bu = r.buffer /\ fa = r.fails
  OBVIOUS
<1>10. PICK now : now = [st EXCEPT ![dir].left = lf, ![dir].buffer = bu]
  OBVIOUS
<1>11. now \in Seq(StreamRecs) /\ Len(now) = Len(st) /\ \A k \in 1..Len(st) : now[k].open = st[k].open
  <2>1. st[dir] \in StreamRecs
    BY <1>2, <1>8
  <2>2. PICK y : y = [st[dir] EXCEPT !.left = lf, !.buffer = bu]
    OBVIOUS
  <2>3. y \in StreamRecs /\ y.open = st[dir].open
    BY <1>9, <2>1, <2>2 DEF StreamRecs, Reading
  <2>4. now = [st EXCEPT ![dir] = y]
    BY <1>2, <1>8, <1>10, <2>2
  <2>5. now \in Seq(StreamRecs) /\ Len(now) = Len(st) /\ now[dir] = y /\ \A k \in 1..Len(st) : k # dir => now[k] = st[k]
    BY <1>2, <1>8, <2>3, <2>4
  <2> QED
    BY <2>3, <2>5
<1>12. PICK q : q = (o /\ c)
  OBVIOUS
<1>13. u = [data |-> more, at |-> a, streams |-> now, ok |-> q, thrown |-> fa]
  <2>1. Dir!Asserts(t, c) = [data |-> dt, at |-> a, streams |-> st, ok |-> q, thrown |-> th]
    <3>1. t.ok = o
      BY <1>1
    <3>2. (t.ok /\ c) = q
      BY <1>12, <3>1, Zenon
    <3>3. Dir!Asserts(t, c) = [t EXCEPT !.ok = q]
      BY <3>2, Zenon DEF Dir!Asserts
    <3> QED
      BY <1>1, <3>3
  <2>2. [dt EXCEPT ![d] = x] = more
    BY <1>2, <1>3, <1>6, ExceptIsPut
  <2>3. PICK m : m = Dir!Asserts(t, c)
    OBVIOUS
  <2>4. u = [m EXCEPT !.streams[dir].left = lf, !.streams[dir].buffer = bu, !.data[d].m_last = l, !.thrown = fa]
    BY <1>9, <2>3, Zenon DEF Marks
  <2>5. m = [data |-> dt, at |-> a, streams |-> st, ok |-> q, thrown |-> th]
    BY <2>1, <2>3
  <2>6. u = [data |-> [dt EXCEPT ![d].m_last = l], at |-> a,
             streams |-> [st EXCEPT ![dir].left = lf, ![dir].buffer = bu], ok |-> q, thrown |-> fa]
    BY <2>4, <2>5, MarkIs, ZenonT(30)
  <2>7. [dt EXCEPT ![d].m_last = l] = more
    BY <1>4, <2>2, Zenon
  <2> QED
    BY <1>10, <2>6, <2>7, Zenon
<1>14. DataTypes(more, a)
  BY <1>2, <1>3, <1>5, <1>6, PutTypes
<1>15. ReadersRight(more, now, w)
  <2>1. \A e \in DOMAIN more : more[e].m_dir \in 0..Len(st)
    BY <1>2, <1>5, <1>7 DEF ReadersRight
  <2>2. \A k, e : (e \in DOMAIN more /\ Reads(more, e, k)) <=> (e \in DOMAIN dt /\ Reads(dt, e, k))
    BY <1>5, <1>7 DEF Reads
  <2> QED
    BY <1>2, <1>11, <2>1, <2>2, ReadersSame
<1>16. RefsRight(more, a, dm, 0)
  BY <1>2, <1>5, <1>7 DEF RefsRight
<1>17. /\ ReadRight(u, w) /\ u.data = more /\ u.at = a /\ u.thrown = fa
  BY <1>11, <1>13, <1>14, <1>15, MemoryRight
<1>18. Right(u, dm, w, 0)
  BY <1>16, <1>17 DEF Right
<1> QED
  BY <1>2, <1>5, <1>7, <1>9, <1>17, <1>18 DEF Marked

Advanced(s, dm, w, i, r, u) ==
    /\ Right(u, dm, w, 0) /\ u.thrown = r.fails
    /\ u.at[i] \in DOMAIN u.data /\ u.data[u.at[i]].m_valid /\ u.data[u.at[i]].m_dir = s.data[s.at[i]].m_dir
    /\ \A j \in Iterators \ {i} : u.at[j] = s.at[j]
    /\ s.data[s.at[i]].m_refs > 1 =>
           s.at[i] \in DOMAIN u.data /\ u.data[s.at[i]].m_refs = s.data[s.at[i]].m_refs - 1
    /\ s.data[s.at[i]].m_refs = 1 => u.at = s.at /\ u.data[u.at[i]].m_refs = 1

Nexts(s, i, r, u) == u = Dir!next(s, i, r)

LEMMA NextRight ==
    ASSUME NEW s, NEW dm, NEW w, Right(s, dm, w, 0), NEW i \in Iterators, Reader(s, i), NEW r, Reading(r),
           NEW u, Nexts(s, i, r, u)
    PROVE  Advanced(s, dm, w, i, r, u)
<1>1. PICK t : Steals(s, i, t)
  BY DEF Steals
<1>2. Stolen(s, dm, w, i, t)
  BY <1>1, StealRight
<1>3. PICK d, dir : d = t.at[i] /\ dir = t.data[d].m_dir
  OBVIOUS
<1>4. Right(t, dm, w, 0) /\ d \in DOMAIN t.data /\ t.data[d].m_valid /\ dir # 0
  BY <1>2, <1>3 DEF Stolen, Reader
<1>5. PICK c, l : /\ c = (s.data[s.at[i]].m_valid /\ s.data[s.at[i]].m_last_name = Dir!Nothing /\ dir # Dir!Null)
                  /\ l = (~r.fails /\ r.buffer = Dir!Nothing)
  OBVIOUS
<1>6. Marks(t, d, dir, r, c, l, u)
  <2>1. t = Dir!steal(s, i)
    BY <1>1 DEF Steals
  <2> QED
    BY <1>3, <1>5, <2>1, Zenon DEF Dir!next, Nexts, Marks
<1>7. Marked(t, dm, w, d, r, u)
  BY <1>3, <1>4, <1>6, MarkRight
<1> QED
  BY <1>2, <1>3, <1>4, <1>7 DEF Stolen, Marked, Advanced

-----------------------------------------------------------------------------
(* Iterators that stay where they are while others go on.                  *)

\* What is shown through the state x: the entry in the buffer of the stream, or
\* the one that is remembered.
Gives(x, st, name) ==
    /\ ~x.m_last
    /\ x.m_valid => x.m_dir # 0 /\ st[x.m_dir].buffer = name /\ name # Dir!Nothing
    /\ ~x.m_valid => x.m_last_name = name

Shows(s, i, name) == s.at[i] # 0 /\ s.at[i] \in DOMAIN s.data /\ Gives(s.data[s.at[i]], s.streams, name)

SameButCount(x, y) ==
    y.m_last = x.m_last /\ y.m_valid = x.m_valid /\ y.m_dir = x.m_dir /\ y.m_last_name = x.m_last_name

BuffersKept(st, now) == \A k \in 1..Len(st) : now[k].buffer = st[k].buffer

LEMMA GivesStill ==
    ASSUME NEW x, NEW y, NEW st, NEW now, NEW name, Gives(x, st, name), SameButCount(x, y),
           x.m_valid /\ x.m_dir # 0 => now[x.m_dir].buffer = st[x.m_dir].buffer
    PROVE  Gives(y, now, name)
BY DEF Gives, SameButCount

LEMMA StaysShown ==
    ASSUME NEW s, NEW t, NEW i, NEW name, Shows(s, i, name), NEW d, d = s.at[i], t.at[i] = d, d \in DOMAIN t.data,
           SameButCount(s.data[d], t.data[d]),
           NEW dir, dir = s.data[d].m_dir, s.data[d].m_valid /\ dir # 0 => t.streams[dir].buffer = s.streams[dir].buffer
    PROVE  Shows(t, i, name)
<1>1. d # 0 /\ Gives(s.data[d], s.streams, name)
  BY DEF Shows
<1>2. Gives(t.data[d], t.streams, name)
  BY <1>1, GivesStill
<1> QED
  BY <1>1, <1>2 DEF Shows

\* Nothing happens to the state of i, and no buffer is read into.
LEMMA QuietlyShown ==
    ASSUME NEW s, NEW w, ReadRight(s, w), NEW t, NEW i, NEW name, Shows(s, i, name),
           NEW d, d = s.at[i], t.at[i] = d, d \in DOMAIN t.data,
           SameButCount(s.data[d], t.data[d]), BuffersKept(s.streams, t.streams)
    PROVE  Shows(t, i, name)
<1>1. PICK dir : dir = s.data[d].m_dir
  OBVIOUS
<1>2. dir \in 0..Len(s.streams) /\ Len(s.streams) \in Nat
  <2>1. d \in DOMAIN s.data /\ ReadersRight(s.data, s.streams, w) /\ s.streams \in Seq(StreamRecs)
    BY DEF Shows, ReadRight
  <2> QED
    BY <1>1, <2>1 DEF ReadersRight
<1>3. dir # 0 => t.streams[dir].buffer = s.streams[dir].buffer
  <2>1. dir # 0 => dir \in 1..Len(s.streams)
    BY <1>2
  <2> QED
    BY <2>1 DEF BuffersKept
<1> QED
  BY <1>1, <1>3, StaysShown

LEMMA SameIsSame == ASSUME NEW x PROVE SameButCount(x, x)
  BY DEF SameButCount

LEMMA CountIsAside ==
    ASSUME NEW x, DataRec(x), NEW n
    PROVE  SameButCount(x, [x EXCEPT !.m_refs = n])
<1>1. PICK r, l, v, ds, ln, di :
          x = [m_refs |-> r, m_last |-> l, m_valid |-> v, m_dots |-> ds, m_last_name |-> ln, m_dir |-> di]
  BY DEF DataRec
<1>2. [x EXCEPT !.m_refs = n]
      = [m_refs |-> n, m_last |-> l, m_valid |-> v, m_dots |-> ds, m_last_name |-> ln, m_dir |-> di]
  BY <1>1
<1> QED
  BY <1>1, <1>2 DEF SameButCount

LEMMA CountShows ==
    ASSUME NEW s, NEW w, ReadRight(s, w), NEW d \in DOMAIN s.data, NEW n, NEW t, NEW x, Recounted(s, w, d, n, t, x),
           NEW i, NEW name, Shows(s, i, name)
    PROVE  Shows(t, i, name)
<1>1. PICK dt, a, st, o, th : s = [data |-> dt, at |-> a, streams |-> st, ok |-> o, thrown |-> th]
  BY DEF ReadRight
<1>2. x = [dt[d] EXCEPT !.m_refs = n] /\ t = [s EXCEPT !.data = Put(dt, d, x)] /\ DataRec(dt[d])
  BY <1>1 DEF Recounted, ReadRight, DataTypes
<1>3. PICK more : more = Put(dt, d, x)
  OBVIOUS
<1>4. t = [data |-> more, at |-> a, streams |-> st, ok |-> o, thrown |-> th]
  BY <1>1, <1>2, <1>3
<1>5. DOMAIN more = DOMAIN dt \cup {d} /\ more[d] = x /\ \A e \in DOMAIN dt : e # d => more[e] = dt[e]
  BY <1>3 DEF Put
<1>6. SameButCount(dt[d], x)
  BY <1>2, CountIsAside
<1>7. PICK e : e = a[i]
  OBVIOUS
<1>8. e \in DOMAIN dt
  BY <1>1, <1>7 DEF Shows
<1>9. e \in DOMAIN more /\ SameButCount(dt[e], more[e])
  BY <1>5, <1>6, <1>8, SameIsSame
<1>10. BuffersKept(st, st)
  BY DEF BuffersKept
<1>11. s.data = dt /\ s.at = a /\ s.streams = st /\ t.data = more /\ t.at = a /\ t.streams = st
  BY <1>1, <1>4
<1> QED
  BY <1>7, <1>9, <1>10, <1>11, QuietlyShown

LEMMA ClosedShows ==
    ASSUME NEW s, NEW w, ReadRight(s, w), NEW d \in DOMAIN s.data, NEW fails, NEW t, t = Dir!closed(s, d, fails),
           NEW i, NEW name, Shows(s, i, name), s.at[i] # d
    PROVE  Shows(t, i, name)
<1>1. PICK dt, a, st, o, th : s = [data |-> dt, at |-> a, streams |-> st, ok |-> o, thrown |-> th]
  BY DEF ReadRight
<1>2. /\ DataTypes(dt, a) /\ st \in Seq(StreamRecs) /\ ReadersRight(dt, st, w) /\ d \in DOMAIN dt
      /\ s.data = dt /\ s.at = a /\ s.streams = st
  BY <1>1 DEF ReadRight
<1>3. PICK e : e = a[i]
  OBVIOUS
<1>4. e \in DOMAIN dt /\ e # d
  BY <1>1, <1>3 DEF Shows
<1>5. CASE ~dt[d].m_valid
  <2>1. t = [s EXCEPT !.data[d].m_last_name = Dir!Nothing]
    BY <1>2, <1>5 DEF Dir!closed
  <2>2. PICK x : x = [dt[d] EXCEPT !.m_last_name = Dir!Nothing]
    OBVIOUS
  <2>3. t = [data |-> [dt EXCEPT ![d] = x], at |-> a, streams |-> st, ok |-> o, thrown |-> th]
    BY <1>1, <2>1, <2>2
  <2>4. t.at[i] = e /\ t.data[e] = dt[e] /\ e \in DOMAIN t.data /\ t.streams = st
    BY <1>3, <1>4, <2>3
  <2>5. BuffersKept(st, t.streams) /\ SameButCount(dt[e], t.data[e])
    BY <2>4, SameIsSame DEF BuffersKept
  <2> QED
    BY <1>2, <1>3, <2>4, <2>5, QuietlyShown
<1>6. CASE dt[d].m_valid /\ dt[d].m_dir = 0
  <2>1. t = s
    BY <1>2, <1>6 DEF Dir!closed, Dir!Null
  <2> QED
    BY <2>1
<1>7. CASE dt[d].m_valid /\ dt[d].m_dir # 0
  <2>1. PICK dir : dir = dt[d].m_dir
    OBVIOUS
  <2>2. t = [s EXCEPT !.data[d].m_dir = 0, !.streams[dir].open = FALSE, !.thrown = fails]
    BY <1>2, <1>7, <2>1 DEF Dir!closed, Dir!Null
  <2>3. PICK x, no : x = [dt[d] EXCEPT !.m_dir = 0] /\ no = FALSE
    OBVIOUS
  <2>4. PICK now : now = [st EXCEPT ![dir].open = no]
    OBVIOUS
  <2>5. t = [data |-> [dt EXCEPT ![d] = x], at |-> a, streams |-> now, ok |-> o, thrown |-> fails]
    BY <1>1, <2>2, <2>3, <2>4
  <2>6. t.at[i] = e /\ t.data[e] = dt[e] /\ e \in DOMAIN t.data /\ t.streams = now
    BY <1>3, <1>4, <2>5
  <2>7. BuffersKept(st, now)
    <3>1. dir \in 1..Len(st) /\ DOMAIN st = 1..Len(st) /\ st[dir] \in StreamRecs
      <4>1. dir \in 0..Len(st) /\ dir # 0 /\ Len(st) \in Nat
        BY <1>2, <1>7, <2>1 DEF ReadersRight
      <4>2. dir \in 1..Len(st)
        BY <4>1
      <4> QED
        BY <1>2, <4>2, ElementOfSeq, LenProperties
    <3>2. [st[dir] EXCEPT !.open = no].buffer = st[dir].buffer
      BY <3>1 DEF StreamRecs
    <3>3. \A k \in 1..Len(st) : now[k] = IF k = dir THEN [st[dir] EXCEPT !.open = no] ELSE st[k]
      BY <2>4, <3>1
    <3>4. ASSUME NEW k \in 1..Len(st) PROVE now[k].buffer = st[k].buffer
      BY <3>2, <3>3
    <3> QED
      BY <3>4 DEF BuffersKept
  <2>8. SameButCount(dt[e], t.data[e])
    BY <2>6, SameIsSame
  <2> QED
    BY <1>2, <1>3, <2>6, <2>7, <2>8, QuietlyShown
<1> QED
  BY <1>5, <1>6, <1>7

LEMMA FreeShows ==
    ASSUME NEW s, NEW w, ReadRight(s, w), NEW d, NEW t, t = Dir!Free(s, d), NEW i, NEW name, Shows(s, i, name), s.at[i] # d
    PROVE  Shows(t, i, name)
<1>1. PICK dt, a, st, o, th : s = [data |-> dt, at |-> a, streams |-> st, ok |-> o, thrown |-> th]
  BY DEF ReadRight
<1>2. PICK less : less = [y \in DOMAIN dt \ {d} |-> dt[y]]
  OBVIOUS
<1>3. t = [data |-> less, at |-> a, streams |-> st, ok |-> o, thrown |-> th]
  BY <1>1, <1>2 DEF Dir!Free
<1>4. PICK e : e = a[i]
  OBVIOUS
<1>5. e \in DOMAIN dt /\ e # d
  BY <1>1, <1>4 DEF Shows
<1>6. e \in DOMAIN less /\ SameButCount(dt[e], less[e]) /\ BuffersKept(st, st)
  BY <1>2, <1>5, SameIsSame DEF BuffersKept
<1>7. s.data = dt /\ s.at = a /\ s.streams = st /\ t.data = less /\ t.at = a /\ t.streams = st
  BY <1>1, <1>3
<1> QED
  BY <1>4, <1>6, <1>7, QuietlyShown

\* Another is pointed elsewhere.
LEMMA TakeShows ==
    ASSUME NEW s, s = [data |-> s.data, at |-> s.at, streams |-> s.streams, ok |-> s.ok, thrown |-> s.thrown],
           s.at \in [Iterators -> Nat], NEW i \in Iterators, NEW j \in Iterators, j # i, NEW p, NEW t, Takes(s, j, p, t),
           NEW name, Shows(s, i, name)
    PROVE  Shows(t, i, name)
<1>1. PICK dt, a, st, o, th : s = [data |-> dt, at |-> a, streams |-> st, ok |-> o, thrown |-> th]
  OBVIOUS
<1>2. PICK b : b = [a EXCEPT ![j] = p]
  OBVIOUS
<1>3. t = [data |-> dt, at |-> b, streams |-> st, ok |-> o, thrown |-> th]
  BY <1>1, <1>2 DEF Takes
<1>4. a \in [Iterators -> Nat]
  BY <1>1
<1>5. b[i] = a[i]
  BY <1>2, <1>4
<1>6. s.data = dt /\ s.at = a /\ s.streams = st /\ t.data = dt /\ t.at = b /\ t.streams = st
  BY <1>1, <1>3
<1> QED
  BY <1>5, <1>6 DEF Shows

Calms(s, no, t) == t = [s EXCEPT !.thrown = no]

LEMMA CalmShows ==
    ASSUME NEW s, NEW w, ReadRight(s, w), NEW no, NEW t, Calms(s, no, t), NEW i, NEW name, Shows(s, i, name)
    PROVE  Shows(t, i, name)
<1>1. PICK dt, a, st, o, th : s = [data |-> dt, at |-> a, streams |-> st, ok |-> o, thrown |-> th]
  BY DEF ReadRight
<1>2. t = [data |-> dt, at |-> a, streams |-> st, ok |-> o, thrown |-> no]
  BY <1>1 DEF Calms
<1>3. s.data = dt /\ s.at = a /\ s.streams = st /\ t.data = dt /\ t.at = a /\ t.streams = st
  BY <1>1, <1>2
<1> QED
  BY <1>3 DEF Shows

\* What two have is counted twice at least.
LEMMA SharedIsCounted ==
    ASSUME NEW dt, NEW a, DataTypes(dt, a), NEW dm, NEW p, RefsRight(dt, a, dm, p), NEW i \in Iterators, NEW j \in Iterators, i # j,
           NEW d, d \in DOMAIN dt, a[i] = d, a[j] = d, dt[d].m_refs > 0
    PROVE  dt[d].m_refs \in Nat /\ dt[d].m_refs >= 2
<1>1. dt[d].m_refs \in Nat
  BY DEF DataTypes, DataRec
<1>2. PICK A : A = At(a, d)
  OBVIOUS
<1>3. i \in A /\ j \in A /\ IsFiniteSet(A) /\ Cardinality(A) \in Nat
  BY <1>2, AtIsFinite DEF At
<1>4. Cardinality(A) >= 2
  <2>1. {i, j} \subseteq A
    BY <1>3
  <2>2. Cardinality({i, j}) = 2
    <3>1. IsFiniteSet({i}) /\ Cardinality({i}) = 1
      BY FS_Singleton
    <3>2. Cardinality({i} \cup {j}) = Cardinality({i}) + 1
      BY <3>1, FS_AddElement
    <3>3. {i} \cup {j} = {i, j}
      OBVIOUS
    <3> QED
      BY <3>1, <3>2, <3>3
  <2>3. Cardinality({i, j}) <= Cardinality(A)
    BY <1>3, <2>1, FS_Subset
  <2> QED
    BY <1>3, <2>2, <2>3
<1>5. Pending(p, d) \in {0, 1}
  BY PendingIsOne
<1>6. CASE d \in dm
  <2>1. dt[d].m_refs = 0 \/ dt[d].m_refs >= Cardinality(A) + Pending(p, d)
    BY <1>2, <1>6 DEF RefsRight
  <2> QED
    BY <1>1, <1>3, <1>4, <1>5, <2>1
<1>7. CASE d \notin dm
  <2>1. dt[d].m_refs = Cardinality(A) + Pending(p, d)
    BY <1>2, <1>7 DEF RefsRight
  <2> QED
    BY <1>1, <1>3, <1>4, <1>5, <2>1
<1> QED
  BY <1>6, <1>7

LEMMA ReleaseShows ==
    ASSUME NEW s, NEW dm, NEW w, NEW p, Right(s, dm, w, p), NEW j \in Iterators, NEW d, d = s.at[j], d # 0,
           s.data[d].m_refs > 0, NEW fails, NEW t, Lets(s, d, fails, t),
           NEW i \in Iterators, i # j, NEW name, Shows(s, i, name)
    PROVE  Shows(t, i, name)
<1>1. ReadRight(s, w) /\ DataTypes(s.data, s.at) /\ RefsRight(s.data, s.at, dm, p)
  BY DEF Right, ReadRight
<1>2. d \in DOMAIN s.data /\ DataRec(s.data[d])
  BY <1>1 DEF DataTypes
<1>3. s.data[d].m_refs \in Nat
  BY <1>2 DEF DataRec
<1>4. PICK n \in Nat : n = s.data[d].m_refs - 1
  BY <1>3
<1>5. PICK c : c = [s EXCEPT !.data[d].m_refs = n]
  OBVIOUS
<1>6. PICK x : Recounted(s, w, d, n, c, x)
  BY <1>1, <1>2, <1>5, CountChanged
<1>7. ReadRight(c, w) /\ Shows(c, i, name)
  <2>1. ReadRight(c, w)
    BY <1>6 DEF Recounted
  <2>2. Shows(c, i, name)
    BY <1>1, <1>2, <1>6, CountShows, ZenonT(30)
  <2> QED
    BY <2>1, <2>2
<1>8. PICK dt, a, st, o, th : s = [data |-> dt, at |-> a, streams |-> st, ok |-> o, thrown |-> th]
  BY <1>1 DEF ReadRight
<1>9. c.data = Put(dt, d, x) /\ c.at = a /\ x.m_refs = n /\ s.at = a /\ s.data = dt
  BY <1>6, <1>8 DEF Recounted
<1>10. c.data[d].m_refs = n /\ d \in DOMAIN c.data
  BY <1>9 DEF Put
<1>11. t = IF n # 0 THEN c ELSE LET k == Dir!closed(c, d, fails) IN IF k.thrown THEN k ELSE Dir!Free(k, d)
  <2>1. c = [s EXCEPT !.data[d].m_refs = @ - 1]
    BY <1>4, <1>5, <1>8
  <2> QED
    BY <1>10, <2>1 DEF Dir!release, Lets
<1>12. CASE n # 0
  BY <1>7, <1>11, <1>12
<1>13. CASE n = 0
  <2>1. s.at[i] # d
    <3> SUFFICES ASSUME s.at[i] = d PROVE FALSE
      OBVIOUS
    <3>1. s.data[d].m_refs >= 2
      BY <1>1, <1>2, SharedIsCounted
    <3> QED
      BY <1>3, <1>4, <1>13, <3>1
  <2>2. c.at[i] # d
    BY <1>9, <2>1
  <2>3. PICK k : k = Dir!closed(c, d, fails)
    OBVIOUS
  <2>4. Shows(k, i, name)
    BY <1>7, <1>10, <2>2, <2>3, ClosedShows
  <2>5. PICK y : Shut(c, w, d, fails, k, y)
    BY <1>7, <1>10, <2>3, ClosedRight
  <2>6. ReadRight(k, w) /\ k.at = c.at
    BY <2>5 DEF Shut, Changed
  <2>7. Shows(Dir!Free(k, d), i, name)
    BY <2>2, <2>4, <2>6, FreeShows
  <2>8. t = k \/ t = Dir!Free(k, d)
    BY <1>11, <1>13, <2>3
  <2> QED
    BY <2>4, <2>7, <2>8
<1> QED
  BY <1>12, <1>13

\* Who goes on takes the state along and leaves the name.
LEMMA StealShows ==
    ASSUME NEW s, NEW dm, NEW w, Right(s, dm, w, 0), NEW j \in Iterators, Reader(s, j), NEW t, Steals(s, j, t),
           NEW i \in Iterators, i # j, NEW name, Shows(s, i, name)
    PROVE  Shows(t, i, name) /\ t.at[i] # t.at[j]
<1>1. PICK dt, a, st, o, th : s = [data |-> dt, at |-> a, streams |-> st, ok |-> o, thrown |-> th]
  BY DEF Right, ReadRight
<1>2. /\ DataTypes(dt, a) /\ st \in Seq(StreamRecs) /\ ReadersRight(dt, st, w) /\ RefsRight(dt, a, dm, 0) /\ ReadRight(s, w)
      /\ s.data = dt /\ s.at = a /\ s.streams = st
  BY <1>1 DEF Right, ReadRight
<1>3. PICK d, e : d = a[j] /\ e = a[i]
  OBVIOUS
<1>4. /\ d # 0 /\ d \in DOMAIN dt /\ dt[d].m_refs > 0 /\ dt[d].m_valid /\ dt[d].m_dir # 0 /\ DataRec(dt[d])
      /\ e \in DOMAIN dt /\ Gives(dt[e], st, name)
  <2>1. d # 0 /\ dt[d].m_refs > 0 /\ dt[d].m_valid /\ dt[d].m_dir # 0
    BY <1>2, <1>3 DEF Reader
  <2>2. e \in DOMAIN dt /\ Gives(dt[e], st, name)
    BY <1>2, <1>3 DEF Shows
  <2> QED
    BY <1>2, <1>3, <2>1, <2>2 DEF DataTypes
<1>5. CASE dt[d].m_refs = 1
  <2>1. t = s
    BY <1>2, <1>3, <1>5 DEF Dir!steal, Steals
  <2>2. e # d
    <3> SUFFICES ASSUME e = d PROVE FALSE
      OBVIOUS
    <3>1. dt[d].m_refs >= 2
      BY <1>2, <1>3, <1>4, SharedIsCounted
    <3> QED
      BY <1>5, <3>1
  <2> QED
    BY <1>2, <1>3, <2>1, <2>2
<1>6. CASE dt[d].m_refs # 1
  <2>1. PICK n, nm : n = Dir!New(s) /\ nm = Dir!Deref(s, j)
    OBVIOUS
  <2>2. n \in Nat \ {0} /\ n \notin DOMAIN dt
    BY <1>2, <2>1, NewIsNew DEF DataTypes
  <2>3. PICK left, own : /\ left = [dt[d] EXCEPT !.m_last_name = nm, !.m_valid = FALSE, !.m_refs = @ - 1]
                         /\ own = [dt[d] EXCEPT !.m_refs = 1]
    OBVIOUS
  <2>4. PICK mid, more, c : mid = Put(dt, d, left) /\ more = Put(mid, n, own) /\ c = [a EXCEPT ![j] = n]
    OBVIOUS
  <2>5. t = [data |-> more, at |-> c, streams |-> st, ok |-> o, thrown |-> th]
    <3>1. t = [Dir!Set(Dir!Set(s, d, left), n, own) EXCEPT !.at[j] = n]
      BY <1>2, <1>3, <1>6, <2>1, <2>3 DEF Dir!steal, Steals
    <3>2. Dir!Set(s, d, left) = [data |-> mid, at |-> a, streams |-> st, ok |-> o, thrown |-> th]
      BY <1>1, <2>4, SetIs
    <3>3. PICK half : half = Dir!Set(s, d, left)
      OBVIOUS
    <3>4. Dir!Set(half, n, own) = [data |-> more, at |-> a, streams |-> st, ok |-> o, thrown |-> th]
      BY <2>4, <3>2, <3>3, SetIs
    <3> QED
      BY <2>4, <3>1, <3>3, <3>4
  <2>6. DOMAIN mid = DOMAIN dt /\ mid[d] = left /\ \A x \in DOMAIN dt : x # d => mid[x] = dt[x]
    BY <1>4, <2>4 DEF Put
  <2>7. DOMAIN more = DOMAIN mid \cup {n} /\ more[n] = own /\ \A x \in DOMAIN mid : x # n => more[x] = mid[x]
    BY <2>4 DEF Put
  <2>8. c[j] = n /\ c[i] = e
    BY <1>2, <1>3, <2>4 DEF DataTypes
  <2>9. e # n /\ e \in DOMAIN more /\ more[e] = mid[e]
    BY <1>4, <2>2, <2>6, <2>7
  <2>10. t.data = more /\ t.at = c /\ t.streams = st
    BY <2>5
  <2>11. CASE e # d
    <3>1. SameButCount(dt[e], more[e]) /\ BuffersKept(st, st)
      BY <1>4, <2>6, <2>9, <2>11, SameIsSame DEF BuffersKept
    <3>2. Shows(t, i, name)
      BY <1>2, <1>3, <2>8, <2>9, <2>10, <3>1, QuietlyShown
    <3> QED
      BY <2>8, <2>9, <2>10, <3>2
  <2>12. CASE e = d
    <3>1. PICK k : k = dt[d].m_dir
      OBVIOUS
    <3>2. nm = name
      <4>1. dt[d].m_valid /\ st[k].buffer = name
        BY <1>4, <2>12, <3>1 DEF Gives
      <4>2. nm = st[k].buffer
        BY <1>2, <1>3, <1>4, <2>1, <3>1 DEF Dir!Deref, Dir!sysderef
      <4> QED
        BY <4>1, <4>2
    <3>3. PICK r, l, v, ds, ln, di : dt[d] = [m_refs |-> r, m_last |-> l, m_valid |-> v, m_dots |-> ds, m_last_name |-> ln, m_dir |-> di]
      BY <1>4 DEF DataRec
    <3>4. ~l
      <4>1. ~dt[d].m_last
        BY <1>4, <2>12 DEF Gives
      <4>2. dt[d].m_last = l
        BY <3>3
      <4> QED
        BY <4>1, <4>2, Zenon
    <3>5. PICK no, q : no = FALSE /\ q = dt[d].m_refs - 1
      OBVIOUS
    <3>6. left = [m_refs |-> q, m_last |-> l, m_valid |-> no, m_dots |-> ds, m_last_name |-> nm, m_dir |-> di]
      <4>1. PICK z : z = dt[d]
        OBVIOUS
      <4>2. left = [z EXCEPT !.m_last_name = nm, !.m_valid = no, !.m_refs = q]
        BY <2>3, <3>5, <4>1, Zenon
      <4>3. z = [m_refs |-> r, m_last |-> l, m_valid |-> v, m_dots |-> ds, m_last_name |-> ln, m_dir |-> di]
        BY <3>3, <4>1
      <4> QED
        BY <4>2, <4>3
    <3>7. Gives(left, st, name)
      <4>1. left.m_last = l /\ left.m_valid = no /\ left.m_last_name = name
        BY <3>2, <3>6
      <4> QED
        BY <3>4, <3>5, <4>1 DEF Gives
    <3>8. Gives(more[e], st, name)
      BY <2>6, <2>9, <2>12, <3>7
    <3>9. e # 0
      BY <1>4, <2>12
    <3> QED
      BY <2>8, <2>9, <2>10, <3>8, <3>9 DEF Shows
  <2> QED
    BY <2>11, <2>12
<1> QED
  BY <1>5, <1>6

LEMMA MarkShows ==
    ASSUME NEW t, NEW w, ReadRight(t, w), NEW d \in DOMAIN t.data, NEW dir, dir = t.data[d].m_dir, dir # 0, t.data[d].m_valid,
           NEW r, NEW c, NEW l, NEW u, Marks(t, d, dir, r, c, l, u), NEW i, t.at[i] # d, NEW name, Shows(t, i, name)
    PROVE  Shows(u, i, name)
<1>1. PICK dt, a, st, o, th : t = [data |-> dt, at |-> a, streams |-> st, ok |-> o, thrown |-> th]
  BY DEF ReadRight
<1>2. /\ DataTypes(dt, a) /\ st \in Seq(StreamRecs) /\ ReadersRight(dt, st, w)
      /\ t.data = dt /\ t.at = a /\ t.streams = st /\ d \in DOMAIN dt
  BY <1>1 DEF ReadRight
<1>3. PICK e : e = a[i]
  OBVIOUS
<1>4. e \in DOMAIN dt /\ e # d
  BY <1>1, <1>3 DEF Shows
<1>5. PICK lf, bu, fa, q : lf = r.left /\ bu = r.buffer /\ fa = r.fails /\ q = (o /\ c)
  OBVIOUS
<1>6. PICK m : m = Dir!Asserts(t, c)
  OBVIOUS
<1>7. m = [data |-> dt, at |-> a, streams |-> st, ok |-> q, thrown |-> th]
  <2>1. t.ok = o
    BY <1>1
  <2>2. (t.ok /\ c) = q
    BY <1>5, <2>1, Zenon
  <2>3. Dir!Asserts(t, c) = [t EXCEPT !.ok = q]
    BY <2>2, Zenon DEF Dir!Asserts
  <2> QED
    BY <1>1, <1>6, <2>3
<1>8. u = [m EXCEPT !.streams[dir].left = lf, !.streams[dir].buffer = bu, !.data[d].m_last = l, !.thrown = fa]
  BY <1>5, <1>6, Zenon DEF Marks
<1>9. u = [data |-> [dt EXCEPT ![d].m_last = l], at |-> a,
           streams |-> [st EXCEPT ![dir].left = lf, ![dir].buffer = bu], ok |-> q, thrown |-> fa]
  BY <1>7, <1>8, MarkIs, ZenonT(30)
<1>10. PICK x, y : x = [dt[d] EXCEPT !.m_last = l] /\ y = [st[dir] EXCEPT !.left = lf, !.buffer = bu]
  OBVIOUS
<1>11. dir \in 1..Len(st) /\ DOMAIN st = 1..Len(st)
  <2>1. dir \in 0..Len(st) /\ Len(st) \in Nat
    BY <1>2 DEF ReadersRight
  <2> QED
    BY <1>2, <2>1, LenProperties
<1>12. [st EXCEPT ![dir].left = lf, ![dir].buffer = bu] = [st EXCEPT ![dir] = y]
  BY <1>2, <1>10, <1>11
<1>13. [dt EXCEPT ![d].m_last = l] = [dt EXCEPT ![d] = x]
  BY <1>10
<1>14. u.data = [dt EXCEPT ![d] = x] /\ u.at = a /\ u.streams = [st EXCEPT ![dir] = y]
  BY <1>9, <1>12, <1>13
<1>15. u.at[i] = e /\ e \in DOMAIN u.data /\ u.data[e] = dt[e]
  BY <1>3, <1>4, <1>14
<1>16. PICK k : k = dt[e].m_dir
  OBVIOUS
<1>17. dt[e].m_valid => k # dir
  <2> SUFFICES ASSUME dt[e].m_valid, k = dir PROVE FALSE
    OBVIOUS
  <2>1. Reads(dt, e, dir) /\ Reads(dt, d, dir)
    BY <1>2, <1>16 DEF Reads
  <2> QED
    BY <1>2, <1>4, <1>11, <2>1 DEF ReadersRight
<1>18. dt[e].m_valid => u.streams[k].buffer = st[k].buffer
  <2>1. k \in 0..Len(st) /\ Len(st) \in Nat
    BY <1>2, <1>4, <1>16 DEF ReadersRight
  <2>2. dt[e].m_valid => k # 0
    BY <1>2, <1>3, <1>16 DEF Shows, Gives
  <2>3. dt[e].m_valid => k \in DOMAIN st /\ k # dir
    BY <1>11, <1>17, <2>1, <2>2
  <2> QED
    BY <1>14, <2>3
<1>19. SameButCount(dt[e], u.data[e])
  BY <1>15, SameIsSame
<1> QED
  BY <1>2, <1>3, <1>15, <1>16, <1>18, <1>19, StaysShown

LEMMA NextShows ==
    ASSUME NEW s, NEW dm, NEW w, Right(s, dm, w, 0), NEW j \in Iterators, Reader(s, j), NEW r, NEW u, Nexts(s, j, r, u),
           NEW i \in Iterators, i # j, NEW name, Shows(s, i, name)
    PROVE  Shows(u, i, name)
<1>1. PICK t : Steals(s, j, t)
  BY DEF Steals
<1>2. Stolen(s, dm, w, j, t) /\ Shows(t, i, name) /\ t.at[i] # t.at[j]
  BY <1>1, StealRight, StealShows
<1>3. PICK d, dir : d = t.at[j] /\ dir = t.data[d].m_dir
  OBVIOUS
<1>4. ReadRight(t, w) /\ d \in DOMAIN t.data /\ t.data[d].m_valid /\ dir # 0
  BY <1>2, <1>3 DEF Stolen, Reader, Right
<1>5. PICK c, l : /\ c = (s.data[s.at[j]].m_valid /\ s.data[s.at[j]].m_last_name = Dir!Nothing /\ dir # Dir!Null)
                  /\ l = (~r.fails /\ r.buffer = Dir!Nothing)
  OBVIOUS
<1>6. Marks(t, d, dir, r, c, l, u)
  <2>1. t = Dir!steal(s, j)
    BY <1>1 DEF Steals
  <2> QED
    BY <1>3, <1>5, <2>1, Zenon DEF Dir!next, Nexts, Marks
<1>7. t.at[i] # d /\ Shows(t, i, name) /\ dir = t.data[d].m_dir
  BY <1>2, <1>3
<1> QED
  BY <1>4, <1>6, <1>7, MarkShows, ZenonT(30)

-----------------------------------------------------------------------------
\* The states, the iterators and the streams after a step.
DirRight(dt, a, st, dm, w) ==
    DataTypes(dt, a) /\ st \in Seq(StreamRecs) /\ ReadersRight(dt, st, w) /\ RefsRight(dt, a, dm, 0)
DirInv == DirRight(data, at, streams, doomed, wasted)

\* The iterators in those show what they showed.
Showing(s, t, those) == \A k \in those : \A name : Shows(s, k, name) => Shows(t, k, name)
Shown(k, name) == Shows(Dir!Memory, k, name)
Undisturbed(those) == \A k \in those : \A name : Shown(k, name) => Shown(k, name)'

LEMMA Becoming ==
    ASSUME NEW s, Right(s, doomed', wasted', 0), Dir!Becomes(s), NEW m, m = Dir!Memory, NEW those, Showing(m, s, those)
    PROVE  DirInv' /\ Undisturbed(those)
<1>1. DirRight(s.data, s.at, s.streams, doomed', wasted')
  BY DEF Right, ReadRight, DirRight
<1>2. data' = s.data /\ at' = s.at /\ streams' = s.streams
  BY DEF Dir!Becomes
<1>3. DirRight(data', at', streams', doomed', wasted')
  BY <1>1, <1>2
<1>4. DirInv'
  BY <1>3 DEF DirInv, DirRight, DataTypes, ReadersRight, RefsRight, At, Reads
<1>5. ASSUME NEW k \in those, NEW name, Shown(k, name) PROVE Shown(k, name)'
  <2>1. Shows(s, k, name)
    BY <1>5 DEF Shown, Showing
  <2> QED
    BY <1>2, <2>1 DEF Shown, Shows, Gives, Dir!Memory
<1> QED
  BY <1>4, <1>5 DEF Undisturbed

LEMMA MemoryHeld ==
    ASSUME DirInv, NEW m, m = Dir!Memory
    PROVE  /\ Right(m, doomed, wasted, 0)
           /\ m.data = data /\ m.at = at /\ m.streams = streams /\ m.ok = TRUE /\ m.thrown = FALSE
<1>1. PICK yes, no : yes = TRUE /\ no = FALSE
  OBVIOUS
<1>2. m = [data |-> data, at |-> at, streams |-> streams, ok |-> yes, thrown |-> no]
  BY <1>1, Zenon DEF Dir!Memory
<1>3. ReadRight(m, wasted) /\ m.data = data /\ m.at = at /\ m.streams = streams /\ m.ok = yes /\ m.thrown = no
  BY <1>2, MemoryRight DEF DirInv, DirRight
<1>4. Right(m, doomed, wasted, 0)
  BY <1>3 DEF Right, DirInv, DirRight
<1> QED
  BY <1>1, <1>3, <1>4

LEMMA UsableHas ==
    ASSUME DirInv, NEW i \in Iterators, Dir!Usable(i)
    PROVE  at[i] # 0 /\ at[i] \in DOMAIN data /\ data[at[i]].m_refs > 0
  BY DEF DirInv, DirRight, DataTypes, Dir!Usable, Dir!Null

LEMMA ReferShows ==
    ASSUME NEW s, NEW w, ReadRight(s, w), NEW d \in DOMAIN s.data, NEW t, t = Dir!Referred(s, d),
           NEW i, NEW name, Shows(s, i, name)
    PROVE  Shows(t, i, name)
<1>1. PICK n \in Nat : n = s.data[d].m_refs + 1
  <2>1. s.data[d].m_refs \in Nat
    BY DEF ReadRight, DataTypes, DataRec
  <2> QED
    BY <2>1
<1>2. t = [s EXCEPT !.data[d].m_refs = n]
  BY <1>1 DEF Dir!Referred
<1>3. PICK x : Recounted(s, w, d, n, t, x)
  BY <1>2, CountChanged
<1> QED
  BY <1>3, CountShows, ZenonT(30)

LEMMA TakesShows ==
    ASSUME NEW s, NEW w, ReadRight(s, w), NEW j \in Iterators, NEW i \in Iterators \ {j}, NEW p, NEW t, Takes(s, j, p, t),
           NEW name, Shows(s, i, name)
    PROVE  Shows(t, i, name)
BY TakeShows DEF ReadRight, DataTypes

\* A new state, and perhaps a new stream.
LEMMA PutShows ==
    ASSUME NEW s, NEW w, ReadRight(s, w), NEW n, n \notin DOMAIN s.data, NEW x, NEW t, t.data = Put(s.data, n, x),
           t.at = s.at, BuffersKept(s.streams, t.streams), NEW i, NEW name, Shows(s, i, name)
    PROVE  Shows(t, i, name)
<1>1. PICK e : e = s.at[i]
  OBVIOUS
<1>2. e \in DOMAIN s.data /\ e # n
  BY <1>1 DEF Shows
<1>3. e \in DOMAIN t.data /\ t.data[e] = s.data[e]
  BY <1>2 DEF Put
<1>4. SameButCount(s.data[e], t.data[e])
  BY <1>3, SameIsSame
<1>5. t.at[i] = e
  BY <1>1
<1> QED
  BY <1>1, <1>3, <1>4, <1>5, QuietlyShown

LEMMA CopyKeeps ==
    ASSUME DirInv, NEW i \in Iterators, NEW j \in Iterators, Dir!Copy(i, j)
    PROVE  DirInv' /\ Undisturbed(Iterators \ {j})
<1>1. PICK m : m = Dir!Memory
  OBVIOUS
<1>2. /\ Right(m, doomed, wasted, 0)
      /\ m.data = data /\ m.at = at /\ m.streams = streams /\ m.ok = TRUE /\ m.thrown = FALSE
  BY <1>1, MemoryHeld
<1>3. PICK d : d = at[i]
  OBVIOUS
<1>4. d \in DOMAIN m.data /\ m.data[d].m_refs > 0 /\ m.at[j] = 0 /\ doomed' = doomed /\ wasted' = wasted
  BY <1>2, <1>3, UsableHas DEF Dir!Copy, Dir!Null
<1>5. PICK t : t = Dir!Referred(m, d)
  OBVIOUS
<1>6. Right(t, doomed, wasted, d) /\ t.at = m.at /\ DOMAIN t.data = DOMAIN m.data
  BY <1>2, <1>4, <1>5, ReferredRight
<1>7. PICK s : s = [t EXCEPT !.at[j] = d]
  OBVIOUS
<1>8. Right(s, doomed, wasted, 0)
  BY <1>4, <1>6, <1>7, TakenRight DEF Takes, Took
<1>9. Dir!Becomes(s)
  BY <1>1, <1>3, <1>5, <1>7 DEF Dir!Copy
<1>10. ASSUME NEW k \in Iterators \ {j}, NEW name, Shows(m, k, name) PROVE Shows(s, k, name)
  <2>1. ReadRight(m, wasted) /\ ReadRight(t, wasted)
    BY <1>2, <1>6 DEF Right
  <2>2. Shows(t, k, name)
    BY <1>4, <1>5, <1>10, <2>1, ReferShows
  <2> QED
    BY <1>7, <1>10, <2>1, <2>2, TakesShows DEF Takes
<1>11. Showing(m, s, Iterators \ {j})
  BY <1>10 DEF Showing
<1> QED
  BY <1>1, <1>4, <1>8, <1>9, <1>11, Becoming

LEMMA CloseKeeps ==
    ASSUME DirInv, NEW i \in Iterators, NEW fails \in BOOLEAN, Dir!Close(i, fails)
    PROVE  DirInv' /\ Undisturbed({k \in Iterators : at[k] # at[i]})
<1>1. PICK m : m = Dir!Memory
  OBVIOUS
<1>2. /\ Right(m, doomed, wasted, 0)
      /\ m.data = data /\ m.at = at /\ m.streams = streams /\ m.ok = TRUE /\ m.thrown = FALSE
  BY <1>1, MemoryHeld
<1>3. PICK d : d = at[i]
  OBVIOUS
<1>4. d \in DOMAIN data /\ doomed' = doomed /\ wasted' = wasted
  BY <1>3, UsableHas DEF Dir!Close
<1>5. PICK t : t = Dir!closed(m, d, fails)
  OBVIOUS
<1>6. PICK x : Shut(m, wasted, d, fails, t, x)
  BY <1>2, <1>4, <1>5, ClosedRight DEF Right
<1>7. /\ ReadRight(t, wasted) /\ t.data = Put(data, d, x) /\ t.at = at /\ x.m_refs = data[d].m_refs
  BY <1>2, <1>6 DEF Shut, Changed
<1>8. RefsRight(t.data, t.at, doomed, 0)
  <2>1. RefsRight(data, at, doomed, 0)
    BY DEF DirInv, DirRight
  <2>2. DOMAIN t.data = DOMAIN data /\ \A e \in DOMAIN data : t.data[e].m_refs = data[e].m_refs
    BY <1>4, <1>7 DEF Put
  <2> QED
    BY <1>7, <2>1, <2>2 DEF RefsRight
<1>9. Right(t, doomed', wasted', 0)
  BY <1>4, <1>7, <1>8 DEF Right
<1>10. Dir!Becomes(t)
  BY <1>1, <1>3, <1>5 DEF Dir!Close
<1>11. PICK those : those = {k \in Iterators : at[k] # at[i]}
  OBVIOUS
<1>12. ASSUME NEW k \in those, NEW name, Shows(m, k, name) PROVE Shows(t, k, name)
  <2>1. m.at[k] # d /\ ReadRight(m, wasted) /\ d \in DOMAIN m.data
    BY <1>2, <1>3, <1>4, <1>11 DEF Right
  <2> QED
    BY <1>5, <1>12, <2>1, ClosedShows
<1>13. Showing(m, t, those)
  BY <1>12 DEF Showing
<1> QED
  BY <1>1, <1>9, <1>10, <1>11, <1>13, Becoming

LEMMA DestroyKeeps ==
    ASSUME DirInv, NEW i \in Iterators, Dir!Destroy(i)
    PROVE  DirInv' /\ Undisturbed(Iterators \ {i}) /\ at'[i] = 0
<1>1. PICK m : m = Dir!Memory
  OBVIOUS
<1>2. /\ Right(m, doomed, wasted, 0)
      /\ m.data = data /\ m.at = at /\ m.streams = streams /\ m.ok = TRUE /\ m.thrown = FALSE
  BY <1>1, MemoryHeld
<1>3. PICK d, no : d = at[i] /\ no = FALSE
  OBVIOUS
<1>4. d = m.at[i] /\ d # 0 /\ m.data[d].m_refs > 0 /\ doomed' = doomed /\ wasted' = wasted /\ no \in BOOLEAN
  BY <1>2, <1>3, UsableHas DEF Dir!Destroy
<1>5. PICK t : Lets(m, d, no, t)
  BY DEF Lets
<1>6. Released(m, doomed, wasted, 0, i, no, t)
  BY <1>2, <1>4, <1>5, ReleaseRight
<1>7. PICK u : u = Nowhere(t, i)
  OBVIOUS
<1>8. /\ Right(u, doomed', wasted', 0) /\ t.thrown = no
      /\ t = [data |-> t.data, at |-> t.at, streams |-> t.streams, ok |-> t.ok, thrown |-> t.thrown]
  BY <1>3, <1>4, <1>6, <1>7 DEF Released
<1>9. Dir!Becomes(u)
  <2>1. Dir!Becomes([t EXCEPT !.thrown = no, !.at[i] = 0])
    BY <1>1, <1>3, <1>5, Zenon DEF Dir!Destroy, Lets, Dir!Null
  <2>2. [t EXCEPT !.thrown = no, !.at[i] = 0] = [t EXCEPT !.at[i] = 0]
    BY <1>8
  <2> QED
    BY <1>7, <2>1, <2>2 DEF Nowhere
<1>10. ASSUME NEW k \in Iterators \ {i}, NEW name, Shows(m, k, name) PROVE Shows(u, k, name)
  <2>1. Shows(t, k, name)
    BY <1>2, <1>4, <1>5, <1>10, ReleaseShows
  <2>2. t.at \in [Iterators -> Nat]
    BY <1>2, <1>6 DEF Released, Right, ReadRight, DataTypes
  <2> QED
    BY <1>7, <1>8, <1>10, <2>1, <2>2, TakeShows DEF Nowhere, Takes
<1>11. Showing(m, u, Iterators \ {i})
  BY <1>10 DEF Showing
<1>12. at'[i] = 0
  <2>1. at \in [Iterators -> Nat] /\ t.at = at
    BY <1>2, <1>6 DEF Released, Right, ReadRight, DataTypes
  <2>2. u = [data |-> t.data, at |-> [at EXCEPT ![i] = 0], streams |-> t.streams, ok |-> t.ok, thrown |-> t.thrown]
    BY <1>7, <1>8, <2>1 DEF Nowhere
  <2>3. u.at = [at EXCEPT ![i] = 0]
    BY <2>2
  <2>4. at' = u.at
    BY <1>9 DEF Dir!Becomes
  <2> QED
    BY <2>1, <2>3, <2>4
<1> QED
  BY <1>1, <1>8, <1>9, <1>11, <1>12, Becoming

LEMMA AssignKeeps ==
    ASSUME DirInv, NEW i \in Iterators, NEW j \in Iterators, NEW fails \in BOOLEAN, Dir!Assign(i, j, fails)
    PROVE  DirInv' /\ Undisturbed(Iterators \ {j})
<1>1. PICK m : m = Dir!Memory
  OBVIOUS
<1>2. /\ Right(m, doomed, wasted, 0)
      /\ m.data = data /\ m.at = at /\ m.streams = streams /\ m.ok = TRUE /\ m.thrown = FALSE
  BY <1>1, MemoryHeld
<1>3. PICK d, e : d = at[i] /\ e = at[j]
  OBVIOUS
<1>4. d \in DOMAIN m.data /\ m.data[d].m_refs > 0 /\ e \in DOMAIN m.data /\ m.data[e].m_refs > 0 /\ e = m.at[j] /\ e # 0
  BY <1>2, <1>3, UsableHas DEF Dir!Assign
<1>5. PICK r : r = Dir!Referred(m, d)
  OBVIOUS
<1>6. /\ Right(r, doomed, wasted, d) /\ r.at = m.at /\ r.ok = m.ok /\ r.thrown = FALSE
      /\ DOMAIN r.data = DOMAIN m.data /\ r.data[d].m_refs = m.data[d].m_refs + 1
      /\ \A x \in DOMAIN m.data : x # d => r.data[x] = m.data[x]
  BY <1>2, <1>4, <1>5, ReferredRight
<1>7. r.data[e].m_refs > 0
  <2>1. CASE e = d
    <3>1. m.data[d].m_refs \in Nat
      BY <1>2, <1>4 DEF Right, ReadRight, DataTypes, DataRec
    <3> QED
      BY <1>4, <1>6, <2>1, <3>1
  <2>2. CASE e # d
    BY <1>4, <1>6, <2>2
  <2> QED
    BY <2>1, <2>2
<1>8. PICK t : Lets(r, e, fails, t)
  BY DEF Lets
<1>9. Released(r, doomed, wasted, d, j, fails, t)
  BY <1>4, <1>6, <1>7, <1>8, ReleaseRight
<1>10. PICK s : s = Dir!Assigned(m, j, d, fails)
  OBVIOUS
<1>11. s = IF t.thrown THEN t ELSE [t EXCEPT !.at[j] = d]
  BY <1>2, <1>3, <1>5, <1>8, <1>10 DEF Dir!Assigned, Lets
<1>12. /\ Dir!Becomes(s) /\ s.thrown = fails /\ wasted' = wasted
       /\ doomed' = IF s.thrown THEN doomed \cup {d, e} ELSE doomed
  BY <1>1, <1>3, <1>10, Zenon DEF Dir!Assign
<1>13. ASSUME NEW k \in Iterators \ {j}, NEW name, Shows(m, k, name) PROVE Shows(t, k, name)
  <2>1. ReadRight(m, wasted)
    BY <1>2 DEF Right
  <2>2. Shows(r, k, name)
    BY <1>4, <1>5, <1>13, <2>1, ReferShows
  <2>3. e = r.at[j]
    BY <1>4, <1>6
  <2> QED
    BY <1>4, <1>6, <1>7, <1>8, <1>13, <2>2, <2>3, ReleaseShows
<1>14. CASE t.thrown = TRUE
  <2>1. s = t /\ doomed' = doomed \cup {e, d} /\ r.at[j] = e
    BY <1>4, <1>6, <1>11, <1>12, <1>14
  <2>2. Right(t, doomed \cup {e, d}, wasted, 0)
    BY <1>9, <1>14, <2>1 DEF Released
  <2>3. Showing(m, s, Iterators \ {j})
    BY <1>13, <2>1 DEF Showing
  <2> QED
    BY <1>1, <1>12, <2>1, <2>2, <2>3, Becoming
<1>15. CASE t.thrown = FALSE
  <2>1. PICK u : u = Nowhere(t, j)
    OBVIOUS
  <2>2. /\ Right(u, doomed, wasted, d) /\ d \in DOMAIN t.data
        /\ t = [data |-> t.data, at |-> t.at, streams |-> t.streams, ok |-> t.ok, thrown |-> t.thrown]
        /\ t.at = at
    BY <1>2, <1>4, <1>6, <1>9, <1>15, <2>1 DEF Released
  <2>3. PICK dt, a, st, o, th : t = [data |-> dt, at |-> a, streams |-> st, ok |-> o, thrown |-> th]
    BY <2>2
  <2>4. a \in [Iterators -> Nat] /\ t.data = dt
    BY <2>2, <2>3 DEF DirInv, DirRight, DataTypes
  <2>5. u = [data |-> dt, at |-> [a EXCEPT ![j] = 0], streams |-> st, ok |-> o, thrown |-> th]
    BY <2>1, <2>3 DEF Nowhere
  <2>6. PICK b : b = [a EXCEPT ![j] = 0]
    OBVIOUS
  <2>7. u.at = b /\ b[j] = 0 /\ [b EXCEPT ![j] = d] = [a EXCEPT ![j] = d] /\ u.data = dt
    BY <2>4, <2>5, <2>6
  <2>8. [u EXCEPT !.at[j] = d] = [t EXCEPT !.at[j] = d]
    BY <2>3, <2>5, <2>6, <2>7
  <2>9. s = [u EXCEPT !.at[j] = d]
    BY <1>11, <1>15, <2>8
  <2>10. Right(s, doomed, wasted, 0)
    BY <2>2, <2>4, <2>7, <2>9, TakenRight DEF Takes, Took
  <2>11. doomed' = doomed
    <3>1. s.thrown = FALSE
      BY <1>11, <1>15, <2>3
    <3> QED
      BY <1>12, <3>1
  <2>12. ASSUME NEW k \in Iterators \ {j}, NEW name, Shows(m, k, name) PROVE Shows(s, k, name)
    <3>1. Shows(t, k, name)
      BY <1>13, <2>12
    <3>2. s = [t EXCEPT !.at[j] = d] /\ t.at \in [Iterators -> Nat]
      BY <1>11, <1>15, <2>3, <2>4
    <3> QED
      BY <2>2, <2>12, <3>1, <3>2, TakeShows DEF Takes
  <2>13. Showing(m, s, Iterators \ {j})
    BY <2>12 DEF Showing
  <2> QED
    BY <1>1, <1>12, <2>10, <2>11, <2>13, Becoming
<1> QED
  BY <1>9, <1>14, <1>15 DEF Released

LEMMA ReadingIs ==
    ASSUME NEW str \in StreamRecs, NEW dots, NEW r \in Dir!sysnext(str, dots)
    PROVE  Reading(r) /\ r.fails \in BOOLEAN
<1>1. str.left \subseteq Names
  BY DEF StreamRecs
<1>2. PICK skipped : skipped = IF dots THEN {} ELSE Dots
  OBVIOUS
<1>3. \/ \E e \in str.left \ skipped, skip \in SUBSET (str.left \cap skipped) :
             r = [buffer |-> e, left |-> str.left \ (skip \cup {e}), fails |-> FALSE]
      \/ r = [buffer |-> Dir!Nothing, left |-> {}, fails |-> FALSE]
      \/ r = [buffer |-> Dir!Nothing, left |-> str.left, fails |-> TRUE]
  BY <1>2 DEF Dir!sysnext
<1>4. PICK yes \in BOOLEAN, no \in BOOLEAN : yes = TRUE /\ no = FALSE
  OBVIOUS
<1>5. \/ \E e \in str.left \ skipped, skip \in SUBSET (str.left \cap skipped) :
             r = [buffer |-> e, left |-> str.left \ (skip \cup {e}), fails |-> no]
      \/ r = [buffer |-> Dir!Nothing, left |-> {}, fails |-> no]
      \/ r = [buffer |-> Dir!Nothing, left |-> str.left, fails |-> yes]
  BY <1>3, <1>4, Zenon
<1> QED
  BY <1>1, <1>5 DEF Reading

LEMMA MayAdvanceHas ==
    ASSUME DirInv, NEW i \in Iterators, Dir!MayAdvance(i), NEW m, m = Dir!Memory, NEW r \in Dir!Readings(i)
    PROVE  Reader(m, i) /\ Reading(r) /\ r.fails \in BOOLEAN
<1>1. /\ Right(m, doomed, wasted, 0)
      /\ m.data = data /\ m.at = at /\ m.streams = streams /\ m.ok = TRUE /\ m.thrown = FALSE
  BY MemoryHeld
<1>2. PICK d : d = at[i]
  OBVIOUS
<1>3. d # 0 /\ d \in DOMAIN data /\ data[d].m_refs > 0
  BY <1>2, UsableHas DEF Dir!MayAdvance
<1>4. data[d].m_valid /\ data[d].m_dir # 0
  BY <1>1, <1>2 DEF Dir!MayAdvance, Dir!CanRead, Dir!Null
<1>5. Reader(m, i)
  BY <1>1, <1>2, <1>3, <1>4 DEF Reader
<1>6. PICK dir : dir = data[d].m_dir
  OBVIOUS
<1>7. dir \in 1..Len(streams) /\ streams \in Seq(StreamRecs)
  <2>1. dir \in 0..Len(streams) /\ dir # 0 /\ streams \in Seq(StreamRecs)
    BY <1>3, <1>4, <1>6 DEF DirInv, DirRight, ReadersRight
  <2>2. Len(streams) \in Nat
    BY <2>1
  <2> QED
    BY <2>1, <2>2
<1>8. streams[dir] \in StreamRecs
  BY <1>7
<1>9. r \in Dir!sysnext(streams[dir], data[d].m_dots)
  BY <1>2, <1>6 DEF Dir!Readings
<1>10. Reading(r) /\ r.fails \in BOOLEAN
  BY <1>8, <1>9, ReadingIs
<1> QED
  BY <1>5, <1>10

LEMMA AdvanceKeeps ==
    ASSUME DirInv, NEW i \in Iterators, Dir!Advance(i)
    PROVE  DirInv' /\ Undisturbed(Iterators \ {i})
<1>1. PICK m : m = Dir!Memory
  OBVIOUS
<1>2. /\ Right(m, doomed, wasted, 0)
      /\ m.data = data /\ m.at = at /\ m.streams = streams /\ m.ok = TRUE /\ m.thrown = FALSE
  BY <1>1, MemoryHeld
<1>3. PICK r \in Dir!Readings(i) : Dir!Becomes(Dir!next(m, i, r))
  BY <1>1 DEF Dir!Advance
<1>4. Reader(m, i) /\ Reading(r) /\ doomed' = doomed /\ wasted' = wasted
  BY <1>1, <1>3, MayAdvanceHas DEF Dir!Advance
<1>5. PICK u : Nexts(m, i, r, u)
  BY DEF Nexts
<1>6. Advanced(m, doomed, wasted, i, r, u)
  BY <1>2, <1>4, <1>5, NextRight
<1>7. Right(u, doomed', wasted', 0) /\ Dir!Becomes(u)
  BY <1>3, <1>4, <1>5, <1>6 DEF Advanced, Nexts
<1>8. ASSUME NEW k \in Iterators \ {i}, NEW name, Shows(m, k, name) PROVE Shows(u, k, name)
  BY <1>2, <1>4, <1>5, <1>8, NextShows
<1>9. Showing(m, u, Iterators \ {i})
  BY <1>8 DEF Showing
<1> QED
  BY <1>1, <1>7, <1>9, Becoming

LEMMA CalmRight ==
    ASSUME NEW s, NEW dm, NEW w, NEW p, Right(s, dm, w, p), NEW no, NEW t, Calms(s, no, t)
    PROVE  Right(t, dm, w, p) /\ t.data = s.data /\ t.at = s.at /\ t.thrown = no
<1>1. PICK dt, a, st, o, th : s = [data |-> dt, at |-> a, streams |-> st, ok |-> o, thrown |-> th]
  BY DEF Right, ReadRight
<1>2. DataTypes(dt, a) /\ st \in Seq(StreamRecs) /\ ReadersRight(dt, st, w) /\ RefsRight(dt, a, dm, p)
  BY <1>1 DEF Right, ReadRight
<1>3. t = [data |-> dt, at |-> a, streams |-> st, ok |-> o, thrown |-> no]
  BY <1>1 DEF Calms
<1>4. ReadRight(t, w) /\ t.data = dt /\ t.at = a /\ t.thrown = no
  BY <1>2, <1>3, MemoryRight
<1> QED
  BY <1>1, <1>2, <1>4 DEF Right

LEMMA AdvanceAfterKeeps ==
    ASSUME DirInv, NEW i \in Iterators, NEW j \in Iterators, Dir!AdvanceAfter(i, j)
    PROVE  DirInv' /\ Undisturbed(Iterators \ {i, j})
<1>1. PICK m, no, old : m = Dir!Memory /\ no = FALSE /\ old = at[i]
  OBVIOUS
<1>2. /\ Right(m, doomed, wasted, 0)
      /\ m.data = data /\ m.at = at /\ m.streams = streams /\ m.ok = TRUE /\ m.thrown = FALSE
  BY <1>1, MemoryHeld
<1>3. PICK c, t : c = Dir!Referred(m, old) /\ t = [c EXCEPT !.at[j] = old]
  OBVIOUS
<1>4. PICK r \in Dir!Readings(i) :
          LET s == Dir!next(t, i, r)
          IN  Dir!Becomes(IF s.thrown THEN [Dir!release([s EXCEPT !.thrown = no], old, no) EXCEPT !.at[j] = 0] ELSE s)
  BY <1>1, <1>3, Zenon DEF Dir!AdvanceAfter, Dir!Null
<1>5. /\ Reader(m, i) /\ Reading(r) /\ r.fails \in BOOLEAN /\ doomed' = doomed /\ wasted' = wasted
      /\ old \in DOMAIN m.data /\ m.data[old].m_refs > 0 /\ m.at[j] = 0 /\ m.at[i] = old /\ old # 0 /\ j # i
  <2>1. Reader(m, i) /\ Reading(r) /\ r.fails \in BOOLEAN
    BY <1>1, <1>4, MayAdvanceHas DEF Dir!AdvanceAfter
  <2>2. old # 0 /\ old \in DOMAIN data /\ data[old].m_refs > 0
    BY <1>1, UsableHas DEF Dir!AdvanceAfter, Dir!MayAdvance
  <2>3. at[j] = 0 /\ doomed' = doomed /\ wasted' = wasted
    BY DEF Dir!AdvanceAfter, Dir!Null
  <2> QED
    BY <1>1, <1>2, <2>1, <2>2, <2>3
<1>6. /\ Right(c, doomed, wasted, old) /\ c.at = m.at /\ DOMAIN c.data = DOMAIN m.data
      /\ c.data[old].m_refs = m.data[old].m_refs + 1
      /\ c.data[old].m_valid = m.data[old].m_valid /\ c.data[old].m_dir = m.data[old].m_dir
  BY <1>2, <1>3, <1>5, ReferredRight
<1>7. Right(t, doomed, wasted, 0) /\ t.data = c.data /\ t.at[j] = old /\ \A x \in Iterators : x # j => t.at[x] = c.at[x]
  <2>1. old \in DOMAIN c.data /\ c.at[j] = 0
    BY <1>5, <1>6
  <2>2. Takes(c, j, old, t)
    BY <1>3 DEF Takes
  <2>3. Took(c, doomed, wasted, j, old, t)
    BY <1>6, <2>1, <2>2, TakenRight, ZenonT(30)
  <2> QED
    BY <2>3 DEF Took
<1>8. t.at[i] = old /\ t.at[j] = old
  BY <1>5, <1>6, <1>7
<1>9. m.data[old].m_refs \in Nat
  BY <1>2, <1>5 DEF Right, ReadRight, DataTypes, DataRec
<1>10. Reader(t, i)
  BY <1>5, <1>6, <1>7, <1>8, <1>9 DEF Reader
<1>11. PICK s : Nexts(t, i, r, s)
  BY DEF Nexts
<1>12. Advanced(t, doomed, wasted, i, r, s)
  BY <1>5, <1>7, <1>10, <1>11, NextRight
<1>13. /\ Right(s, doomed, wasted, 0) /\ s.thrown \in BOOLEAN /\ s.at[j] = old
       /\ s.data[old].m_refs > 0
  <2>1. t.data[t.at[i]].m_refs > 1
    BY <1>5, <1>6, <1>7, <1>8, <1>9
  <2>2. s.data[old].m_refs = t.data[old].m_refs - 1
    BY <1>8, <1>12, <2>1 DEF Advanced
  <2> QED
    BY <1>5, <1>6, <1>7, <1>8, <1>9, <1>12, <2>2 DEF Advanced
<1>14. Dir!Becomes(IF s.thrown THEN [Dir!release([s EXCEPT !.thrown = no], old, no) EXCEPT !.at[j] = 0] ELSE s)
  BY <1>4, <1>11, Zenon DEF Nexts
<1>15. ASSUME NEW k \in Iterators \ {i, j}, NEW name, Shows(m, k, name) PROVE Shows(s, k, name)
  <2>1. ReadRight(m, wasted) /\ ReadRight(c, wasted)
    BY <1>2, <1>6 DEF Right
  <2>2. Shows(c, k, name)
    BY <1>3, <1>5, <1>15, <2>1, ReferShows
  <2>3. Shows(t, k, name)
    BY <1>3, <1>15, <2>1, <2>2, TakesShows DEF Takes
  <2> QED
    BY <1>7, <1>10, <1>11, <1>15, <2>3, NextShows
<1>16. CASE s.thrown = FALSE
  <2>1. Dir!Becomes(s)
    BY <1>14, <1>16
  <2>2. Showing(m, s, Iterators \ {i, j})
    BY <1>15 DEF Showing
  <2> QED
    BY <1>1, <1>5, <1>13, <2>1, <2>2, Becoming
<1>17. CASE s.thrown = TRUE
  <2>1. PICK f : f = [s EXCEPT !.thrown = no]
    OBVIOUS
  <2>2. Right(f, doomed, wasted, 0) /\ f.data = s.data /\ f.at = s.at /\ f.thrown = FALSE
    BY <1>1, <1>13, <2>1, CalmRight DEF Calms
  <2>3. PICK x : Lets(f, old, no, x)
    BY DEF Lets
  <2>4. Released(f, doomed, wasted, 0, j, no, x)
    <3>1. old = f.at[j] /\ f.data[old].m_refs > 0 /\ no \in BOOLEAN
      BY <1>1, <1>13, <2>2
    <3> QED
      BY <1>5, <2>2, <2>3, <3>1, ReleaseRight
  <2>5. PICK u : u = Nowhere(x, j)
    OBVIOUS
  <2>6. Right(u, doomed, wasted, 0)
    BY <1>1, <2>4, <2>5 DEF Released
  <2>7. Dir!Becomes(u)
    <3>1. Dir!Becomes([x EXCEPT !.at[j] = 0])
      BY <1>14, <1>17, <2>1, <2>3 DEF Lets
    <3> QED
      BY <2>5, <3>1 DEF Nowhere
  <2>8. ASSUME NEW k \in Iterators \ {i, j}, NEW name, Shows(m, k, name) PROVE Shows(u, k, name)
    <3>1. Shows(f, k, name)
      <4>1. Shows(s, k, name) /\ ReadRight(s, wasted)
        BY <1>13, <1>15, <2>8 DEF Right
      <4> QED
        BY <2>1, <4>1, CalmShows DEF Calms
    <3>2. Shows(x, k, name)
      <4>1. old = f.at[j] /\ f.data[old].m_refs > 0 /\ old # 0
        BY <1>5, <1>13, <2>2
      <4> QED
        BY <2>2, <2>3, <2>8, <3>1, <4>1, ReleaseShows
    <3>3. x = [data |-> x.data, at |-> x.at, streams |-> x.streams, ok |-> x.ok, thrown |-> x.thrown] /\ x.at = f.at
      BY <2>4 DEF Released
    <3>4. x.at \in [Iterators -> Nat]
      BY <2>2, <3>3 DEF Right, ReadRight, DataTypes
    <3> QED
      BY <2>5, <2>8, <3>2, <3>3, <3>4, TakeShows DEF Takes, Nowhere
  <2>9. Showing(m, u, Iterators \ {i, j})
    BY <2>8 DEF Showing
  <2> QED
    BY <1>1, <1>5, <2>6, <2>7, <2>9, Becoming
<1> QED
  BY <1>13, <1>16, <1>17

FreshFor(dir, dots, x) == x = [Dir!Fresh(dir) EXCEPT !.m_dots = dots] \/ x = Dir!Fresh(dir)

LEMMA FreshIs ==
    ASSUME NEW dir \in Nat, NEW dots, NEW x, FreshFor(dir, dots, x)
    PROVE  DataRec(x) /\ x.m_refs = 1 /\ x.m_valid /\ x.m_dir = dir
<1>1. PICK yes, no, last : yes = TRUE /\ no = FALSE /\ last = (dir = Dir!Null)
  OBVIOUS
<1>2. Dir!Fresh(dir) = [m_refs |-> 1, m_last |-> last, m_valid |-> yes, m_dots |-> no,
                        m_last_name |-> Dir!Nothing, m_dir |-> dir]
  BY <1>1, Zenon DEF Dir!Fresh
<1>3. PICK ds : x = [m_refs |-> 1, m_last |-> last, m_valid |-> yes, m_dots |-> ds,
                     m_last_name |-> Dir!Nothing, m_dir |-> dir]
  BY <1>2 DEF FreshFor
<1> QED
  BY <1>1, <1>3 DEF DataRec

LEMMA MakeEndKeeps ==
    ASSUME DirInv, NEW i \in Iterators, Dir!MakeEnd(i)
    PROVE  DirInv' /\ Undisturbed(Iterators \ {i})
<1>1. PICK m, n, x : m = Dir!Memory /\ n = Dir!New(m) /\ x = Dir!Fresh(0)
  OBVIOUS
<1>2. /\ Right(m, doomed, wasted, 0)
      /\ m.data = data /\ m.at = at /\ m.streams = streams /\ m.ok = TRUE /\ m.thrown = FALSE
  BY <1>1, MemoryHeld
<1>3. n \in Nat \ {0} /\ n \notin DOMAIN data
  BY <1>1, <1>2, NewIsNew DEF DirInv, DirRight, DataTypes
<1>4. DataRec(x) /\ x.m_refs = 1 /\ x.m_dir = 0
  <2>1. FreshFor(0, FALSE, x)
    BY <1>1 DEF FreshFor
  <2> QED
    BY <2>1, FreshIs
<1>5. /\ DataTypes(data, at) /\ streams \in Seq(StreamRecs) /\ ReadersRight(data, streams, wasted)
      /\ RefsRight(data, at, doomed, 0) /\ at[i] = 0 /\ doomed' = doomed /\ wasted' = wasted
  BY DEF DirInv, DirRight, Dir!MakeEnd, Dir!Null
<1>6. PICK more, yes, no : more = Put(data, n, x) /\ yes = TRUE /\ no = FALSE
  OBVIOUS
<1>7. DOMAIN more = DOMAIN data \cup {n} /\ more[n] = x /\ \A e \in DOMAIN data : e # n => more[e] = data[e]
  BY <1>6 DEF Put
<1>8. DataTypes(more, at)
  BY <1>3, <1>4, <1>5, <1>6, PutTypes
<1>9. RefsRight(more, at, doomed, n)
  BY <1>3, <1>4, <1>5, <1>6, RefsNew
<1>10. ReadersRight(more, streams, wasted)
  <2>1. \A e \in DOMAIN more : more[e].m_dir \in 0..Len(streams)
    <3>1. Len(streams) \in Nat
      BY <1>5
    <3> QED
      BY <1>4, <1>5, <1>7, <3>1 DEF ReadersRight
  <2>2. \A k \in 1..Len(streams) : \A e : (e \in DOMAIN more /\ Reads(more, e, k)) <=> (e \in DOMAIN data /\ Reads(data, e, k))
    <3>1. \A k \in 1..Len(streams) : ~Reads(more, n, k)
      BY <1>4, <1>7 DEF Reads
    <3>2. \A k, e : e # n => ((e \in DOMAIN more /\ Reads(more, e, k)) <=> (e \in DOMAIN data /\ Reads(data, e, k)))
      BY <1>7 DEF Reads
    <3> QED
      BY <1>3, <3>1, <3>2
  <2> QED
    BY <1>5, <2>1, <2>2, ReadersSame
<1>11. PICK c, s : c = Dir!Set(m, n, x) /\ Takes(c, i, n, s)
  BY DEF Takes
<1>12. c = [data |-> more, at |-> at, streams |-> streams, ok |-> yes, thrown |-> no]
  <2>1. m = [data |-> data, at |-> at, streams |-> streams, ok |-> yes, thrown |-> no]
    BY <1>1, <1>6, Zenon DEF Dir!Memory
  <2> QED
    <3>1. more = Put(data, n, x) /\ c = Dir!Set(m, n, x)
      BY <1>6, <1>11
    <3> QED
      BY <2>1, <3>1, SetIs
<1>13. ReadRight(c, wasted) /\ c.data = more /\ c.at = at
  BY <1>5, <1>8, <1>10, <1>12, MemoryRight
<1>14. Right(c, doomed, wasted, n) /\ n \in DOMAIN c.data /\ c.at[i] = 0
  BY <1>5, <1>7, <1>9, <1>13 DEF Right
<1>15. Took(c, doomed, wasted, i, n, s)
  BY <1>11, <1>14, TakenRight, ZenonT(30)
<1>16. Right(s, doomed', wasted', 0)
  BY <1>5, <1>15 DEF Took
<1>17. Dir!Becomes(s)
  BY <1>1, <1>11, Zenon DEF Dir!MakeEnd, Takes, Dir!Null
<1>18. ASSUME NEW k \in Iterators \ {i}, NEW name, Shows(m, k, name) PROVE Shows(s, k, name)
  <2>1. BuffersKept(streams, streams) /\ ReadRight(m, wasted) /\ c.streams = streams
    BY <1>2, <1>12 DEF BuffersKept, Right
  <2>2. Shows(c, k, name)
    BY <1>2, <1>3, <1>6, <1>13, <1>18, <2>1, PutShows
  <2> QED
    BY <1>11, <1>13, <1>18, <2>2, TakesShows
<1>19. Showing(m, s, Iterators \ {i})
  BY <1>18 DEF Showing
<1> QED
  BY <1>1, <1>16, <1>17, <1>19, Becoming

\* A stream is opened and read.
LEMMA ReadersOpened ==
    ASSUME NEW dt, NEW st \in Seq(StreamRecs), NEW w, ReadersRight(dt, st, w), NEW n, n \notin DOMAIN dt,
           NEW x, x.m_valid, NEW dir, dir = Len(st) + 1, x.m_dir = dir, NEW str, str.open = TRUE,
           NEW more, more = Put(dt, n, x), NEW now, now = Append(st, str)
    PROVE  ReadersRight(more, now, w)
<1>1. DOMAIN more = DOMAIN dt \cup {n} /\ more[n] = x /\ \A e \in DOMAIN dt : more[e] = dt[e]
  BY DEF Put
<1>2. Len(st) \in Nat /\ Len(now) = dir /\ now[dir] = str /\ \A k \in 1..Len(st) : now[k] = st[k]
  OBVIOUS
<1>3. w \subseteq 1..Len(now) /\ dir \notin w
  BY <1>2 DEF ReadersRight
<1>4. \A e \in DOMAIN more : more[e].m_dir \in 0..Len(now)
  <2>1. \A e \in DOMAIN dt : dt[e].m_dir \in 0..Len(st)
    BY DEF ReadersRight
  <2>2. \A y \in 0..Len(st) : y \in 0..Len(now)
    BY <1>2
  <2>3. dir \in 0..Len(now)
    BY <1>2
  <2> QED
    BY <1>1, <2>1, <2>2, <2>3
<1>5. \A e \in DOMAIN more : Reads(more, e, dir) <=> e = n
  <2>1. \A e \in DOMAIN dt : dt[e].m_dir # dir
    BY <1>2 DEF ReadersRight
  <2>2. Reads(more, n, dir)
    BY <1>1 DEF Reads
  <2>3. \A e \in DOMAIN dt : ~Reads(more, e, dir)
    BY <1>1, <2>1 DEF Reads
  <2> QED
    BY <1>1, <2>2, <2>3
<1>6. \A k \in 1..Len(st) : \A e : (e \in DOMAIN more /\ Reads(more, e, k)) <=> (e \in DOMAIN dt /\ Reads(dt, e, k))
  <2>1. \A k \in 1..Len(st) : ~Reads(more, n, k)
    BY <1>1, <1>2 DEF Reads
  <2>2. \A k, e : e # n => ((e \in DOMAIN more /\ Reads(more, e, k)) <=> (e \in DOMAIN dt /\ Reads(dt, e, k)))
    BY <1>1 DEF Reads
  <2> QED
    BY <2>1, <2>2
<1>7. ASSUME NEW k \in 1..Len(now)
      PROVE  /\ \A d, e \in DOMAIN more : Reads(more, d, k) /\ Reads(more, e, k) => d = e
             /\ (\E d \in DOMAIN more : Reads(more, d, k)) <=> now[k].open /\ k \notin w
  <2>1. CASE k = dir
    BY <1>1, <1>2, <1>3, <1>5, <2>1
  <2>2. CASE k # dir
    <3>1. k \in 1..Len(st)
      BY <1>2, <2>2
    <3> QED
      BY <1>2, <1>6, <3>1 DEF ReadersRight
  <2> QED
    BY <2>1, <2>2
<1> QED
  BY <1>3, <1>4, <1>7 DEF ReadersRight

\* What read it is gone, and it stays open.
LEMMA ReadersWasted ==
    ASSUME NEW dt, NEW st \in Seq(StreamRecs), NEW w, ReadersRight(dt, st, w), NEW n \in DOMAIN dt,
           NEW dir \in 1..Len(st), Reads(dt, n, dir)
    PROVE  ReadersRight(Drop(dt, n), st, w \cup {dir})
<1>1. PICK less : less = Drop(dt, n)
  OBVIOUS
<1>2. DOMAIN less = DOMAIN dt \ {n} /\ \A e \in DOMAIN less : less[e] = dt[e]
  BY <1>1 DEF Drop
<1>3. ASSUME NEW k \in 1..Len(st)
      PROVE  /\ \A d, e \in DOMAIN less : Reads(less, d, k) /\ Reads(less, e, k) => d = e
             /\ (\E d \in DOMAIN less : Reads(less, d, k)) <=> st[k].open /\ k \notin w \cup {dir}
  <2>1. \A d \in DOMAIN less : Reads(less, d, k) <=> Reads(dt, d, k)
    BY <1>2 DEF Reads
  <2>2. /\ \A d, e \in DOMAIN dt : Reads(dt, d, k) /\ Reads(dt, e, k) => d = e
        /\ (\E d \in DOMAIN dt : Reads(dt, d, k)) <=> st[k].open /\ k \notin w
    BY DEF ReadersRight
  <2>3. CASE k = dir
    BY <1>2, <2>1, <2>2, <2>3
  <2>4. CASE k # dir
    <3>1. ~Reads(dt, n, k)
      BY <2>4 DEF Reads
    <3> QED
      BY <1>2, <2>1, <2>2, <2>4, <3>1
  <2> QED
    BY <2>3, <2>4
<1>4. ReadersRight(less, st, w \cup {dir})
  BY <1>2, <1>3 DEF ReadersRight
<1> QED
  BY <1>1, <1>4

LEMMA OpenKeeps ==
    ASSUME DirInv, NEW i \in Iterators, NEW dots \in BOOLEAN, Dir!Open(i, dots)
    PROVE  DirInv' /\ Undisturbed(Iterators \ {i})
<1>1. PICK m, n, dir, str, x : /\ m = Dir!Memory /\ n = Dir!New(m) /\ dir = Len(streams) + 1
                               /\ str = [left |-> Names, buffer |-> Dir!Nothing, open |-> TRUE]
                               /\ x = [Dir!Fresh(dir) EXCEPT !.m_dots = dots]
  OBVIOUS
<1>2. /\ Right(m, doomed, wasted, 0)
      /\ m.data = data /\ m.at = at /\ m.streams = streams /\ m.ok = TRUE /\ m.thrown = FALSE
  BY <1>1, MemoryHeld
<1>3. n \in Nat \ {0} /\ n \notin DOMAIN data
  BY <1>1, <1>2, NewIsNew DEF DirInv, DirRight, DataTypes
<1>4. PICK now, opened, c : /\ now = Append(streams, str) /\ opened = [m EXCEPT !.streams = now]
                            /\ c = Dir!Set(opened, n, x)
  OBVIOUS
<1>5. PICK made : Takes(c, i, n, made)
  BY DEF Takes
<1>6. /\ DataTypes(data, at) /\ streams \in Seq(StreamRecs) /\ ReadersRight(data, streams, wasted)
      /\ RefsRight(data, at, doomed, 0) /\ at[i] = 0 /\ doomed' = doomed /\ dir \in Nat \ {0} /\ Len(streams) \in Nat
  <2>1. /\ DataTypes(data, at) /\ streams \in Seq(StreamRecs) /\ ReadersRight(data, streams, wasted)
        /\ RefsRight(data, at, doomed, 0) /\ at[i] = 0 /\ doomed' = doomed
    BY DEF DirInv, DirRight, Dir!Open, Dir!Null
  <2> QED
    BY <1>1, <2>1
<1>7. DataRec(x) /\ x.m_refs = 1 /\ x.m_valid /\ x.m_dir = dir
  <2>1. FreshFor(dir, dots, x) /\ dir \in Nat
    BY <1>1, <1>6 DEF FreshFor
  <2> QED
    BY <2>1, FreshIs
<1>8. str \in StreamRecs /\ str.open = TRUE /\ str.left = Names
  <2>1. PICK yes \in BOOLEAN : yes = TRUE
    OBVIOUS
  <2>2. str = [left |-> Names, buffer |-> Dir!Nothing, open |-> yes]
    BY <1>1, <2>1, Zenon
  <2> QED
    BY <2>1, <2>2 DEF StreamRecs
<1>9. now \in Seq(StreamRecs) /\ Len(now) = dir /\ now[dir] = str
  BY <1>1, <1>4, <1>6, <1>8
<1>10. PICK more, yes, no : more = Put(data, n, x) /\ yes = TRUE /\ no = FALSE
  OBVIOUS
<1>11. DOMAIN more = DOMAIN data \cup {n} /\ more[n] = x
  BY <1>10 DEF Put
<1>12. DataTypes(more, at) /\ RefsRight(more, at, doomed, n) /\ ReadersRight(more, now, wasted)
  <2>1. DataTypes(more, at)
    BY <1>3, <1>6, <1>7, <1>10, PutTypes
  <2>2. RefsRight(more, at, doomed, n)
    BY <1>3, <1>6, <1>7, <1>10, RefsNew
  <2>3. ReadersRight(more, now, wasted)
    BY <1>1, <1>3, <1>4, <1>6, <1>7, <1>8, <1>10, ReadersOpened
  <2> QED
    BY <2>1, <2>2, <2>3
<1>13. opened = [data |-> data, at |-> at, streams |-> now, ok |-> yes, thrown |-> no]
  <2>1. m = [data |-> data, at |-> at, streams |-> streams, ok |-> yes, thrown |-> no]
    BY <1>1, <1>10, Zenon DEF Dir!Memory
  <2> QED
    BY <1>4, <2>1
<1>14. c = [data |-> more, at |-> at, streams |-> now, ok |-> yes, thrown |-> no]
  <2>1. more = Put(data, n, x) /\ c = Dir!Set(opened, n, x)
    BY <1>4, <1>10
  <2> QED
    BY <1>13, <2>1, SetIs
<1>15. ReadRight(c, wasted) /\ c.data = more /\ c.at = at
  BY <1>9, <1>12, <1>14, MemoryRight
<1>16. Right(c, doomed, wasted, n) /\ n \in DOMAIN c.data /\ c.at[i] = 0
  BY <1>6, <1>11, <1>12, <1>15 DEF Right
<1>17. Took(c, doomed, wasted, i, n, made)
  BY <1>5, <1>16, TakenRight, ZenonT(30)
<1>18. Right(made, doomed, wasted, 0) /\ made.at[i] = n /\ made.data[n] = x
  BY <1>11, <1>15, <1>17 DEF Took
<1>19. Reader(made, i)
  BY <1>3, <1>6, <1>7, <1>18 DEF Reader
<1>20. PICK r \in Dir!sysnext(opened.streams[dir], dots) :
           LET s == Dir!next(made, i, r)
           IN  /\ Dir!Becomes(IF s.thrown THEN [Dir!Free(s, n) EXCEPT !.at[i] = 0] ELSE s)
               /\ wasted' = IF s.thrown THEN wasted \cup {dir} ELSE wasted
  <2>1. opened = [m EXCEPT !.streams = Append(@, str)]
    BY <1>2, <1>4
  <2>2. made = [Dir!Set(opened, n, x) EXCEPT !.at[i] = n]
    BY <1>4, <1>5 DEF Takes
  <2> QED
    BY <1>1, <2>1, <2>2, Zenon DEF Dir!Open, Dir!Null
<1>21. Reading(r) /\ r.fails \in BOOLEAN
  <2>1. opened.streams[dir] = str
    BY <1>9, <1>13
  <2> QED
    BY <1>8, <1>20, <2>1, ReadingIs
<1>22. PICK s : Nexts(made, i, r, s)
  BY DEF Nexts
<1>23. Advanced(made, doomed, wasted, i, r, s)
  BY <1>18, <1>19, <1>21, <1>22, NextRight
<1>24. /\ Dir!Becomes(IF s.thrown THEN [Dir!Free(s, n) EXCEPT !.at[i] = 0] ELSE s)
       /\ wasted' = IF s.thrown THEN wasted \cup {dir} ELSE wasted
  BY <1>20, <1>22, Zenon DEF Nexts
<1>25. Right(s, doomed, wasted, 0) /\ s.thrown \in BOOLEAN
  BY <1>21, <1>23 DEF Advanced
<1>26. ASSUME NEW k \in Iterators \ {i}, NEW name, Shows(m, k, name)
       PROVE  Shows(s, k, name) /\ s.at[k] # n
  <2>1. BuffersKept(streams, now) /\ ReadRight(m, wasted) /\ c.streams = now
    <3>1. \A y \in 1..Len(streams) : now[y] = streams[y]
      BY <1>4, <1>6
    <3> QED
      BY <1>2, <1>14, <3>1 DEF BuffersKept, Right
  <2>2. Shows(c, k, name)
    BY <1>2, <1>3, <1>10, <1>15, <1>26, <2>1, PutShows
  <2>3. Shows(made, k, name)
    BY <1>5, <1>15, <1>26, <2>2, TakesShows
  <2>4. Shows(s, k, name)
    BY <1>18, <1>19, <1>22, <1>26, <2>3, NextShows
  <2>5. s.at[k] = made.at[k] /\ made.at[k] = c.at[k]
    BY <1>17, <1>23, <1>26 DEF Advanced, Took
  <2>6. at[k] # n
    BY <1>2, <1>3, <1>26 DEF Shows
  <2> QED
    BY <1>15, <2>4, <2>5, <2>6
<1>27. CASE s.thrown = FALSE
  <2>1. Showing(m, s, Iterators \ {i})
    BY <1>26 DEF Showing
  <2> QED
    BY <1>1, <1>6, <1>24, <1>25, <1>27, <2>1, Becoming
<1>28. CASE s.thrown = TRUE
  <2>1. PICK dt, a, st, o, th : s = [data |-> dt, at |-> a, streams |-> st, ok |-> o, thrown |-> th]
    BY <1>25 DEF Right, ReadRight
  <2>2. DataTypes(dt, a) /\ st \in Seq(StreamRecs) /\ ReadersRight(dt, st, wasted) /\ RefsRight(dt, a, doomed, 0)
    BY <1>25, <2>1 DEF Right, ReadRight
  <2>3. a[i] = n /\ n \in DOMAIN dt /\ dt[n].m_refs = 1 /\ dt[n].m_valid /\ dt[n].m_dir = dir /\ n # 0
    <3>1. s.at = made.at /\ s.data[s.at[i]].m_refs = 1 /\ s.at[i] \in DOMAIN s.data
          /\ s.data[s.at[i]].m_valid /\ s.data[s.at[i]].m_dir = dir
      BY <1>7, <1>18, <1>23 DEF Advanced
    <3> QED
      BY <1>3, <1>18, <2>1, <3>1
  <2>4. PICK b, less : b = [a EXCEPT ![i] = 0] /\ less = Drop(dt, n)
    OBVIOUS
  <2>5. DataTypes(less, b) /\ RefsRight(less, b, doomed, 0)
    BY <2>2, <2>3, <2>4, RefsGone DEF Dropped
  <2>6. ReadersRight(less, st, wasted \cup {dir})
    <3>1. dir \in 1..Len(st) /\ Reads(dt, n, dir)
      <4>1. dir \in 0..Len(st) /\ Len(st) \in Nat
        BY <2>2, <2>3 DEF ReadersRight
      <4> QED
        BY <1>6, <2>3, <4>1 DEF Reads
    <3> QED
      BY <2>2, <2>3, <2>4, <3>1, ReadersWasted
  <2>7. PICK u : u = [Dir!Free(s, n) EXCEPT !.at[i] = 0]
    OBVIOUS
  <2>8. u = [data |-> less, at |-> b, streams |-> st, ok |-> o, thrown |-> th]
    <3>1. [y \in DOMAIN s.data \ {n} |-> s.data[y]] = less
      BY <2>1, <2>4 DEF Drop
    <3>2. Dir!Free(s, n) = [s EXCEPT !.data = less]
      BY <3>1 DEF Dir!Free
    <3>3. Dir!Free(s, n) = [data |-> less, at |-> a, streams |-> st, ok |-> o, thrown |-> th]
      BY <2>1, <3>2
    <3> QED
      BY <2>4, <2>7, <3>3
  <2>9. ReadRight(u, wasted \cup {dir}) /\ u.data = less /\ u.at = b
    BY <2>2, <2>5, <2>6, <2>8, MemoryRight
  <2>10. Right(u, doomed, wasted \cup {dir}, 0)
    BY <2>5, <2>9 DEF Right
  <2>11. wasted' = wasted \cup {dir} /\ Dir!Becomes(u)
    BY <1>24, <1>28, <2>7
  <2>12. ASSUME NEW k \in Iterators \ {i}, NEW name, Shows(m, k, name) PROVE Shows(u, k, name)
    <3>1. Shows(s, k, name) /\ s.at[k] # n /\ ReadRight(s, wasted)
      BY <1>25, <1>26, <2>12 DEF Right
    <3>2. PICK g : g = Dir!Free(s, n)
      OBVIOUS
    <3>3. Shows(g, k, name)
      BY <3>1, <3>2, FreeShows
    <3>4. g = [data |-> less, at |-> a, streams |-> st, ok |-> o, thrown |-> th]
      <4>1. [y \in DOMAIN s.data \ {n} |-> s.data[y]] = less
        BY <2>1, <2>4 DEF Drop
      <4>2. g = [s EXCEPT !.data = less]
        BY <3>2, <4>1 DEF Dir!Free
      <4> QED
        BY <2>1, <4>2
    <3>5. g = [data |-> g.data, at |-> g.at, streams |-> g.streams, ok |-> g.ok, thrown |-> g.thrown]
          /\ g.at \in [Iterators -> Nat]
      BY <2>2, <3>4 DEF DataTypes
    <3>6. Takes(g, i, 0, u)
      BY <2>7, <3>2 DEF Takes
    <3> QED
      BY <2>12, <3>3, <3>5, <3>6, TakeShows
  <2>13. Showing(m, u, Iterators \ {i})
    BY <2>12 DEF Showing
  <2> QED
    BY <1>1, <1>6, <2>10, <2>11, <2>13, Becoming
<1> QED
  BY <1>25, <1>27, <1>28

LEMMA DirKeeps == ASSUME DirInv, Dir!DirNext PROVE DirInv'
<1>1. ASSUME NEW i \in Iterators, Dir!MakeEnd(i) \/ Dir!Destroy(i) \/ Dir!Advance(i) PROVE DirInv'
  BY <1>1, MakeEndKeeps, DestroyKeeps, AdvanceKeeps
<1>2. ASSUME NEW i \in Iterators, NEW dots \in BOOLEAN, Dir!Open(i, dots) PROVE DirInv'
  BY <1>2, OpenKeeps
<1>3. ASSUME NEW i \in Iterators, NEW fails \in BOOLEAN, Dir!Close(i, fails) PROVE DirInv'
  BY <1>3, CloseKeeps
<1>4. ASSUME NEW i \in Iterators, NEW j \in Iterators, Dir!Copy(i, j) \/ Dir!AdvanceAfter(i, j) PROVE DirInv'
  BY <1>4, CopyKeeps, AdvanceAfterKeeps
<1>5. ASSUME NEW i \in Iterators, NEW j \in Iterators, NEW fails \in BOOLEAN, Dir!Assign(i, j, fails) PROVE DirInv'
  BY <1>5, AssignKeeps
<1> QED
  BY <1>1, <1>2, <1>3, <1>4, <1>5 DEF Dir!DirNext

\* What may be read is shown, and what is shown may be read.
LEMMA ReadableShown ==
    ASSUME DirInv, NEW i \in Dir!Readable, NEW name, name = Dir!Deref(Dir!Memory, i)
    PROVE  i \in Iterators /\ at[i] # 0 /\ Shown(i, name)
<1>1. PICK m : m = Dir!Memory
  OBVIOUS
<1>2. m.data = data /\ m.at = at /\ m.streams = streams
  BY <1>1, MemoryHeld
<1>3. PICK d : d = at[i]
  OBVIOUS
<1>4. i \in Iterators /\ Dir!CanRead(m, d)
  BY <1>1, <1>3 DEF Dir!Readable
<1>5. d # 0 /\ d \in DOMAIN data
  BY <1>3, <1>4 DEF Dir!CanRead, Dir!Null, DirInv, DirRight, DataTypes
<1>6. name = IF data[d].m_valid THEN streams[data[d].m_dir].buffer ELSE data[d].m_last_name
  BY <1>1, <1>2, <1>3 DEF Dir!Deref, Dir!sysderef
<1>7. Gives(data[d], streams, name)
  BY <1>2, <1>4, <1>6 DEF Gives, Dir!CanRead, Dir!Null
<1> QED
  BY <1>1, <1>2, <1>3, <1>4, <1>5, <1>7 DEF Shown, Shows

LEMMA ShownReadable ==
    ASSUME NEW m, NEW i, NEW name, Shows(m, i, name)
    PROVE  Dir!CanRead(m, m.at[i]) /\ Dir!Deref(m, i) = name
<1>1. PICK d : d = m.at[i]
  OBVIOUS
<1>2. d # 0 /\ Gives(m.data[d], m.streams, name)
  BY <1>1 DEF Shows
<1>3. Dir!CanRead(m, d)
  BY <1>2 DEF Gives, Dir!CanRead, Dir!Null
<1>4. Dir!Deref(m, i) = name
  BY <1>1, <1>2 DEF Gives, Dir!Deref, Dir!sysderef
<1> QED
  BY <1>1, <1>3, <1>4

\* What may be done with an iterator that no longer shows what it showed.
Excused(i) ==
    \/ at'[i] = Dir!Null \/ \E j \in Iterators : at[j] = at[i] /\ (Dir!Close(j, TRUE) \/ Dir!Close(j, FALSE))
    \/ \E j \in Iterators : Dir!Advance(i) \/ Dir!AdvanceAfter(i, j) \/ Dir!Assign(j, i, TRUE) \/ Dir!Assign(j, i, FALSE)

Remembered(i) ==
    \/ at'[i] = Dir!Null \/ \E j \in Iterators : at[j] = at[i] /\ (Dir!Close(j, TRUE) \/ Dir!Close(j, FALSE))
    \/ \E j \in Iterators : Dir!Advance(i) \/ Dir!AdvanceAfter(i, j) \/ Dir!Assign(j, i, TRUE) \/ Dir!Assign(j, i, FALSE)
    \/ (i \in Dir!Readable)' /\ Dir!Deref(Dir!Memory', i) = Dir!Deref(Dir!Memory, i)

LEMMA OthersShown ==
    ASSUME DirInv, Dir!DirNext, NEW i \in Iterators, at[i] # 0, ~Excused(i), NEW name, Shown(i, name)
    PROVE  Shown(i, name)'
<1>1. ASSUME NEW those, Undisturbed(those), i \in those PROVE Shown(i, name)'
  BY <1>1 DEF Undisturbed
<1>2. ASSUME NEW j \in Iterators, Dir!MakeEnd(j) PROVE Shown(i, name)'
  <2>1. i \in Iterators \ {j}
    BY <1>2 DEF Dir!MakeEnd, Dir!Null
  <2> QED
    BY <1>1, <1>2, <2>1, MakeEndKeeps
<1>3. ASSUME NEW j \in Iterators, NEW dots \in BOOLEAN, Dir!Open(j, dots) PROVE Shown(i, name)'
  <2>1. i \in Iterators \ {j}
    BY <1>3 DEF Dir!Open, Dir!Null
  <2> QED
    BY <1>1, <1>3, <2>1, OpenKeeps
<1>4. ASSUME NEW j \in Iterators, Dir!Destroy(j) PROVE Shown(i, name)'
  <2>1. at'[j] = 0 /\ Undisturbed(Iterators \ {j})
    BY <1>4, DestroyKeeps
  <2>2. i \in Iterators \ {j}
    BY <2>1 DEF Excused, Dir!Null
  <2> QED
    BY <1>1, <2>1, <2>2
<1>5. ASSUME NEW j \in Iterators, NEW fails \in BOOLEAN, Dir!Close(j, fails) PROVE Shown(i, name)'
  <2>1. i \in {k \in Iterators : at[k] # at[j]}
    <3>1. Dir!Close(j, TRUE) \/ Dir!Close(j, FALSE)
      BY <1>5
    <3> QED
      BY <3>1 DEF Excused
  <2> QED
    BY <1>1, <1>5, <2>1, CloseKeeps
<1>6. ASSUME NEW j \in Iterators, Dir!Advance(j) PROVE Shown(i, name)'
  <2>1. i \in Iterators \ {j}
    BY <1>6 DEF Excused
  <2> QED
    BY <1>1, <1>6, <2>1, AdvanceKeeps
<1>7. ASSUME NEW j \in Iterators, NEW k \in Iterators, Dir!Copy(j, k) PROVE Shown(i, name)'
  <2>1. i \in Iterators \ {k}
    BY <1>7 DEF Dir!Copy, Dir!Null
  <2> QED
    BY <1>1, <1>7, <2>1, CopyKeeps
<1>8. ASSUME NEW j \in Iterators, NEW k \in Iterators, Dir!AdvanceAfter(j, k) PROVE Shown(i, name)'
  <2>1. at[k] = 0
    BY <1>8 DEF Dir!AdvanceAfter, Dir!Null
  <2>2. i \in Iterators \ {j, k}
    BY <1>8, <2>1 DEF Excused
  <2> QED
    BY <1>1, <1>8, <2>2, AdvanceAfterKeeps
<1>9. ASSUME NEW j \in Iterators, NEW k \in Iterators, NEW fails \in BOOLEAN, Dir!Assign(j, k, fails) PROVE Shown(i, name)'
  <2>1. i \in Iterators \ {k}
    <3>1. Dir!Assign(j, k, TRUE) \/ Dir!Assign(j, k, FALSE)
      BY <1>9
    <3> QED
      BY <3>1 DEF Excused
  <2> QED
    BY <1>1, <1>9, <2>1, AssignKeeps
<1> QED
  BY <1>2, <1>3, <1>4, <1>5, <1>6, <1>7, <1>8, <1>9 DEF Dir!DirNext

LEMMA CopiesDoRemember ==
    ASSUME DirInv, Dir!DirNext, NEW i \in Dir!Readable
    PROVE  Remembered(i)
<1> SUFFICES ASSUME ~Excused(i) PROVE (i \in Dir!Readable)' /\ Dir!Deref(Dir!Memory', i) = Dir!Deref(Dir!Memory, i)
  BY DEF Remembered, Excused
<1>1. PICK name : name = Dir!Deref(Dir!Memory, i)
  OBVIOUS
<1>2. i \in Iterators /\ at[i] # 0 /\ Shown(i, name)
  BY <1>1, ReadableShown
<1>3. Shown(i, name)'
  BY <1>2, OthersShown
<1>4. PICK m : m = Dir!Memory'
  OBVIOUS
<1>5. m.at = at' /\ Shows(m, i, name)
  <2>1. PICK yes, no : yes = TRUE /\ no = FALSE
    OBVIOUS
  <2>2. m = [data |-> data', at |-> at', streams |-> streams', ok |-> yes, thrown |-> no]
    BY <1>4, <2>1, Zenon DEF Dir!Memory
  <2>3. m.at = at' /\ m.data = data' /\ m.streams = streams'
    BY <2>2
  <2> QED
    BY <1>3, <2>3 DEF Shown, Shows, Gives, Dir!Memory
<1>6. Dir!CanRead(m, at'[i]) /\ Dir!Deref(m, i) = name
  BY <1>5, ShownReadable
<1> QED
  BY <1>1, <1>2, <1>4, <1>6 DEF Dir!Readable

LEMMA DirInitRight == Dir!DirInit => DirInv
<1> SUFFICES ASSUME Dir!DirInit PROVE DirInv
  OBVIOUS
<1>1. data = <<>> /\ streams = <<>> /\ wasted = {} /\ doomed = {} /\ at = [i \in Iterators |-> 0]
  BY DEF Dir!DirInit, Dir!Null
<1>2. DOMAIN data = {} /\ data = [d \in DOMAIN data |-> data[d]] /\ IsFiniteSet(DOMAIN data)
  BY <1>1, FS_EmptySet
<1>3. DataTypes(data, at)
  BY <1>1, <1>2 DEF DataTypes
<1>4. streams \in Seq(StreamRecs) /\ Len(streams) = 0
  BY <1>1
<1>5. ReadersRight(data, streams, wasted)
  BY <1>1, <1>2, <1>4 DEF ReadersRight
<1>6. RefsRight(data, at, doomed, 0)
  BY <1>2 DEF RefsRight
<1> QED
  BY <1>3, <1>4, <1>5, <1>6 DEF DirInv, DirRight

LEMMA StatesAreCounted == ASSUME DirInv PROVE Dir!StatesCounted
<1>1. ASSUME NEW d \in DOMAIN data \ doomed
      PROVE  data[d].m_refs = Dir!Cardinality({i \in Iterators : at[i] = d}) /\ data[d].m_refs > 0
  <2>1. data[d].m_refs = Cardinality(At(at, d)) + Pending(0, d) /\ data[d].m_refs > 0
    BY DEF DirInv, DirRight, RefsRight
  <2>2. Pending(0, d) = 0
    BY DEF DirInv, DirRight, DataTypes, Pending
  <2>3. Cardinality(At(at, d)) \in Nat
    BY AtIsFinite
  <2>4. {i \in Iterators : at[i] = d} = At(at, d)
    BY DEF At
  <2>5. PICK those : those = At(at, d)
    OBVIOUS
  <2>6. Dir!Cardinality(those) = Cardinality(those)
    BY DirCount
  <2>7. data[d].m_refs = Dir!Cardinality(those)
    BY <2>1, <2>2, <2>3, <2>5, <2>6
  <2> QED
    BY <2>1, <2>4, <2>5, <2>7
<1>2. ASSUME NEW dir \in DOMAIN streams
      PROVE  Dir!Cardinality({d \in DOMAIN data : data[d].m_valid /\ data[d].m_dir = dir})
             = IF streams[dir].open /\ dir \notin wasted THEN 1 ELSE 0
  <2>1. dir \in 1..Len(streams) /\ ReadersRight(data, streams, wasted)
    BY DEF DirInv, DirRight
  <2>2. PICK those : those = {d \in DOMAIN data : data[d].m_valid /\ data[d].m_dir = dir}
    OBVIOUS
  <2>3. those = {d \in DOMAIN data : Reads(data, d, dir)}
    BY <2>2 DEF Reads
  <2>4. CASE streams[dir].open /\ dir \notin wasted
    <3>1. PICK d \in DOMAIN data : Reads(data, d, dir)
      BY <2>1, <2>4 DEF ReadersRight
    <3>2. those = {d}
      BY <2>1, <2>3, <3>1 DEF ReadersRight
    <3>3. Cardinality(those) = 1
      BY <3>2, FS_Singleton
    <3> QED
      BY <2>2, <2>4, <3>3, DirCount
  <2>5. CASE ~(streams[dir].open /\ dir \notin wasted)
    <3>1. those = {}
      BY <2>1, <2>3, <2>5 DEF ReadersRight
    <3>2. Cardinality(those) = 0
      BY <3>1, FS_EmptySet
    <3> QED
      BY <2>2, <2>5, <3>2, DirCount
  <2> QED
    BY <2>4, <2>5
<1> QED
  BY <1>1, <1>2 DEF Dir!StatesCounted
=============================================================================
