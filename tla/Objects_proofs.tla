--------------------------- MODULE Objects_proofs ---------------------------
(***************************************************************************)
(* What Objects_rules checks on a small instance, for every number of      *)
(* handles, iterators, owners, mappings and temporary files: that what is  *)
(* shared is counted and freed once, that views and transfers move the     *)
(* bytes they were asked to, that nobody is given the file of another, and *)
(* that vectors, ranges and members do what they stand for.                *)
(*                                                                         *)
(* The objects have nothing to do with each other, so each has an          *)
(* inductive invariant of its own: StorageInv, TempInv, OwnInv, AutoInv,   *)
(* Counted for callbacks, HooksInv for lists of them, VectorInv for what   *)
(* is in a vector, SeqInv for a sequence, and DirInv for iterators over    *)
(* directories, which is Descriptors_proofs'.                              *)
(***************************************************************************)
EXTENDS Descriptors_proofs

-----------------------------------------------------------------------------
(* Files: views and transfers.                                             *)

SpaceTypes == space \in [Addresses -> DOMAIN Mappings \cup {"nobody", "others"}]

MappingTypes ==
    /\ DOMAIN mapping = DOMAIN Mappings
    /\ \A m \in DOMAIN Mappings : mapping[m] \in [views : Seq(Addresses), closed : BOOLEAN]

StorageInv ==
    /\ SpaceTypes /\ MappingTypes /\ Sto!ViewsAreMapped
    /\ size \in Nat /\ transfer.pos \in Nat /\ Sto!TransfersInOrder

LEMMA StorageInitKeeps == Sto!StorageInit => StorageInv
<1> SUFFICES ASSUME Sto!StorageInit PROVE StorageInv
  OBVIOUS
<1>1. SpaceTypes
  BY ObjectsAssumption DEF Sto!StorageInit, SpaceTypes, Sto!Free
<1>2. <<>> \in Seq(Addresses)
  OBVIOUS
<1>3. MappingTypes
  BY <1>2 DEF Sto!StorageInit, MappingTypes
<1>4. Sto!ViewsAreMapped
  <2> SUFFICES ASSUME NEW m \in DOMAIN Mappings
               PROVE  /\ Sto!IsInjective(Sto!Views(m)) /\ Sto!Range(Sto!Views(m)) = {a \in Addresses : space[a] = m}
                      /\ mapping[m].closed => Sto!Views(m) = <<>>
    BY DEF Sto!ViewsAreMapped
  <2>1. Sto!Views(m) = <<>> /\ DOMAIN Sto!Views(m) = {}
    BY DEF Sto!StorageInit, Sto!Views
  <2>2. \A a \in Addresses : space[a] # m
    BY ObjectsAssumption DEF Sto!StorageInit, Sto!Free
  <2> QED
    BY <2>1, <2>2 DEF Sto!IsInjective, Sto!Range
<1>5. transfer.pos = 0 /\ transfer.sent = <<>> /\ size = 0
  BY DEF Sto!StorageInit
<1>6. Sto!TransfersInOrder
  BY <1>5 DEF Sto!TransfersInOrder
<1> QED
  BY <1>1, <1>3, <1>4, <1>5, <1>6 DEF StorageInv

\* Steps that leave the views alone.
LEMMA SizeStep ==
    ASSUME StorageInv, UNCHANGED <<space, mapping, transfer>>, size' \in Nat
    PROVE  StorageInv'
<1>1. SpaceTypes' /\ MappingTypes' /\ Sto!ViewsAreMapped' /\ Sto!TransfersInOrder' /\ transfer'.pos \in Nat
  BY DEF StorageInv, SpaceTypes, MappingTypes, Sto!ViewsAreMapped, Sto!TransfersInOrder, Sto!Views
<1> QED
  BY <1>1 DEF StorageInv

LEMMA TransferStep ==
    ASSUME StorageInv, NEW n \in Nat, transfer' = Sto!Sent(n), UNCHANGED <<size, space, mapping>>
    PROVE  StorageInv'
<1>1. SpaceTypes' /\ MappingTypes' /\ Sto!ViewsAreMapped' /\ size' \in Nat
  BY DEF StorageInv, SpaceTypes, MappingTypes, Sto!ViewsAreMapped, Sto!Views
<1>2. PICK p, s : p = transfer.pos /\ s = transfer.sent
  OBVIOUS
<1>3. p \in Nat /\ s = [i \in 1..p |-> i]
  BY <1>2 DEF StorageInv, Sto!TransfersInOrder
<1>4. PICK more : more = [i \in 1..n |-> p + i]
  OBVIOUS
<1>5. s \in Seq(Nat) /\ Len(s) = p /\ more \in Seq(Nat) /\ Len(more) = n
  <2>1. s \in [1..p -> Nat] /\ more \in [1..n -> Nat]
    BY <1>3, <1>4
  <2> QED
    BY <1>3, <2>1, SeqDef
<1>6. PICK both : both = s \o more
  OBVIOUS
<1>7. /\ both \in Seq(Nat) /\ Len(both) = p + n
      /\ \A i \in 1..p : both[i] = s[i]
      /\ \A i \in 1..n : both[p + i] = more[i]
  <2>1. both \in Seq(Nat) /\ Len(both) = Len(s) + Len(more)
    BY <1>5, <1>6, ConcatProperties
  <2>2. \A i \in 1..Len(s) : both[i] = s[i]
    BY <1>5, <1>6
  <2>3. \A i \in 1..Len(more) : both[Len(s) + i] = more[i]
    BY <1>5, <1>6
  <2> QED
    BY <1>5, <2>1, <2>2, <2>3
<1>8. ASSUME NEW i \in 1..(p + n) PROVE both[i] = i
  <2>1. CASE i <= p
    BY <1>3, <1>7, <2>1
  <2>2. CASE ~(i <= p)
    <3>1. i - p \in 1..n /\ i = p + (i - p)
      BY <1>3, <2>2
    <3>2. both[p + (i - p)] = more[i - p] /\ more[i - p] = p + (i - p)
      BY <1>4, <1>7, <3>1
    <3> QED
      BY <3>1, <3>2
  <2> QED
    BY <2>1, <2>2
<1>9. both = [i \in 1..(p + n) |-> i]
  <2>1. DOMAIN both = 1..(p + n) /\ both = [i \in DOMAIN both |-> both[i]]
    BY <1>7
  <2> QED
    BY <1>8, <2>1
<1>10. transfer'.pos = p + n /\ transfer'.sent = both
  BY <1>2, <1>4, <1>6 DEF Sto!Sent
<1>11. Sto!TransfersInOrder' /\ transfer'.pos \in Nat
  BY <1>3, <1>9, <1>10 DEF Sto!TransfersInOrder
<1> QED
  BY <1>1, <1>11 DEF StorageInv

LEMMA ErasedIsAllBut ==
    ASSUME NEW s \in Seq(Addresses), NEW i \in DOMAIN s, Sto!IsInjective(s)
    PROVE  /\ Sto!RemoveAt(s, i) \in Seq(Addresses) /\ Sto!IsInjective(Sto!RemoveAt(s, i))
           /\ Sto!Range(Sto!RemoveAt(s, i)) = Sto!Range(s) \ {s[i]}
<1>1. Len(s) \in Nat /\ DOMAIN s = 1..Len(s) /\ i \in 1..Len(s) /\ \A j \in 1..Len(s) : s[j] \in Addresses
  BY LenProperties, ElementOfSeq
<1>2. PICK n \in Nat : n = Len(s)
  BY <1>1
<1>3. PICK front : front = SubSeq(s, 1, i - 1)
  OBVIOUS
<1>4. PICK back : back = SubSeq(s, i + 1, Len(s))
  OBVIOUS
<1>5. front \in Seq(Addresses) /\ Len(front) = i - 1 /\ \A j \in 1..i - 1 : front[j] = s[j]
  <2>1. i - 1 \in Int /\ 1 \in Int /\ \A j \in 1..(i - 1) : s[j] \in Addresses
    BY <1>1
  <2>2. /\ SubSeq(s, 1, i - 1) \in Seq(Addresses)
        /\ Len(SubSeq(s, 1, i - 1)) = IF 1 <= i - 1 THEN i - 1 - 1 + 1 ELSE 0
        /\ \A j \in 1..(i - 1 - 1 + 1) : SubSeq(s, 1, i - 1)[j] = s[1 + j - 1]
    BY <2>1, SubSeqProperties
  <2> QED
    BY <1>1, <1>3, <2>2
<1>6. back \in Seq(Addresses) /\ Len(back) = n - i /\ \A j \in 1..n - i : back[j] = s[i + j]
  <2>1. i + 1 \in Int /\ Len(s) \in Int /\ \A j \in (i + 1)..Len(s) : s[j] \in Addresses
    BY <1>1
  <2>2. /\ SubSeq(s, i + 1, Len(s)) \in Seq(Addresses)
        /\ Len(SubSeq(s, i + 1, Len(s))) = IF i + 1 <= Len(s) THEN Len(s) - (i + 1) + 1 ELSE 0
        /\ \A j \in 1..(Len(s) - (i + 1) + 1) : SubSeq(s, i + 1, Len(s))[j] = s[i + 1 + j - 1]
    BY <2>1, SubSeqProperties
  <2> QED
    BY <1>1, <1>2, <1>4, <2>2
<1>7. PICK t : t = front \o back
  OBVIOUS
<1>8. t = Sto!RemoveAt(s, i)
  BY <1>3, <1>4, <1>7 DEF Sto!RemoveAt
<1>9. /\ t \in Seq(Addresses) /\ Len(t) = n - 1
      /\ \A j \in 1..n - 1 : t[j] = IF j < i THEN s[j] ELSE s[j + 1]
  <2>1. t \in Seq(Addresses) /\ Len(t) = Len(front) + Len(back)
    BY <1>5, <1>6, <1>7, ConcatProperties
  <2>2. \A j \in 1..Len(front) : t[j] = front[j]
    BY <1>5, <1>6, <1>7
  <2>3. \A j \in 1..Len(back) : t[Len(front) + j] = back[j]
    BY SMTT(30), <1>5, <1>6, <1>7
  <2>4. ASSUME NEW j \in 1..n - 1 PROVE t[j] = IF j < i THEN s[j] ELSE s[j + 1]
    <3>1. CASE j < i
      BY <1>1, <1>5, <2>2, <3>1
    <3>2. CASE ~(j < i)
      <4>1. j - (i - 1) \in 1..n - i /\ j = (i - 1) + (j - (i - 1)) /\ i + (j - (i - 1)) = j + 1
        BY <1>1, <1>2, <3>2
      <4>2. t[(i - 1) + (j - (i - 1))] = back[j - (i - 1)] /\ back[j - (i - 1)] = s[i + (j - (i - 1))]
        BY <1>5, <1>6, <2>3, <4>1
      <4> QED
        BY <3>2, <4>1, <4>2
    <3> QED
      BY <3>1, <3>2
  <2>5. Len(t) = n - 1
    BY <1>1, <1>2, <1>5, <1>6, <2>1
  <2> QED
    BY <2>1, <2>4, <2>5
<1>10. DOMAIN t = 1..n - 1 /\ DOMAIN s = 1..n /\ i \in 1..n
  BY <1>1, <1>2, <1>9, LenProperties
<1>11. \A j, k \in 1..n : s[j] = s[k] => j = k
  BY <1>10 DEF Sto!IsInjective
<1>12. Sto!IsInjective(t)
  <2>1. \A j, k \in 1..n - 1 : t[j] = t[k] => j = k
    <3> SUFFICES ASSUME NEW j \in 1..n - 1, NEW k \in 1..n - 1, t[j] = t[k] PROVE j = k
      OBVIOUS
    <3>1. j \in 1..n /\ k \in 1..n /\ j + 1 \in 1..n /\ k + 1 \in 1..n
      OBVIOUS
    <3>2. t[j] = (IF j < i THEN s[j] ELSE s[j + 1]) /\ t[k] = (IF k < i THEN s[k] ELSE s[k + 1])
      BY <1>9
    <3>3. CASE j < i /\ k < i
      BY <1>11, <3>1, <3>2, <3>3
    <3>4. CASE j < i /\ ~(k < i)
      <4>1. s[j] = s[k + 1]
        BY <3>2, <3>4
      <4>2. j = k + 1
        BY <1>11, <3>1, <4>1
      <4> QED
        BY <1>10, <3>4, <4>2
    <3>5. CASE ~(j < i) /\ k < i
      <4>1. s[j + 1] = s[k]
        BY <3>2, <3>5
      <4>2. j + 1 = k
        BY <1>11, <3>1, <4>1
      <4> QED
        BY <1>10, <3>5, <4>2
    <3>6. CASE ~(j < i) /\ ~(k < i)
      <4>1. s[j + 1] = s[k + 1]
        BY <3>2, <3>6
      <4>2. j + 1 = k + 1
        BY <1>11, <3>1, <4>1
      <4> QED
        BY <4>2
    <3> QED
      BY <3>3, <3>4, <3>5, <3>6
  <2> QED
    BY <1>10, <2>1 DEF Sto!IsInjective
<1>13. ASSUME NEW j \in 1..n - 1 PROVE t[j] \in {s[k] : k \in 1..n} \ {s[i]}
  <2>1. CASE j < i
    <3>1. t[j] = s[j] /\ j \in 1..n /\ j # i
      BY <1>9, <1>10, <2>1
    <3> QED
      BY <1>10, <1>11, <3>1
  <2>2. CASE ~(j < i)
    <3>1. t[j] = s[j + 1] /\ j + 1 \in 1..n /\ j + 1 # i
      BY <1>9, <1>10, <2>2
    <3> QED
      BY <1>10, <1>11, <3>1
  <2> QED
    BY <2>1, <2>2
<1>14. ASSUME NEW j \in 1..n, s[j] # s[i] PROVE \E k \in 1..n - 1 : t[k] = s[j]
  <2>1. CASE j < i
    <3>1. j \in 1..n - 1 /\ t[j] = s[j]
      BY <1>9, <1>10, <2>1
    <3> QED
      BY <3>1
  <2>2. CASE j > i
    <3>1. j - 1 \in 1..n - 1 /\ ~(j - 1 < i) /\ (j - 1) + 1 = j
      BY <1>10, <2>2
    <3>2. t[j - 1] = s[(j - 1) + 1]
      BY <1>9, <3>1
    <3> QED
      BY <3>1, <3>2
  <2> QED
    BY <1>10, <1>14, <2>1, <2>2
<1>15. Sto!Range(t) = Sto!Range(s) \ {s[i]}
  <2>1. Sto!Range(t) = {t[k] : k \in 1..n - 1} /\ Sto!Range(s) = {s[k] : k \in 1..n}
    BY <1>10 DEF Sto!Range
  <2> QED
    BY <1>13, <1>14, <2>1
<1> QED
  BY <1>8, <1>9, <1>12, <1>15

\* What comes behind the first done of a sequence.
LEMMA RestIsAllBut ==
    ASSUME NEW s \in Seq(Addresses), NEW done \in 0..Len(s), Sto!IsInjective(s)
    PROVE  /\ SubSeq(s, done + 1, Len(s)) \in Seq(Addresses) /\ Sto!IsInjective(SubSeq(s, done + 1, Len(s)))
           /\ Sto!Range(SubSeq(s, done + 1, Len(s))) = Sto!Range(s) \ Sto!Range(SubSeq(s, 1, done))
           /\ Sto!Range(SubSeq(s, 1, done)) \subseteq Sto!Range(s)
           /\ done = Len(s) => SubSeq(s, done + 1, Len(s)) = <<>>
<1>1. Len(s) \in Nat /\ DOMAIN s = 1..Len(s) /\ \A j \in 1..Len(s) : s[j] \in Addresses
  BY LenProperties, ElementOfSeq
<1>2. PICK n \in Nat : n = Len(s)
  BY <1>1
<1>3. PICK front : front = SubSeq(s, 1, done)
  OBVIOUS
<1>4. PICK back : back = SubSeq(s, done + 1, Len(s))
  OBVIOUS
<1>5. front \in Seq(Addresses) /\ Len(front) = done /\ \A j \in 1..done : front[j] = s[j]
  <2>1. done \in Int /\ 1 \in Int /\ \A j \in 1..done : s[j] \in Addresses
    BY <1>1
  <2>2. /\ SubSeq(s, 1, done) \in Seq(Addresses)
        /\ Len(SubSeq(s, 1, done)) = IF 1 <= done THEN done - 1 + 1 ELSE 0
        /\ \A j \in 1..(done - 1 + 1) : SubSeq(s, 1, done)[j] = s[1 + j - 1]
    BY <2>1, SubSeqProperties
  <2> QED
    BY <1>1, <1>3, <2>2
<1>6. back \in Seq(Addresses) /\ Len(back) = n - done /\ \A j \in 1..n - done : back[j] = s[done + j]
  <2>1. done + 1 \in Int /\ Len(s) \in Int /\ \A j \in (done + 1)..Len(s) : s[j] \in Addresses
    BY <1>1
  <2>2. /\ SubSeq(s, done + 1, Len(s)) \in Seq(Addresses)
        /\ Len(SubSeq(s, done + 1, Len(s))) = IF done + 1 <= Len(s) THEN Len(s) - (done + 1) + 1 ELSE 0
        /\ \A j \in 1..(Len(s) - (done + 1) + 1) : SubSeq(s, done + 1, Len(s))[j] = s[done + 1 + j - 1]
    BY <2>1, SubSeqProperties
  <2>3. /\ back \in Seq(Addresses) /\ Len(back) = IF done + 1 <= n THEN n - (done + 1) + 1 ELSE 0
        /\ \A j \in 1..(n - (done + 1) + 1) : back[j] = s[done + 1 + j - 1]
    BY <1>2, <1>4, <2>2
  <2>4. n - (done + 1) + 1 = n - done /\ done \in 0..n /\ \A j \in Nat : done + 1 + j - 1 = done + j
    BY <1>2
  <2>5. Len(back) = n - done
    BY <2>3, <2>4
  <2>6. \A j \in 1..n - done : back[j] = s[done + j]
    BY <2>3, <2>4
  <2> QED
    BY <2>3, <2>5, <2>6
<1>7. DOMAIN front = 1..done /\ DOMAIN back = 1..n - done /\ DOMAIN s = 1..n /\ done \in 0..n
  BY <1>1, <1>2, <1>5, <1>6, LenProperties
<1>8. \A j, k \in 1..n : s[j] = s[k] => j = k
  BY <1>7 DEF Sto!IsInjective
<1>9. Sto!IsInjective(back)
  <2>1. ASSUME NEW j \in 1..n - done, NEW k \in 1..n - done, back[j] = back[k] PROVE j = k
    <3>1. done + j \in 1..n /\ done + k \in 1..n
      BY <1>7
    <3>2. s[done + j] = s[done + k]
      BY <1>6, <2>1
    <3>3. done + j = done + k
      BY <1>8, <3>1, <3>2
    <3> QED
      BY <1>7, <3>3
  <2> QED
    BY <1>7, <2>1 DEF Sto!IsInjective
<1>10. ASSUME NEW j \in 1..n - done PROVE back[j] \in {s[k] : k \in 1..n} \ {s[k] : k \in 1..done}
  <2>1. done + j \in 1..n /\ back[j] = s[done + j] /\ done + j \notin 1..done
    BY <1>6, <1>7
  <2>2. ASSUME NEW k \in 1..done PROVE s[k] # s[done + j]
    <3>1. k \in 1..n
      BY <1>7
    <3> QED
      BY <1>8, <2>1, <3>1
  <2> QED
    BY <2>1, <2>2
<1>11. ASSUME NEW j \in 1..n, s[j] \notin {s[k] : k \in 1..done} PROVE s[j] \in {back[k] : k \in 1..n - done}
  <2>1. j \notin 1..done
    BY <1>11
  <2>2. j - done \in 1..n - done /\ done + (j - done) = j
    BY <1>7, <2>1
  <2>3. back[j - done] = s[done + (j - done)]
    BY <1>6, <2>2
  <2> QED
    BY <2>2, <2>3
<1>12. /\ Sto!Range(back) = {back[k] : k \in 1..n - done} /\ Sto!Range(s) = {s[k] : k \in 1..n}
       /\ Sto!Range(front) = {s[k] : k \in 1..done}
  <2>1. {front[k] : k \in 1..done} = {s[k] : k \in 1..done}
    BY <1>5
  <2> QED
    BY <1>7, <2>1 DEF Sto!Range
<1>13. Sto!Range(back) = Sto!Range(s) \ Sto!Range(front)
  BY <1>10, <1>11, <1>12
<1>14. Sto!Range(front) \subseteq Sto!Range(s)
  <2>1. 1..done \subseteq 1..n
    BY <1>7
  <2> QED
    BY <1>12, <2>1
<1>15. ASSUME done = n PROVE back = <<>>
  BY <1>6, <1>15, EmptySeq
<1> QED
  BY <1>2, <1>3, <1>4, <1>6, <1>9, <1>13, <1>14, <1>15

\* Every step of the views leads to what the invariant says.
LEMMA CreateKeeps ==
    ASSUME StorageInv, NEW m \in DOMAIN Mappings, NEW length, Sto!Create(m, length)
    PROVE  StorageInv'
<1>1. PICK a \in Addresses :
          /\ space[a] = "nobody" /\ ~mapping[m].closed
          /\ space' = [space EXCEPT ![a] = m]
          /\ mapping' = [mapping EXCEPT ![m].views = Append(@, a)]
          /\ UNCHANGED <<size, transfer>>
  BY DEF Sto!Create, Sto!Free
<1>2. PICK s : s = Sto!Views(m)
  OBVIOUS
<1>3. s \in Seq(Addresses) /\ Sto!IsInjective(s) /\ Sto!Range(s) = {x \in Addresses : space[x] = m}
  BY <1>2 DEF StorageInv, MappingTypes, Sto!ViewsAreMapped, Sto!Views
<1>4. PICK t : t = Append(s, a)
  OBVIOUS
<1>5. /\ t \in Seq(Addresses) /\ DOMAIN t = 1..Len(s) + 1 /\ DOMAIN s = 1..Len(s) /\ Len(s) \in Nat
      /\ t[Len(s) + 1] = a /\ \A i \in 1..Len(s) : t[i] = s[i]
  BY <1>3, <1>4
<1>6. space[a] = "nobody" /\ m # "nobody" /\ a \notin Sto!Range(s)
  BY <1>1, <1>3, ObjectsAssumption DEF Sto!Free
<1>7. Sto!Range(t) = Sto!Range(s) \cup {a}
  BY <1>5 DEF Sto!Range
<1>8. Sto!IsInjective(t)
  <2>1. \A i \in 1..Len(s) : s[i] # a
    BY <1>5, <1>6 DEF Sto!Range
  <2>2. \A i \in DOMAIN t : i \in 1..Len(s) \/ i = Len(s) + 1
    BY <1>5
  <2>3. \A i, k \in 1..Len(s) : s[i] = s[k] => i = k
    BY <1>3, <1>5 DEF Sto!IsInjective
  <2> QED
    BY <1>5, <2>1, <2>2, <2>3 DEF Sto!IsInjective
<1>9. /\ space'[a] = m
      /\ \A x \in Addresses \ {a} : space'[x] = space[x]
  BY <1>1 DEF StorageInv, SpaceTypes
<1>10. SpaceTypes'
  BY <1>1, <1>9 DEF StorageInv, SpaceTypes
<1>11. mapping'[m] = [views |-> t, closed |-> FALSE] /\ \A o \in DOMAIN Mappings \ {m} : mapping'[o] = mapping[o]
  BY <1>1, <1>2, <1>4 DEF StorageInv, MappingTypes, Sto!Views
<1>12. MappingTypes'
  BY <1>1, <1>5, <1>11 DEF StorageInv, MappingTypes
<1>13. Sto!ViewsAreMapped'
  <2>1. /\ Sto!IsInjective(t) /\ Sto!Range(t) = {x \in Addresses : space'[x] = m}
    BY <1>3, <1>7, <1>8, <1>9
  <2>2. ASSUME NEW o \in DOMAIN Mappings \ {m}
        PROVE  {x \in Addresses : space'[x] = o} = {x \in Addresses : space[x] = o}
    BY <1>6, <1>9, ObjectsAssumption
  <2> QED
    BY <1>11, <2>1, <2>2 DEF StorageInv, Sto!ViewsAreMapped, Sto!Views
<1>14. /\ size' \in Nat /\ transfer'.pos \in Nat
       /\ Sto!TransfersInOrder'
  BY <1>1 DEF StorageInv, Sto!TransfersInOrder
<1> QED
  BY <1>10, <1>12, <1>13, <1>14 DEF StorageInv

LEMMA UnmapKeeps ==
    ASSUME StorageInv, NEW m \in DOMAIN Mappings, NEW a \in Addresses, Sto!Unmap(m, a)
    PROVE  StorageInv'
<1>2. PICK s : s = Sto!Views(m)
  OBVIOUS
<1>3. s \in Seq(Addresses) /\ Sto!IsInjective(s) /\ Sto!Range(s) = {x \in Addresses : space[x] = m}
  BY <1>2 DEF StorageInv, MappingTypes, Sto!ViewsAreMapped, Sto!Views
<1>4. PICK k \in DOMAIN s : s[k] = a /\ Sto!Erased(m, a) = Sto!RemoveAt(s, k)
  <2>1. \E i \in DOMAIN s : s[i] = a
    BY <1>2 DEF Sto!Unmap, Sto!Range
  <2>2. PICK i : i = CHOOSE j \in DOMAIN s : s[j] = a
    OBVIOUS
  <2>3. i \in DOMAIN s /\ s[i] = a
    BY <2>1, <2>2
  <2> QED
    BY <1>2, <2>2, <2>3 DEF Sto!Erased
<1>5. PICK t : t = Sto!RemoveAt(s, k)
  OBVIOUS
<1>6. t \in Seq(Addresses) /\ Sto!IsInjective(t) /\ Sto!Range(t) = Sto!Range(s) \ {a}
  BY <1>3, <1>4, <1>5, ErasedIsAllBut
<1>7. space[a] = m /\ mapping[m].closed = FALSE
  <2>1. a \in Sto!Range(s)
    BY <1>2 DEF Sto!Unmap
  <2>2. s # <<>>
    BY <2>1 DEF Sto!Range
  <2>3. mapping[m].closed \in BOOLEAN /\ (mapping[m].closed => s = <<>>)
    BY <1>2 DEF StorageInv, MappingTypes, Sto!ViewsAreMapped
  <2> QED
    BY <1>3, <2>1, <2>2, <2>3
<1>8. /\ space'[a] = "nobody" /\ \A x \in Addresses \ {a} : space'[x] = space[x]
      /\ DOMAIN space' = Addresses
  BY DEF StorageInv, SpaceTypes, Sto!Unmap, Sto!Free
<1>9. SpaceTypes'
  <2>1. space' = [space EXCEPT ![a] = "nobody"]
    BY DEF Sto!Unmap, Sto!Free
  <2> QED
    BY <2>1 DEF StorageInv, SpaceTypes
<1>10. /\ mapping'[m] = [views |-> t, closed |-> FALSE] /\ DOMAIN mapping' = DOMAIN Mappings
       /\ \A o \in DOMAIN Mappings \ {m} : mapping'[o] = mapping[o]
  BY <1>4, <1>5, <1>7 DEF StorageInv, MappingTypes, Sto!Unmap
<1>11. MappingTypes'
  <2>1. mapping'[m] \in [views : Seq(Addresses), closed : BOOLEAN]
    BY <1>6, <1>10
  <2> QED
    BY <1>10, <2>1 DEF StorageInv, MappingTypes
<1>12. Sto!ViewsAreMapped'
  <2>1. Sto!Range(t) = {x \in Addresses : space'[x] = m}
    BY <1>3, <1>6, <1>8, ObjectsAssumption
  <2>2. ASSUME NEW o \in DOMAIN Mappings \ {m}
        PROVE  {x \in Addresses : space'[x] = o} = {x \in Addresses : space[x] = o}
    BY <1>7, <1>8, ObjectsAssumption
  <2> QED
    BY <1>6, <1>10, <2>1, <2>2 DEF StorageInv, Sto!ViewsAreMapped, Sto!Views
<1>13. /\ size' \in Nat /\ transfer'.pos \in Nat
       /\ Sto!TransfersInOrder'
  BY DEF StorageInv, Sto!TransfersInOrder, Sto!Unmap
<1> QED
  BY <1>9, <1>11, <1>12, <1>13 DEF StorageInv

LEMMA UnmapAllKeeps ==
    ASSUME StorageInv, NEW m \in DOMAIN Mappings, NEW done \in 0..Len(Sto!Views(m)), NEW close \in BOOLEAN,
           Sto!UnmapAll(m, done, close)
    PROVE  StorageInv'
<1>1. PICK s : s = Sto!Views(m)
  OBVIOUS
<1>2. s \in Seq(Addresses) /\ Sto!IsInjective(s) /\ Sto!Range(s) = {x \in Addresses : space[x] = m}
  BY <1>1 DEF StorageInv, MappingTypes, Sto!ViewsAreMapped, Sto!Views
<1>3. PICK t : t = SubSeq(s, done + 1, Len(s))
  OBVIOUS
<1>4. PICK gone : gone = Sto!Range(SubSeq(s, 1, done))
  OBVIOUS
<1>5. /\ t \in Seq(Addresses) /\ Sto!IsInjective(t) /\ Sto!Range(t) = Sto!Range(s) \ gone
      /\ gone \subseteq Sto!Range(s) /\ (done = Len(s) => t = <<>>)
  <2>1. done \in 0..Len(s)
    BY <1>1
  <2> QED
    BY <1>2, <1>3, <1>4, <2>1, RestIsAllBut
<1>6. /\ \A x \in gone : x \in Addresses /\ space[x] = m
      /\ \A x \in Addresses : space'[x] = IF x \in gone THEN "nobody" ELSE space[x]
      /\ DOMAIN space' = Addresses
  BY <1>1, <1>2, <1>4, <1>5 DEF Sto!UnmapAll, Sto!Free
<1>7. SpaceTypes'
  <2>1. space' = [x \in Addresses |-> IF x \in gone THEN "nobody" ELSE space[x]]
    BY <1>1, <1>4 DEF Sto!UnmapAll, Sto!Free
  <2> QED
    BY <2>1 DEF StorageInv, SpaceTypes
<1>8. /\ mapping'[m] = [views |-> t, closed |-> (close /\ done = Len(s))] /\ DOMAIN mapping' = DOMAIN Mappings
      /\ \A o \in DOMAIN Mappings \ {m} : mapping'[o] = mapping[o]
  BY <1>1, <1>3 DEF StorageInv, MappingTypes, Sto!UnmapAll, Sto!Views
<1>9. MappingTypes'
  <2>1. mapping'[m] \in [views : Seq(Addresses), closed : BOOLEAN]
    BY <1>5, <1>8
  <2> QED
    BY <1>8, <2>1 DEF StorageInv, MappingTypes
<1>10. Sto!ViewsAreMapped'
  <2>1. Sto!Range(t) = {x \in Addresses : space'[x] = m}
    BY <1>2, <1>5, <1>6, ObjectsAssumption
  <2>2. ASSUME NEW o \in DOMAIN Mappings \ {m}
        PROVE  {x \in Addresses : space'[x] = o} = {x \in Addresses : space[x] = o}
    BY <1>6, ObjectsAssumption
  <2>3. mapping'[m].closed => t = <<>>
    <3>1. PICK shut : shut = (close /\ done = Len(s))
      OBVIOUS
    <3>2. mapping'[m].closed = shut
      BY <1>8, <3>1
    <3> QED
      BY <1>5, <3>1, <3>2
  <2> QED
    BY <1>5, <1>8, <2>1, <2>2, <2>3 DEF StorageInv, Sto!ViewsAreMapped, Sto!Views
<1>11. /\ size' \in Nat /\ transfer'.pos \in Nat
       /\ Sto!TransfersInOrder'
  BY DEF StorageInv, Sto!TransfersInOrder, Sto!UnmapAll
<1> QED
  BY <1>7, <1>9, <1>10, <1>11 DEF StorageInv

\* Nothing is mapped or unmapped, or only by others.
LEMMA SameViews ==
    ASSUME StorageInv, SpaceTypes', UNCHANGED <<size, mapping, transfer>>,
           \A a \in Addresses, m \in DOMAIN Mappings : space'[a] = m <=> space[a] = m
    PROVE  StorageInv'
<1>1. \A m \in DOMAIN Mappings : {x \in Addresses : space'[x] = m} = {x \in Addresses : space[x] = m}
  OBVIOUS
<1>2. Sto!ViewsAreMapped'
  BY <1>1 DEF StorageInv, Sto!ViewsAreMapped, Sto!Views
<1> QED
  BY <1>2 DEF StorageInv, MappingTypes, Sto!TransfersInOrder

LEMMA FilesKeep == ASSUME StorageInv, Sto!StorageNext PROVE StorageInv'
<1>0. 0..MaxLength \subseteq Nat
  BY ObjectsAssumption
<1>1. ASSUME NEW n \in 0..MaxLength, Sto!Resize(n) PROVE StorageInv'
  BY <1>0, <1>1, SizeStep DEF Sto!Resize
<1>2. ASSUME NEW n \in 0..MaxLength, NEW length \in 1..MaxLength, Sto!Transfer(length, n) PROVE StorageInv'
  BY <1>0, <1>2, TransferStep DEF Sto!Transfer
<1>3. ASSUME NEW m \in DOMAIN Mappings, Sto!MapAll(m) PROVE StorageInv'
  BY <1>3, CreateKeeps DEF Sto!MapAll
<1>4. ASSUME NEW m \in DOMAIN Mappings, NEW length \in 1..MaxLength, Sto!MapPart(m, length) PROVE StorageInv'
  BY <1>4, CreateKeeps DEF Sto!MapPart
<1>5. ASSUME NEW m \in DOMAIN Mappings, NEW a \in Addresses, Sto!Unmap(m, a) PROVE StorageInv'
  BY <1>5, UnmapKeeps
<1>6. ASSUME NEW m \in DOMAIN Mappings, NEW done \in 0..Len(Sto!Views(m)), NEW close \in BOOLEAN,
             Sto!UnmapAll(m, done, close)
      PROVE  StorageInv'
  BY <1>6, UnmapAllKeeps
<1>7. ASSUME NEW a \in Addresses, Sto!TheyMap(a) PROVE StorageInv'
  <2>1. /\ space[a] \in {"nobody", "others"} /\ space'[a] \in {"nobody", "others"}
        /\ \A x \in Addresses \ {a} : space'[x] = space[x]
        /\ space' \in [Addresses -> DOMAIN Mappings \cup {"nobody", "others"}]
    BY <1>7 DEF StorageInv, SpaceTypes, Sto!TheyMap, Sto!Free, Sto!Other
  <2>2. SpaceTypes'
    BY <2>1 DEF SpaceTypes
  <2>3. \A x \in Addresses, m \in DOMAIN Mappings : space'[x] = m <=> space[x] = m
    BY <2>1, ObjectsAssumption
  <2>4. UNCHANGED <<size, mapping, transfer>>
    BY <1>7 DEF Sto!TheyMap
  <2> QED
    BY <2>2, <2>3, <2>4, SameViews
<1> QED
  BY <1>1, <1>2, <1>3, <1>4, <1>5, <1>6, <1>7 DEF Sto!StorageNext

\* What a step of the program is for its files.
LEMMA StorageStep ==
    ASSUME [Next /\ UNCHANGED kind]_vars
    PROVE  Sto!StorageNext \/ UNCHANGED storageVars
BY DEF Next, vars, fileVars

\* A FileMapping knows its views, and a transfer stands where its copies end,
\* through every call of FileMapping and transfer (FileMapping.cpp,
\* IOChannelTransfer.cpp).
THEOREM StorageCorrect == Spec => []StorageInv
<1>1. Init => StorageInv
  BY StorageInitKeeps DEF Init
<1>2. StorageInv /\ [Next /\ UNCHANGED kind]_vars => StorageInv'
  <2> SUFFICES ASSUME StorageInv, [Next /\ UNCHANGED kind]_vars PROVE StorageInv'
    OBVIOUS
  <2>1. CASE UNCHANGED storageVars
    <3>1. space' = space /\ mapping' = mapping /\ transfer' = transfer /\ size' \in Nat
      BY <2>1 DEF storageVars, StorageInv
    <3> QED
      BY <3>1, SizeStep
  <2> QED
    BY <2>1, StorageStep, FilesKeep
<1> QED
  BY <1>1, <1>2, PTL DEF Spec

-----------------------------------------------------------------------------
(* Temporary files: what programs made and how they look for names.        *)

\* How far it is from letters x on to letters r, all around for the same.
Forward(x, r) == IF r > x THEN r - x ELSE r - x + Letters

\* What is known of a call: the names it tried lie behind the next, one
\* increment of the clock at least and all the increments it made at most.
TempCall ==
    [pc : {"idle", "try", "done", "failed", "exists"}, mode : {"none", "file", "dir", "name"},
     randnum : Tmp!Codes, step : Steps \cup {0}, tries : Nat, tried : SUBSET Tmp!Codes]

Attempt(c) ==
    /\ c \in TempCall /\ IsFiniteSet(c.tried)
    /\ c.pc = "try" => c.tries < TMP_MAX
    /\ c.pc = "exists" => c.tries = TMP_MAX
    /\ c.step # 0 =>
           /\ Cardinality(c.tried) = c.tries
           /\ \A x \in c.tried : c.step <= Forward(x, c.randnum) /\ Forward(x, c.randnum) <= c.tries * c.step

TempInv ==
    /\ DOMAIN temps = Tmp!Codes /\ DOMAIN maker = Makers
    /\ \A m \in Makers : Attempt(maker[m])
    /\ Tmp!MadeIsOwn

LEMMA SameCount == ASSUME NEW S PROVE Tmp!Cardinality(S) = Cardinality(S)
  BY DEF Tmp!Cardinality, Cardinality

LEMMA AroundOnce ==
    ASSUME NEW l \in Nat \ {0}, NEW r \in 0..l - 1, NEW s \in 0..l
    PROVE  (r + s) % l = IF r + s < l THEN r + s ELSE r + s - l
<1>1. CASE r + s < l
  BY <1>1
<1>2. CASE ~(r + s < l)
  <2>1. PICK a : a = r + s - l
    OBVIOUS
  <2>2. a \in 0..l - 1 /\ r + s = a + l
    BY <1>2, <2>1
  <2>3. (a + l) % l = a
    BY <2>2
  <2> QED
    BY <1>2, <2>1, <2>2, <2>3
<1> QED
  BY <1>1, <1>2

LEMMA TriesGrow ==
    ASSUME NEW k \in Nat, NEW s \in Steps, k < TMP_MAX
    PROVE  /\ k * s \in Nat /\ (k + 1) * s = k * s + s /\ k * s + s <= Letters
           /\ s \in Nat /\ Letters \in Nat \ {0}
<1>1. s \in Nat /\ TMP_MAX \in Nat /\ Letters \in Nat \ {0} /\ TMP_MAX * s <= Letters
  BY ObjectsAssumption
<1>2. PICK d \in Nat : TMP_MAX = k + 1 + d
  <2>1. TMP_MAX - (k + 1) \in Nat /\ TMP_MAX = k + 1 + (TMP_MAX - (k + 1))
    BY <1>1
  <2> QED
    BY <2>1
<1>3. \A a, b, e \in Nat : (a + b) * e = a * e + b * e /\ a * e \in Nat
  OBVIOUS
<1>4. (k + 1 + d) * s = (k + 1) * s + d * s /\ (k + 1) * s = k * s + 1 * s /\ d * s \in Nat /\ k * s \in Nat
  BY <1>1, <1>3
<1>5. (k + 1 + d) * s <= Letters /\ 1 * s = s
  BY <1>1, <1>2
<1> QED
  BY <1>1, <1>4, <1>5

LEMMA AnotherAttempt ==
    ASSUME NEW c, Attempt(c), c.pc = "try"
    PROVE  Attempt(Tmp!Another(c))
<1>1. PICK d : d = Tmp!Another(c)
  OBVIOUS
<1>2. c \in TempCall /\ c.tries < TMP_MAX /\ TMP_MAX \in Nat /\ Letters \in Nat \ {0} /\ IsFiniteSet(c.tried)
  BY ObjectsAssumption DEF Attempt
<1>3. /\ c.randnum \in 0..Letters - 1 /\ c.step \in Steps \cup {0} /\ c.step \in Nat /\ c.tries \in Nat
      /\ c.tried \in SUBSET (0..Letters - 1)
  <2>1. \A s \in Steps \cup {0} : s \in Nat
    <3>1. Steps \subseteq Nat /\ 0 \in Nat
      BY ObjectsAssumption
    <3> QED
      BY <3>1
  <2>2. c.randnum \in Tmp!Codes /\ c.step \in Steps \cup {0} /\ c.tries \in Nat /\ c.tried \in SUBSET Tmp!Codes
    BY <1>2 DEF TempCall
  <2>3. c.step \in Nat
    BY <2>1, <2>2
  <2> QED
    BY <2>2, <2>3 DEF Tmp!Codes
<1>4. /\ d.mode = c.mode /\ d.step = c.step /\ d.tries = c.tries + 1 /\ d.tried = c.tried \cup {c.randnum}
      /\ d.randnum = (c.randnum + c.step) % Letters
      /\ d.pc = IF c.tries + 1 = TMP_MAX THEN "exists" ELSE "try"
      /\ d = [pc |-> d.pc, mode |-> d.mode, randnum |-> d.randnum, step |-> d.step, tries |-> d.tries, tried |-> d.tried]
  BY <1>1, <1>2 DEF Tmp!Another, TempCall
<1>5. d.randnum \in 0..Letters - 1
  BY <1>2, <1>3, <1>4
<1>6. d \in TempCall
  BY <1>2, <1>3, <1>4, <1>5 DEF TempCall, Tmp!Codes
<1>7. IsFiniteSet(d.tried)
  BY <1>2, <1>4, FS_AddElement
<1>8. (d.pc = "try" => d.tries < TMP_MAX) /\ (d.pc = "exists" => d.tries = TMP_MAX)
  BY <1>2, <1>3, <1>4
<1>9. ASSUME d.step # 0
      PROVE  /\ Cardinality(d.tried) = d.tries
             /\ \A x \in d.tried : d.step <= Forward(x, d.randnum) /\ Forward(x, d.randnum) <= d.tries * d.step
  <2>1. PICK s, k, w, r : s = c.step /\ k = c.tries /\ w = k * s /\ r = c.randnum
    OBVIOUS
  <2>2. s \in Steps /\ s \in Nat \ {0} /\ k \in Nat /\ k < TMP_MAX /\ r \in 0..Letters - 1
    BY <1>2, <1>3, <1>4, <1>9, <2>1
  <2>3. w \in Nat /\ (k + 1) * s = w + s /\ w + s <= Letters /\ s \in 0..Letters
    BY <2>1, <2>2, TriesGrow
  <2>4. d.randnum = IF r + s < Letters THEN r + s ELSE r + s - Letters
    BY <1>2, <1>4, <2>1, <2>2, <2>3, AroundOnce
  <2>5. Cardinality(c.tried) = k /\ \A x \in c.tried : s <= Forward(x, r) /\ Forward(x, r) <= w
    BY <1>4, <1>9, <2>1 DEF Attempt
  <2>6. r \notin c.tried
    <3>1. Forward(r, r) = Letters
      BY <1>2, <2>2 DEF Forward
    <3> QED
      BY <1>2, <2>2, <2>3, <2>5, <3>1
  <2>7. Cardinality(d.tried) = k + 1
    BY <1>2, <1>4, <2>1, <2>5, <2>6, FS_AddElement
  <2>8. Forward(r, d.randnum) = s
    BY <1>2, <2>2, <2>3, <2>4 DEF Forward
  <2>9. ASSUME NEW x \in c.tried
        PROVE  Forward(x, d.randnum) = Forward(x, r) + s
    <3>1. x \in 0..Letters - 1 /\ Forward(x, r) + s <= Letters /\ s <= Forward(x, r)
      BY <1>2, <1>3, <2>2, <2>3, <2>5 DEF Forward
    <3> QED
      BY <1>2, <2>2, <2>4, <3>1 DEF Forward
  <2>10. ASSUME NEW x \in d.tried PROVE s <= Forward(x, d.randnum) /\ Forward(x, d.randnum) <= w + s
    <3>1. CASE x = r
      BY <2>2, <2>3, <2>8, <3>1
    <3>2. CASE x \in c.tried
      <4>1. Forward(x, r) \in Int
        BY <1>2, <1>3, <2>2, <3>2 DEF Forward
      <4> QED
        BY <2>2, <2>3, <2>5, <2>9, <3>2, <4>1
    <3> QED
      BY <1>4, <2>1, <3>1, <3>2
  <2> QED
    BY <1>4, <2>1, <2>3, <2>7, <2>10
<1> QED
  BY <1>1, <1>6, <1>7, <1>8, <1>9 DEF Attempt

\* A call that only comes to its end.
LEMMA EndedAttempt ==
    ASSUME NEW c, Attempt(c), NEW pc \in {"done", "failed"}
    PROVE  Attempt([c EXCEPT !.pc = pc])
<1>1. PICK d : d = [c EXCEPT !.pc = pc]
  OBVIOUS
<1>2. /\ d.pc = pc /\ d.mode = c.mode /\ d.randnum = c.randnum /\ d.step = c.step /\ d.tries = c.tries
      /\ d.tried = c.tried /\ d \in TempCall
  BY <1>1 DEF Attempt, TempCall
<1>3. Attempt(d)
  BY <1>2 DEF Attempt
<1> QED
  BY <1>1, <1>3

LEMMA FreshAttempt ==
    ASSUME NEW c, c.pc \in {"idle", "try"}, c.tries = 0, c.tried = {}, c \in TempCall
    PROVE  Attempt(c)
<1>1. 0 < TMP_MAX
  BY ObjectsAssumption
<1>2. IsFiniteSet({}) /\ Cardinality({}) = 0
  BY FS_EmptySet
<1> QED
  BY <1>1, <1>2 DEF Attempt

\* A step changes one call, and of what is there only what was free or the
\* maker's own.
LEMMA MakerStep ==
    ASSUME TempInv, NEW m \in Makers, NEW c, Attempt(c),
           maker' = [maker EXCEPT ![m] = c], DOMAIN temps' = Tmp!Codes,
           \A n \in Tmp!Codes : temps'[n] # temps[n] => temps[n] \in {"free", m},
           c.pc = "done" /\ c.mode # "name" => temps'[c.randnum] = m
    PROVE  TempInv'
<1>1. maker'[m] = c /\ DOMAIN maker' = Makers /\ \A o \in Makers \ {m} : maker'[o] = maker[o]
  BY DEF TempInv
<1>2. \A o \in Makers : Attempt(maker'[o])
  BY <1>1 DEF TempInv
<1>3. Tmp!MadeIsOwn'
  <2> SUFFICES ASSUME NEW o \in Makers, maker'[o].pc = "done", maker'[o].mode # "name"
               PROVE  temps'[maker'[o].randnum] = o
    BY DEF Tmp!MadeIsOwn
  <2>1. CASE o = m
    BY <1>1, <2>1
  <2>2. CASE o # m
    <3>1. temps[maker[o].randnum] = o /\ maker[o].randnum \in Tmp!Codes /\ maker'[o] = maker[o]
      BY <1>1, <2>2 DEF TempInv, Tmp!MadeIsOwn, Attempt, TempCall
    <3>2. o \notin {"free", m}
      BY <2>2, ObjectsAssumption
    <3> QED
      BY <3>1, <3>2
  <2> QED
    BY <2>1, <2>2
<1> QED
  BY <1>1, <1>2, <1>3 DEF TempInv, Attempt

LEMMA TempInitKeeps == Tmp!TempInit => TempInv
<1> SUFFICES ASSUME Tmp!TempInit PROVE TempInv
  OBVIOUS
<1>1. 0 \in Tmp!Codes
  BY ObjectsAssumption DEF Tmp!Codes
<1>2. Tmp!Idle \in TempCall
  BY <1>1 DEF Tmp!Idle, TempCall
<1>3. Attempt(Tmp!Idle)
  BY <1>2, FreshAttempt DEF Tmp!Idle
<1>4. \A m \in Makers : maker[m] = Tmp!Idle
  BY DEF Tmp!TempInit
<1>5. Tmp!MadeIsOwn
  BY <1>4 DEF Tmp!MadeIsOwn, Tmp!Idle
<1> QED
  BY <1>3, <1>4, <1>5 DEF TempInv, Tmp!TempInit

LEMMA TempKeeps == ASSUME TempInv, Tmp!TempNext PROVE TempInv'
<1>0. DOMAIN temps = Tmp!Codes /\ DOMAIN maker = Makers
  BY DEF TempInv
<1>1. ASSUME NEW m \in Makers, Tmp!NoDirectory(m) PROVE TempInv'
  <2>1. Attempt([maker[m] EXCEPT !.pc = "failed"])
    BY EndedAttempt DEF TempInv
  <2>2. [maker[m] EXCEPT !.pc = "failed"].pc = "failed"
    BY DEF TempInv, Attempt, TempCall
  <2>3. maker' = [maker EXCEPT ![m] = [maker[m] EXCEPT !.pc = "failed"]] /\ temps' = temps
    BY <1>1 DEF Tmp!NoDirectory
  <2> QED
    BY <1>0, <2>1, <2>2, <2>3, MakerStep
<1>2. ASSUME NEW m \in Makers, Tmp!Create(m) PROVE TempInv'
  <2>1. PICK c : c = maker[m]
    OBVIOUS
  <2>2. Attempt(c) /\ c.pc = "try" /\ c.mode # "name" /\ c \in TempCall /\ c.randnum \in Tmp!Codes
    BY <1>2, <2>1 DEF TempInv, Tmp!Create, Attempt, TempCall
  <2>3. CASE /\ temps[c.randnum] = "free" /\ temps' = [temps EXCEPT ![c.randnum] = m]
             /\ maker' = [maker EXCEPT ![m].pc = "done"]
    <3>1. PICK d : d = [c EXCEPT !.pc = "done"]
      OBVIOUS
    <3>2. Attempt(d) /\ d.pc = "done" /\ d.randnum = c.randnum /\ maker' = [maker EXCEPT ![m] = d]
      BY <2>1, <2>2, <2>3, <3>1, EndedAttempt DEF TempCall
    <3>3. /\ DOMAIN temps' = Tmp!Codes /\ temps'[d.randnum] = m
          /\ \A n \in Tmp!Codes : temps'[n] # temps[n] => temps[n] \in {"free", m}
      BY <1>0, <2>2, <2>3, <3>2
    <3> QED
      BY <3>2, <3>3, MakerStep
  <2>4. CASE UNCHANGED temps /\ maker' = [maker EXCEPT ![m] = Tmp!Another(c)]
    <3>1. PICK d : d = Tmp!Another(c)
      OBVIOUS
    <3>2. Attempt(d) /\ d.pc # "done"
      BY <2>2, <3>1, AnotherAttempt DEF Tmp!Another, TempCall
    <3> QED
      BY <1>0, <2>4, <3>1, <3>2, MakerStep
  <2>5. CASE UNCHANGED temps /\ maker' = [maker EXCEPT ![m].pc = "failed"]
    <3>1. PICK d : d = [c EXCEPT !.pc = "failed"]
      OBVIOUS
    <3>2. Attempt(d) /\ d.pc = "failed" /\ maker' = [maker EXCEPT ![m] = d]
      BY <2>1, <2>2, <2>5, <3>1, EndedAttempt DEF TempCall
    <3> QED
      BY <1>0, <2>5, <3>2, MakerStep
  <2> QED
    BY <1>2, <2>1, <2>3, <2>4, <2>5 DEF Tmp!Create, Tmp!MayCreate
<1>3. ASSUME NEW m \in Makers, Tmp!Look(m) PROVE TempInv'
  <2>1. PICK c : c = maker[m]
    OBVIOUS
  <2>2. Attempt(c) /\ c.pc = "try" /\ c.mode = "name" /\ c \in TempCall /\ temps' = temps
    BY <1>3, <2>1 DEF TempInv, Tmp!Look, Attempt
  <2>3. PICK d : d = IF temps[c.randnum] = "free" THEN [c EXCEPT !.pc = "done"] ELSE Tmp!Another(c)
    OBVIOUS
  <2>4. Attempt(d) /\ d.mode = "name"
    <3>1. CASE d = [c EXCEPT !.pc = "done"]
      BY <2>2, <3>1, EndedAttempt DEF TempCall
    <3>2. CASE d = Tmp!Another(c)
      BY <2>2, <3>2, AnotherAttempt DEF Tmp!Another, TempCall
    <3> QED
      BY <2>3, <3>1, <3>2
  <2>5. maker' = [maker EXCEPT ![m] = d]
    BY <1>3, <2>1, <2>3 DEF Tmp!Look
  <2> QED
    BY <1>0, <2>2, <2>4, <2>5, MakerStep
<1>4. ASSUME NEW m \in Makers, Tmp!Finish(m) PROVE TempInv'
  <2>1. 0 \in Tmp!Codes
    BY ObjectsAssumption DEF Tmp!Codes
  <2>2. Attempt(Tmp!Idle) /\ Tmp!Idle.pc = "idle"
    BY <2>1, FreshAttempt DEF Tmp!Idle, TempCall
  <2>3. DOMAIN temps' = Tmp!Codes /\ \A n \in Tmp!Codes : temps'[n] # temps[n] => temps[n] \in {"free", m}
    BY <1>4 DEF Tmp!Finish
  <2>4. maker' = [maker EXCEPT ![m] = Tmp!Idle]
    BY <1>4 DEF Tmp!Finish
  <2> QED
    BY <2>2, <2>3, <2>4, MakerStep
<1>5. ASSUME NEW m \in Makers, NEW mode \in {"file", "dir", "name"}, NEW r \in Tmp!Codes, NEW step \in Steps,
             Tmp!Start(m, mode, r, step)
      PROVE  TempInv'
  <2>1. PICK d : d = [Tmp!Idle EXCEPT !.pc = "try", !.mode = mode, !.randnum = r, !.step = step]
    OBVIOUS
  <2>2. d \in TempCall /\ d.pc = "try" /\ d.tries = 0 /\ d.tried = {}
    BY <2>1 DEF Tmp!Idle, TempCall
  <2>3. Attempt(d)
    BY <2>2, FreshAttempt
  <2>4. maker' = [maker EXCEPT ![m] = d] /\ temps' = temps
    BY <1>5, <2>1 DEF Tmp!Start
  <2> QED
    BY <1>0, <2>2, <2>3, <2>4, MakerStep
<1>6. ASSUME NEW n \in Tmp!Codes, Tmp!OthersChange(n) PROVE TempInv'
  <2>1. /\ temps[n] \in {"free", "other"} /\ maker' = maker /\ DOMAIN temps' = Tmp!Codes
        /\ \A o \in Tmp!Codes \ {n} : temps'[o] = temps[o]
    BY <1>0, <1>6 DEF Tmp!OthersChange
  <2>2. Tmp!MadeIsOwn'
    <3> SUFFICES ASSUME NEW m \in Makers, maker[m].pc = "done", maker[m].mode # "name"
                 PROVE  temps'[maker[m].randnum] = m
      BY <2>1 DEF Tmp!MadeIsOwn
    <3>1. temps[maker[m].randnum] = m /\ maker[m].randnum \in Tmp!Codes
      BY DEF TempInv, Tmp!MadeIsOwn, Attempt, TempCall
    <3>2. m \notin {"free", "other"}
      BY ObjectsAssumption
    <3> QED
      BY <2>1, <3>1, <3>2
  <2> QED
    BY <1>0, <2>1, <2>2 DEF TempInv
<1> QED
  BY <1>1, <1>2, <1>3, <1>4, <1>5, <1>6 DEF Tmp!TempNext

\* Nobody is given a file that another made, and TMP_MAX names were in use when
\* a call gives up; views and transfers as above (UnixTempFile.cpp:140, 159,
\* FileMapping.cpp unmap, close, IOChannelTransfer.cpp:18).
THEOREM FilesHeldCorrect == Spec => []FilesHeld
<1>1. Spec => []StorageInv
  BY StorageCorrect
<1>2. Init => TempInv
  BY TempInitKeeps DEF Init
<1>3. TempInv /\ [Next /\ UNCHANGED kind]_vars => TempInv'
  <2> SUFFICES ASSUME TempInv, [Next /\ UNCHANGED kind]_vars PROVE TempInv'
    OBVIOUS
  <2>1. Tmp!TempNext \/ UNCHANGED tempVars
    BY DEF Next, vars
  <2>2. ASSUME UNCHANGED tempVars PROVE TempInv'
    BY <2>2 DEF tempVars, TempInv, Tmp!MadeIsOwn, Attempt
  <2> QED
    BY <2>1, <2>2, TempKeeps
<1>4. StorageInv /\ TempInv => FilesHeld
  <2> SUFFICES ASSUME StorageInv, TempInv PROVE FilesHeld
    OBVIOUS
  <2>1. Tmp!GivesUpLate
    BY SameCount DEF TempInv, Attempt, Tmp!GivesUpLate
  <2> QED
    BY <2>1 DEF StorageInv, TempInv, FilesHeld
<1> QED
  BY <1>1, <1>2, <1>3, <1>4, PTL DEF Spec

-----------------------------------------------------------------------------
(* Owned objects, and libraries.                                           *)

\* Who owns is alone, and what is alive is owned.
Unwinds == [object : Pointees \cup {"none"}, owner : BOOLEAN]
OwnInv ==
    /\ unwind \in [Owners -> Unwinds]
    /\ alive \subseteq Pointees /\ alive \cap deleted = {}
    /\ \A o \in Owners : unwind[o].owner => unwind[o].object \in alive
    /\ \A o, x \in Owners : unwind[o].owner /\ unwind[x].owner /\ unwind[o].object = unwind[x].object => o = x
    /\ \A p \in alive : \E o \in Owners : unwind[o].owner /\ unwind[o].object = p

Disowned(u, o) ==
    /\ u \in [Owners -> Unwinds] /\ u[o] = [object |-> unwind[o].object, owner |-> FALSE]
    /\ \A x \in Owners \ {o} : u[x] = unwind[x]

LEMMA OwnerGone ==
    ASSUME OwnInv, NEW o \in Owners, NEW u, u = [unwind EXCEPT ![o].owner = FALSE]
    PROVE  Disowned(u, o)
<1>1. unwind \in [Owners -> Unwinds]
  BY DEF OwnInv
<1>2. PICK v : v = [unwind[o] EXCEPT !.owner = FALSE]
  OBVIOUS
<1>3. v = [object |-> unwind[o].object, owner |-> FALSE] /\ v \in Unwinds
  BY <1>1, <1>2 DEF Unwinds
<1>4. u = [unwind EXCEPT ![o] = v]
  BY <1>2
<1> QED
  BY <1>1, <1>3, <1>4 DEF Disowned

LEMMA OwnKeeps == ASSUME OwnInv, Con!UnwindNext PROVE OwnInv'
<1>1. ASSUME NEW o \in Owners, Con!Release(o) PROVE OwnInv'
  <2>1. unwind' = [unwind EXCEPT ![o].owner = FALSE]
    BY <1>1 DEF Con!Release
  <2>2. /\ unwind' \in [Owners -> Unwinds] /\ unwind'[o] = [object |-> unwind[o].object, owner |-> FALSE]
        /\ \A x \in Owners \ {o} : unwind'[x] = unwind[x]
    <3>1. Disowned(unwind', o)
      BY <2>1, OwnerGone
    <3> QED
      BY <3>1 DEF Disowned
  <2>3. unwind[o].owner /\ alive' = alive \ {unwind[o].object} /\ deleted' = deleted \cup {unwind[o].object}
    BY <1>1 DEF Con!Release, Con!Delete
  <2> QED
    BY <2>2, <2>3 DEF OwnInv
<1>2. ASSUME NEW o \in Owners, Con!DestroyUnwind(o) PROVE OwnInv'
  <2>1. /\ unwind'[o] = [object |-> "none", owner |-> FALSE] /\ \A x \in Owners \ {o} : unwind'[x] = unwind[x]
        /\ unwind' \in [Owners -> Unwinds]
    BY <1>2 DEF OwnInv, Con!DestroyUnwind, Con!NotMade, Unwinds
  <2>2. CASE unwind[o].owner
    <3>1. alive' = alive \ {unwind[o].object} /\ deleted' = deleted \cup {unwind[o].object}
      BY <1>2, <2>2 DEF Con!DestroyUnwind, Con!Delete
    <3> QED
      BY <2>1, <2>2, <3>1 DEF OwnInv
  <2>3. CASE ~unwind[o].owner
    <3>1. alive' = alive /\ deleted' = deleted
      BY <1>2, <2>3 DEF Con!DestroyUnwind, Con!Kept
    <3> QED
      BY <2>1, <2>3, <3>1 DEF OwnInv
  <2> QED
    BY <2>2, <2>3
<1>3. ASSUME NEW o \in Owners, NEW p \in Pointees, Con!Unwinding(o, p) PROVE OwnInv'
  <2>1. /\ unwind'[o] = [object |-> p, owner |-> TRUE] /\ \A x \in Owners \ {o} : unwind'[x] = unwind[x]
        /\ unwind' \in [Owners -> Unwinds]
        /\ unwind[o].owner = FALSE /\ p \notin alive \cup deleted /\ alive' = alive \cup {p} /\ deleted' = deleted
    BY <1>3 DEF OwnInv, Con!Unwinding, Con!NotMade, Unwinds
  <2> QED
    BY <2>1 DEF OwnInv
<1>4. ASSUME NEW o \in Owners, NEW x \in Owners, unwind' = [Con!TakenFrom(x) EXCEPT ![o] = unwind[x]]
      PROVE  /\ unwind' \in [Owners -> Unwinds]
             /\ unwind'[o] = unwind[x] /\ \A y \in Owners \ {o, x} : unwind'[y] = unwind[y]
             /\ o # x => unwind'[x] = [object |-> unwind[x].object, owner |-> FALSE]
  <2>1. PICK u : u = Con!TakenFrom(x)
    OBVIOUS
  <2>2. u = [unwind EXCEPT ![x].owner = FALSE]
    BY <2>1 DEF Con!TakenFrom
  <2>3. /\ u \in [Owners -> Unwinds] /\ u[x] = [object |-> unwind[x].object, owner |-> FALSE]
        /\ \A y \in Owners \ {x} : u[y] = unwind[y]
    <3>1. Disowned(u, x)
      BY <2>2, OwnerGone
    <3> QED
      BY <3>1 DEF Disowned
  <2>4. unwind[x] \in Unwinds /\ unwind' = [u EXCEPT ![o] = unwind[x]]
    BY <1>4, <2>1 DEF OwnInv
  <2> QED
    BY <2>3, <2>4
<1>5. ASSUME NEW o \in Owners, NEW x \in Owners, Con!CopyUnwind(o, x) PROVE OwnInv'
  <2>1. /\ unwind[o].owner = FALSE /\ o # x /\ alive' = alive /\ deleted' = deleted
        /\ unwind' = [Con!TakenFrom(x) EXCEPT ![o] = unwind[x]]
    BY <1>5 DEF Con!CopyUnwind, Con!NotMade, Con!Kept
  <2>2. /\ unwind' \in [Owners -> Unwinds]
        /\ unwind'[o] = unwind[x] /\ \A y \in Owners \ {o, x} : unwind'[y] = unwind[y]
        /\ unwind'[x] = [object |-> unwind[x].object, owner |-> FALSE]
    BY <1>4, <2>1
  <2> QED
    BY <2>1, <2>2 DEF OwnInv
<1>6. ASSUME NEW o \in Owners, NEW x \in Owners, Con!AssignUnwind(o, x) PROVE OwnInv'
  <2>1. unwind' = [Con!TakenFrom(x) EXCEPT ![o] = unwind[x]]
    BY <1>6 DEF Con!AssignUnwind
  <2>2. /\ unwind' \in [Owners -> Unwinds]
        /\ unwind'[o] = unwind[x] /\ \A y \in Owners \ {o, x} : unwind'[y] = unwind[y]
        /\ o # x => unwind'[x] = [object |-> unwind[x].object, owner |-> FALSE]
    BY <1>4, <2>1
  <2>3. CASE o = x
    <3>1. alive' = alive /\ deleted' = deleted
      BY <1>6, <2>3 DEF Con!AssignUnwind, Con!Kept
    <3>2. \A y \in Owners : unwind'[y] = unwind[y]
      BY <2>2, <2>3
    <3> QED
      BY <2>2, <3>1, <3>2 DEF OwnInv
  <2>4. CASE o # x /\ unwind[o].owner
    <3>1. unwind[o].object # unwind[x].object
      BY <1>6, <2>4 DEF OwnInv, Con!AssignUnwind
    <3>2. alive' = alive \ {unwind[o].object} /\ deleted' = deleted \cup {unwind[o].object}
      BY <1>6, <2>4, <3>1 DEF Con!AssignUnwind, Con!Delete
    <3>3. \A y \in Owners : unwind'[y].owner => y # x /\ (y = o \/ unwind'[y] = unwind[y])
      BY <2>2, <2>4
    <3>4. \A y \in Owners : unwind'[y].owner => unwind'[y].object \in alive'
      BY <2>2, <2>4, <3>1, <3>2, <3>3 DEF OwnInv
    <3>5. \A y, z \in Owners : unwind'[y].owner /\ unwind'[z].owner /\ unwind'[y].object = unwind'[z].object => y = z
      BY <2>2, <2>4, <3>3 DEF OwnInv
    <3>6. ASSUME NEW p \in alive' PROVE \E y \in Owners : unwind'[y].owner /\ unwind'[y].object = p
      <4>1. PICK y \in Owners : unwind[y].owner /\ unwind[y].object = p /\ y # o
        BY <3>2, <3>6 DEF OwnInv
      <4>2. CASE y = x
        BY <2>2, <4>1, <4>2
      <4>3. CASE y # x
        BY <2>2, <4>1, <4>3
      <4> QED
        BY <4>2, <4>3
    <3>7. alive' \subseteq Pointees /\ alive' \cap deleted' = {}
      BY <3>2 DEF OwnInv
    <3> QED
      BY <2>2, <3>4, <3>5, <3>6, <3>7 DEF OwnInv
  <2>5. CASE o # x /\ ~unwind[o].owner
    <3>1. alive' = alive /\ deleted' = deleted
      BY <1>6, <2>5 DEF Con!AssignUnwind, Con!Kept
    <3> QED
      BY <2>2, <2>5, <3>1 DEF OwnInv
  <2> QED
    BY <2>3, <2>4, <2>5
<1> QED
  BY <1>1, <1>2, <1>3, <1>5, <1>6 DEF Con!UnwindNext

LEMMA ConCount == ASSUME NEW S PROVE Con!Cardinality(S) = Cardinality(S)
  BY DEF Con!Cardinality, Cardinality

LEMMA OwnedByOne == ASSUME OwnInv PROVE Con!OwnedOnce
<1>1. ASSUME NEW p \in Pointees
      PROVE  Con!Cardinality({o \in Owners : unwind[o].object = p /\ unwind[o].owner}) = IF p \in alive THEN 1 ELSE 0
  <2>1. PICK those : those = {o \in Owners : unwind[o].object = p /\ unwind[o].owner}
    OBVIOUS
  <2>2. CASE p \in alive
    <3>1. PICK o \in Owners : unwind[o].owner /\ unwind[o].object = p
      BY <2>2 DEF OwnInv
    <3>2. those = {o}
      BY <2>1, <3>1 DEF OwnInv
    <3>3. Cardinality({o}) = 1
      BY FS_Singleton
    <3> QED
      BY <2>1, <2>2, <3>2, <3>3, ConCount
  <2>3. CASE p \notin alive
    <3>1. those = {}
      BY <2>1, <2>3 DEF OwnInv
    <3>2. Cardinality({}) = 0
      BY FS_EmptySet
    <3> QED
      BY <2>1, <2>3, <3>1, <3>2, ConCount
  <2> QED
    BY <2>2, <2>3
<1> QED
  BY <1>1 DEF OwnInv, Con!OwnedOnce

\* The library that an AutoLoadLib has was loaded for it, and it is in memory.
Loads == [by : {"client", "auto"}, is : {"held", "released", "abandoned"}]
AutoInv ==
    /\ handles \in Seq(Loads) /\ m_library \in [Libs -> Nat]
    /\ pointer \in [Pointers -> [lib : Libs, found : BOOLEAN]]
    /\ \A l \in Libs : m_library[l] # 0 =>
           /\ m_library[l] \in 1..Len(handles)
           /\ handles[m_library[l]].by = "auto" /\ handles[m_library[l]].is = "held"
    /\ \A p \in Pointers : pointer[p].found => m_library[pointer[p].lib] # 0
    /\ \A i \in 1..Len(handles) : handles[i].by = "auto" => \E l \in Libs : m_library[l] = i

LEMMA LoadStep ==
    ASSUME AutoInv, NEW by \in {"client", "auto"}, handles' = Append(handles, [by |-> by, is |-> "held"])
    PROVE  /\ handles' \in Seq(Loads) /\ Len(handles') = Len(handles) + 1 /\ Len(handles) \in Nat
           /\ handles'[Len(handles) + 1] = [by |-> by, is |-> "held"]
           /\ \A i \in 1..Len(handles) : handles'[i] = handles[i]
<1>1. handles \in Seq(Loads) /\ [by |-> by, is |-> "held"] \in Loads
  BY DEF AutoInv, Loads
<1> QED
  BY <1>1

\* The libraries, apart from the pointers into them.
LEMMA UsedWell ==
    ASSUME AutoInv, NEW l \in Libs, Aut!UseLibrary(l)
    PROVE  /\ handles' \in Seq(Loads) /\ m_library' \in [Libs -> Nat]
           /\ \A k \in Libs : m_library'[k] # 0 =>
                  /\ m_library'[k] \in 1..Len(handles')
                  /\ handles'[m_library'[k]].by = "auto" /\ handles'[m_library'[k]].is = "held"
           /\ \A i \in 1..Len(handles') : handles'[i].by = "auto" => \E k \in Libs : m_library'[k] = i
           /\ (m_library[l] # 0 \/ installed => m_library'[l] # 0)
           /\ \A k \in Libs : m_library[k] # 0 => m_library'[k] # 0
<1>1. CASE m_library[l] = 0 /\ installed
  <2>1. /\ handles' = Append(handles, [by |-> "auto", is |-> "held"])
        /\ m_library' = [m_library EXCEPT ![l] = Len(handles) + 1]
    BY <1>1 DEF Aut!UseLibrary, Aut!NeedsLoading, Aut!None, Aut!Loaded
  <2>2. /\ handles' \in Seq(Loads) /\ Len(handles') = Len(handles) + 1 /\ Len(handles) \in Nat
        /\ handles'[Len(handles) + 1] = [by |-> "auto", is |-> "held"]
        /\ \A i \in 1..Len(handles) : handles'[i] = handles[i]
    BY <2>1, LoadStep
  <2>3. /\ m_library' \in [Libs -> Nat] /\ m_library'[l] = Len(handles) + 1
        /\ \A k \in Libs \ {l} : m_library'[k] = m_library[k]
    BY <2>1, <2>2 DEF AutoInv
  <2>4. \A k \in Libs : m_library'[k] # 0 =>
           /\ m_library'[k] \in 1..Len(handles')
           /\ handles'[m_library'[k]].by = "auto" /\ handles'[m_library'[k]].is = "held"
    <3> SUFFICES ASSUME NEW k \in Libs, m_library'[k] # 0
                 PROVE  /\ m_library'[k] \in 1..Len(handles')
                        /\ handles'[m_library'[k]].by = "auto" /\ handles'[m_library'[k]].is = "held"
      OBVIOUS
    <3>1. CASE k = l
      BY <2>2, <2>3, <3>1
    <3>2. CASE k # l
      BY <2>2, <2>3, <3>2 DEF AutoInv
    <3> QED
      BY <3>1, <3>2
  <2>6. \A i \in 1..Len(handles') : handles'[i].by = "auto" => \E k \in Libs : m_library'[k] = i
    <3> SUFFICES ASSUME NEW i \in 1..Len(handles'), handles'[i].by = "auto" PROVE \E k \in Libs : m_library'[k] = i
      OBVIOUS
    <3>1. CASE i = Len(handles) + 1
      BY <2>3, <3>1
    <3>2. CASE i # Len(handles) + 1
      <4>1. i \in 1..Len(handles) /\ handles[i].by = "auto"
        BY <2>2, <3>2
      <4>2. PICK k \in Libs : m_library[k] = i
        BY <4>1 DEF AutoInv
      <4>3. k # l
        BY <1>1, <4>1, <4>2
      <4> QED
        BY <2>3, <4>2, <4>3
    <3> QED
      BY <3>1, <3>2
  <2>7. m_library'[l] # 0
    BY <2>2, <2>3
  <2> QED
    BY <2>2, <2>3, <2>4, <2>6, <2>7
<1>2. CASE ~(m_library[l] = 0 /\ installed)
  <2>1. handles' = handles /\ m_library' = m_library
    BY <1>2 DEF Aut!UseLibrary, Aut!NeedsLoading, Aut!None
  <2> QED
    BY <1>2, <2>1 DEF AutoInv
<1> QED
  BY <1>1, <1>2

LEMMA UseKeeps == ASSUME AutoInv, NEW l \in Libs, Aut!UseLibrary(l), pointer' = pointer PROVE AutoInv'
<1>1. /\ handles' \in Seq(Loads) /\ m_library' \in [Libs -> Nat]
      /\ \A k \in Libs : m_library'[k] # 0 =>
             /\ m_library'[k] \in 1..Len(handles')
             /\ handles'[m_library'[k]].by = "auto" /\ handles'[m_library'[k]].is = "held"
      /\ \A i \in 1..Len(handles') : handles'[i].by = "auto" => \E k \in Libs : m_library'[k] = i
      /\ \A k \in Libs : m_library[k] # 0 => m_library'[k] # 0
  BY UsedWell
<1> QED
  BY <1>1 DEF AutoInv

LEMMA AutoKeeps == ASSUME HandsOff, AutoInv, Aut!AutoNext PROVE AutoInv'
<1>0. Len(handles) \in Nat /\ DOMAIN handles = 1..Len(handles)
  BY DEF AutoInv
<1>1. CASE Aut!Load
  <2>1. handles' = Append(handles, [by |-> "client", is |-> "held"]) /\ m_library' = m_library /\ pointer' = pointer
    BY <1>1 DEF Aut!Load, Aut!Loaded
  <2>2. /\ handles' \in Seq(Loads) /\ Len(handles') = Len(handles) + 1
        /\ handles'[Len(handles) + 1] = [by |-> "client", is |-> "held"]
        /\ \A i \in 1..Len(handles) : handles'[i] = handles[i]
    BY <2>1, LoadStep
  <2>3. \A i \in 1..Len(handles') : i \in 1..Len(handles) \/ i = Len(handles) + 1
    BY <1>0, <2>2
  <2>4. \A i \in 1..Len(handles') : handles'[i].by = "auto" => i \in 1..Len(handles) /\ handles[i].by = "auto"
    BY <2>2, <2>3
  <2>5. \A i \in 1..Len(handles) : i \in 1..Len(handles')
    BY <1>0, <2>2
  <2> QED
    BY <2>1, <2>2, <2>4, <2>5 DEF AutoInv
<1>2. CASE Aut!Install
  BY <1>2 DEF Aut!Install, AutoInv
<1>3. ASSUME NEW i \in DOMAIN handles, NEW how \in {"released", "abandoned"}, Aut!Give(i, how) PROVE AutoInv'
  <2>1. /\ handles[i].by = "client" /\ handles' = [handles EXCEPT ![i].is = how]
        /\ m_library' = m_library /\ pointer' = pointer
    BY <1>3 DEF Aut!Give
  <2>2. /\ handles' \in Seq(Loads) /\ Len(handles') = Len(handles)
        /\ \A k \in 1..Len(handles) : handles'[k].by = handles[k].by
        /\ \A k \in 1..Len(handles) \ {i} : handles'[k] = handles[k]
    <3>1. handles \in [1..Len(handles) -> Loads]
      BY DEF AutoInv
    <3>2. handles' \in [1..Len(handles) -> Loads] /\ \A k \in 1..Len(handles) : handles'[k].by = handles[k].by
      BY <1>0, <2>1, <3>1 DEF Loads
    <3>3. handles' \in Seq(Loads) /\ Len(handles') = Len(handles)
      BY <1>0, <3>2, SeqDef
    <3> QED
      BY <1>0, <2>1, <3>2, <3>3
  <2>3. \A l \in Libs : m_library[l] # 0 => m_library[l] \in 1..Len(handles) \ {i}
    BY <2>1 DEF AutoInv
  <2> QED
    BY <2>1, <2>2, <2>3 DEF AutoInv
<1>4. ASSUME NEW l \in Libs, Aut!Library(l) PROVE AutoInv'
  BY <1>4, UseKeeps DEF Aut!Library
<1>5. ASSUME NEW l \in Libs, NEW k \in Libs \ {l}, m_library[k] = Aut!None, Aut!Copy(l, k) PROVE AutoInv'
  <2>1. /\ m_library'[k] = m_library[l] /\ \A j \in Libs \ {k} : m_library'[j] = m_library[j]
        /\ m_library' \in [Libs -> Nat] /\ m_library[k] = 0 /\ handles' = handles /\ pointer' = pointer
    BY <1>5 DEF AutoInv, Aut!Copy, Aut!None
  <2> QED
    BY <2>1 DEF AutoInv
<1>6. ASSUME NEW p \in Pointers, Aut!Resolve(p) PROVE AutoInv'
  <2>1. PICK l \in Libs : l = pointer[p].lib
    BY DEF AutoInv
  <2>2. Aut!UseLibrary(l) /\ pointer' = [pointer EXCEPT ![p].found = Aut!Finds(p)]
    BY <1>6, <2>1 DEF Aut!Resolve
  <2>3. PICK found : found = Aut!Finds(p)
    OBVIOUS
  <2>4. found \in BOOLEAN /\ (found => m_library[l] # 0 \/ installed)
    BY <2>1, <2>3 DEF Aut!Finds, Aut!Available, Aut!NeedsLoading, Aut!None
  <2>5. /\ pointer' \in [Pointers -> [lib : Libs, found : BOOLEAN]]
        /\ pointer'[p] = [lib |-> l, found |-> found] /\ \A q \in Pointers \ {p} : pointer'[q] = pointer[q]
    BY <2>1, <2>2, <2>3, <2>4 DEF AutoInv
  <2>6. /\ handles' \in Seq(Loads) /\ m_library' \in [Libs -> Nat]
        /\ \A k \in Libs : m_library'[k] # 0 =>
               /\ m_library'[k] \in 1..Len(handles')
               /\ handles'[m_library'[k]].by = "auto" /\ handles'[m_library'[k]].is = "held"
        /\ \A i \in 1..Len(handles') : handles'[i].by = "auto" => \E k \in Libs : m_library'[k] = i
        /\ (m_library[l] # 0 \/ installed => m_library'[l] # 0)
        /\ \A k \in Libs : m_library[k] # 0 => m_library'[k] # 0
    BY <2>2, UsedWell
  <2>7. ASSUME NEW q \in Pointers, pointer'[q].found PROVE m_library'[pointer'[q].lib] # 0
    <3>1. CASE q = p
      BY <2>4, <2>5, <2>6, <2>7, <3>1
    <3>2. CASE q # p
      <4>1. pointer[q].found /\ pointer'[q] = pointer[q] /\ pointer[q].lib \in Libs
        BY <2>5, <2>7, <3>2 DEF AutoInv
      <4>2. m_library[pointer[q].lib] # 0
        BY <4>1 DEF AutoInv
      <4> QED
        BY <2>6, <4>1, <4>2
    <3> QED
      BY <3>1, <3>2
  <2> QED
    BY <2>5, <2>6, <2>7 DEF AutoInv
<1> QED
  BY <1>1, <1>2, <1>3, <1>4, <1>5, <1>6 DEF Aut!AutoNext

LEMMA LibrariesThere == ASSUME AutoInv PROVE Aut!LibrariesStay
<1>1. DOMAIN handles = 1..Len(handles)
  BY DEF AutoInv
<1>2. ASSUME NEW p \in Pointers, pointer[p].found PROVE Aut!InMemory /\ m_library[pointer[p].lib] # Aut!None
  <2>1. pointer[p].lib \in Libs /\ m_library[pointer[p].lib] # 0
    BY <1>2 DEF AutoInv
  <2>2. m_library[pointer[p].lib] \in DOMAIN handles /\ handles[m_library[pointer[p].lib]].is = "held"
    BY <1>1, <2>1 DEF AutoInv
  <2> QED
    BY <2>1, <2>2 DEF Aut!InMemory, Aut!Holding, Aut!None
<1> QED
  BY <1>1, <1>2 DEF AutoInv, Aut!LibrariesStay, Aut!None

-----------------------------------------------------------------------------
(* Callbacks: what handles refer to is counted.                            *)

Users(rp, r) == {h \in Handles : rp[h] = r}
Inside(rs, r) == {s \in DOMAIN rs : rs[s].inner = r}

\* The implementations rs and the handles rp are what CountsAreRight says.
Counted(rs, rp) ==
    /\ rs \in [DOMAIN rs -> [refs : Nat, inner : Reps \cup {0}]] /\ DOMAIN rs \subseteq Reps
    /\ rp \in [Handles -> Reps \cup {0, -1}]
    /\ \A r \in DOMAIN rs : rs[r].refs = Cardinality(Users(rp, r)) + Cardinality(Inside(rs, r)) /\ rs[r].refs > 0
    /\ \A h \in Handles : rp[h] > 0 => rp[h] \in DOMAIN rs
    /\ \A r \in DOMAIN rs : rs[r].inner # 0 => rs[r].inner \in DOMAIN rs

LEMMA RepsAreNumbers ==
    /\ Reps \subseteq Nat \ {0} /\ IsFiniteSet(Reps) /\ IsFiniteSet(Handles)
    /\ \A r \in Reps \cup {0} : r # 0 => r > 0
<1>1. Reps \subseteq Nat \ {0} /\ IsFiniteSet(Reps) /\ IsFiniteSet(Handles)
  BY ObjectsAssumption
<1>2. ASSUME NEW r \in Reps \cup {0}, r # 0 PROVE r > 0
  <2>1. r \in Nat \ {0}
    BY <1>1, <1>2
  <2> QED
    BY <2>1
<1> QED
  BY <1>1, <1>2

LEMMA UsersAreFinite ==
    ASSUME NEW rs, NEW rp, NEW r, DOMAIN rs \subseteq Reps
    PROVE  /\ IsFiniteSet(Users(rp, r)) /\ IsFiniteSet(Inside(rs, r))
           /\ Cardinality(Users(rp, r)) \in Nat /\ Cardinality(Inside(rs, r)) \in Nat
<1>1. Users(rp, r) \subseteq Handles /\ Inside(rs, r) \subseteq DOMAIN rs
  BY DEF Users, Inside
<1>2. IsFiniteSet(Users(rp, r))
  BY <1>1, RepsAreNumbers, FS_Subset
<1>3. IsFiniteSet(Inside(rs, r))
  <2>1. Inside(rs, r) \subseteq Reps
    BY <1>1
  <2> QED
    BY <2>1, RepsAreNumbers, FS_Subset
<1> QED
  BY <1>2, <1>3, FS_CardinalityType

\* Of two sets that have one member together.
LEMMA OnlyOne ==
    ASSUME NEW S, NEW T, IsFiniteSet(S), IsFiniteSet(T), Cardinality(S) + Cardinality(T) = 1, NEW a \in S
    PROVE  S = {a} /\ T = {}
<1>1. Cardinality(S) \in Nat /\ Cardinality(T) \in Nat
  BY FS_CardinalityType
<1>2. Cardinality(S \ {a}) = Cardinality(S) - 1 /\ IsFiniteSet(S \ {a})
  BY FS_RemoveElement
<1>3. Cardinality(S \ {a}) \in Nat
  BY <1>2, FS_CardinalityType
<1>4. Cardinality(S \ {a}) = 0 /\ Cardinality(T) = 0
  BY <1>1, <1>2, <1>3
<1>5. S \ {a} = {} /\ T = {}
  BY <1>2, <1>4, FS_EmptySet
<1> QED
  BY <1>5

LEMMA OneMore ==
    ASSUME NEW rs, rs \in [DOMAIN rs -> [refs : Nat, inner : Reps \cup {0}]], DOMAIN rs \subseteq Reps,
           NEW r \in DOMAIN rs \cup {0}, NEW more, more = IF r = 0 THEN rs ELSE [rs EXCEPT ![r].refs = @ + 1]
    PROVE  /\ DOMAIN more = DOMAIN rs /\ more \in [DOMAIN rs -> [refs : Nat, inner : Reps \cup {0}]]
           /\ \A s \in DOMAIN rs :
                  more[s].inner = rs[s].inner /\ more[s].refs = IF s = r THEN rs[s].refs + 1 ELSE rs[s].refs
<1>1. 0 \notin DOMAIN rs
  BY RepsAreNumbers
<1>2. CASE r = 0
  BY <1>1, <1>2
<1>3. CASE r # 0
  <2>1. PICK v : v = [rs[r] EXCEPT !.refs = @ + 1]
    OBVIOUS
  <2>2. r \in DOMAIN rs /\ rs[r] \in [refs : Nat, inner : Reps \cup {0}]
    BY <1>3
  <2>3. v \in [refs : Nat, inner : Reps \cup {0}] /\ v.refs = rs[r].refs + 1 /\ v.inner = rs[r].inner
    BY <2>1, <2>2
  <2>4. more = [rs EXCEPT ![r] = v]
    BY <1>3, <2>1
  <2> QED
    BY <2>2, <2>3, <2>4
<1> QED
  BY <1>2, <1>3

\* A handle that is on nothing takes what is there.
LEMMA Refers ==
    ASSUME NEW rs, NEW rp, Counted(rs, rp), NEW h \in Handles, rp[h] = -1, NEW r \in DOMAIN rs \cup {0},
           NEW more, more = IF r = 0 THEN rs ELSE [rs EXCEPT ![r].refs = @ + 1]
    PROVE  Counted(more, [rp EXCEPT ![h] = r])
<1>1. PICK now : now = [rp EXCEPT ![h] = r]
  OBVIOUS
<1>2. /\ rs \in [DOMAIN rs -> [refs : Nat, inner : Reps \cup {0}]] /\ DOMAIN rs \subseteq Reps
      /\ rp \in [Handles -> Reps \cup {0, -1}]
  BY DEF Counted
<1>3. /\ DOMAIN more = DOMAIN rs /\ more \in [DOMAIN rs -> [refs : Nat, inner : Reps \cup {0}]]
      /\ \A s \in DOMAIN rs : more[s].inner = rs[s].inner /\ more[s].refs = IF s = r THEN rs[s].refs + 1 ELSE rs[s].refs
  BY <1>2, OneMore
<1>4. now \in [Handles -> Reps \cup {0, -1}] /\ now[h] = r /\ \A x \in Handles \ {h} : now[x] = rp[x]
  BY <1>1, <1>2
<1>5. \A s \in DOMAIN rs : Inside(more, s) = Inside(rs, s)
  BY <1>3 DEF Inside
<1>6. ASSUME NEW s \in DOMAIN rs
      PROVE  more[s].refs = Cardinality(Users(now, s)) + Cardinality(Inside(more, s)) /\ more[s].refs > 0
  <2>1. /\ rs[s].refs = Cardinality(Users(rp, s)) + Cardinality(Inside(rs, s)) /\ rs[s].refs > 0
        /\ rs[s].refs \in Nat /\ IsFiniteSet(Users(rp, s)) /\ Cardinality(Users(rp, s)) \in Nat
        /\ Cardinality(Inside(rs, s)) \in Nat
    BY <1>2, UsersAreFinite DEF Counted
  <2>2. s # -1
    BY <1>2, RepsAreNumbers
  <2>3. CASE s = r
    <3>1. Users(now, s) = Users(rp, s) \cup {h} /\ h \notin Users(rp, s)
      BY <1>4, <2>2, <2>3 DEF Users
    <3>2. Cardinality(Users(now, s)) = Cardinality(Users(rp, s)) + 1
      BY <2>1, <3>1, FS_AddElement
    <3>3. more[s].refs = rs[s].refs + 1 /\ Cardinality(Inside(more, s)) = Cardinality(Inside(rs, s))
      BY <1>3, <1>5, <2>3
    <3>4. \A a, b \in Nat : a + 1 + b = a + b + 1 /\ a + b + 1 > 0
      OBVIOUS
    <3> QED
      BY <2>1, <3>2, <3>3, <3>4
  <2>4. CASE s # r
    <3>1. Users(now, s) = Users(rp, s)
      BY <1>4, <2>2, <2>4 DEF Users
    <3> QED
      BY <1>3, <1>5, <2>1, <2>4, <3>1
  <2> QED
    BY <2>3, <2>4
<1>7. ASSUME NEW x \in Handles, now[x] > 0 PROVE now[x] \in DOMAIN more
  BY <1>3, <1>4, <1>7 DEF Counted
<1>8. \A s \in DOMAIN more : more[s].inner # 0 => more[s].inner \in DOMAIN more
  BY <1>3 DEF Counted
<1>9. Counted(more, now)
  BY <1>2, <1>3, <1>4, <1>6, <1>7, <1>8 DEF Counted
<1> QED
  BY <1>1, <1>9

\* One more is made, with what was there inside.
LEMMA Makes ==
    ASSUME NEW rs, NEW rp, Counted(rs, rp), NEW h \in Handles, rp[h] = -1, NEW inner \in DOMAIN rs \cup {0},
           NEW new \in Reps \ DOMAIN rs,
           NEW more, more = IF inner = 0 THEN rs ELSE [rs EXCEPT ![inner].refs = @ + 1],
           NEW all, all = [x \in DOMAIN more \cup {new} |-> IF x = new THEN [refs |-> 1, inner |-> inner] ELSE more[x]]
    PROVE  Counted(all, [rp EXCEPT ![h] = new])
<1>1. PICK now : now = [rp EXCEPT ![h] = new]
  OBVIOUS
<1>2. /\ rs \in [DOMAIN rs -> [refs : Nat, inner : Reps \cup {0}]] /\ DOMAIN rs \subseteq Reps
      /\ rp \in [Handles -> Reps \cup {0, -1}]
  BY DEF Counted
<1>3. /\ DOMAIN more = DOMAIN rs /\ more \in [DOMAIN rs -> [refs : Nat, inner : Reps \cup {0}]]
      /\ \A s \in DOMAIN rs : more[s].inner = rs[s].inner /\ more[s].refs = IF s = inner THEN rs[s].refs + 1 ELSE rs[s].refs
  BY <1>2, OneMore
<1>4. /\ DOMAIN all = DOMAIN rs \cup {new} /\ all[new] = [refs |-> 1, inner |-> inner]
      /\ \A s \in DOMAIN rs : all[s] = more[s]
  BY <1>3
<1>5. [refs |-> 1, inner |-> inner] \in [refs : Nat, inner : Reps \cup {0}]
  BY <1>2
<1>6. all \in [DOMAIN all -> [refs : Nat, inner : Reps \cup {0}]] /\ DOMAIN all \subseteq Reps
  <2>1. \A s \in DOMAIN all : all[s] \in [refs : Nat, inner : Reps \cup {0}]
    BY <1>3, <1>4, <1>5
  <2> QED
    BY <1>2, <1>4, <2>1
<1>7. now \in [Handles -> Reps \cup {0, -1}] /\ now[h] = new /\ \A x \in Handles \ {h} : now[x] = rp[x]
  BY <1>1, <1>2
<1>8. new > 0 /\ new # -1 /\ new # 0 /\ new # inner
  BY <1>2, RepsAreNumbers
<1>9. ASSUME NEW s \in DOMAIN rs
      PROVE  all[s].refs = Cardinality(Users(now, s)) + Cardinality(Inside(all, s)) /\ all[s].refs > 0
  <2>1. /\ rs[s].refs = Cardinality(Users(rp, s)) + Cardinality(Inside(rs, s)) /\ rs[s].refs > 0
        /\ rs[s].refs \in Nat /\ IsFiniteSet(Inside(rs, s)) /\ Cardinality(Users(rp, s)) \in Nat
        /\ Cardinality(Inside(rs, s)) \in Nat
    BY <1>2, UsersAreFinite DEF Counted
  <2>2. s # -1 /\ s # new
    BY <1>2, RepsAreNumbers
  <2>3. Users(now, s) = Users(rp, s)
    BY <1>7, <2>2 DEF Users
  <2>4. CASE s = inner
    <3>1. Inside(all, s) = Inside(rs, s) \cup {new} /\ new \notin Inside(rs, s)
      BY <1>3, <1>4, <2>4 DEF Inside
    <3>2. Cardinality(Inside(all, s)) = Cardinality(Inside(rs, s)) + 1
      BY <2>1, <3>1, FS_AddElement
    <3> QED
      BY <1>3, <1>4, <2>1, <2>3, <2>4, <3>2
  <2>5. CASE s # inner
    <3>1. Inside(all, s) = Inside(rs, s)
      BY <1>3, <1>4, <2>5 DEF Inside
    <3> QED
      BY <1>3, <1>4, <2>1, <2>3, <2>5, <3>1
  <2> QED
    BY <2>4, <2>5
<1>10. all[new].refs = Cardinality(Users(now, new)) + Cardinality(Inside(all, new)) /\ all[new].refs > 0
  <2>1. \A x \in Handles : rp[x] # new
    BY <1>8 DEF Counted
  <2>2. Users(now, new) = {h}
    BY <1>7, <2>1 DEF Users
  <2>3. \A s \in DOMAIN rs : rs[s].inner # new
    BY <1>8 DEF Counted
  <2>4. Inside(all, new) = {}
    BY <1>3, <1>4, <1>8, <2>3 DEF Inside
  <2>5. Cardinality({h}) = 1 /\ Cardinality({}) = 0
    BY FS_Singleton, FS_EmptySet
  <2> QED
    BY <1>4, <2>2, <2>4, <2>5
<1>11. ASSUME NEW x \in Handles, now[x] > 0 PROVE now[x] \in DOMAIN all
  BY <1>4, <1>7, <1>11 DEF Counted
<1>12. ASSUME NEW s \in DOMAIN all, all[s].inner # 0 PROVE all[s].inner \in DOMAIN all
  <2>1. CASE s = new
    BY <1>4, <1>12, <2>1
  <2>2. CASE s # new
    BY <1>3, <1>4, <1>12, <2>2 DEF Counted
  <2> QED
    BY <2>1, <2>2
<1>13. \A s \in DOMAIN all : all[s].refs = Cardinality(Users(now, s)) + Cardinality(Inside(all, s)) /\ all[s].refs > 0
  BY <1>4, <1>9, <1>10
<1>14. Counted(all, now)
  BY <1>6, <1>7, <1>11, <1>12, <1>13 DEF Counted
<1> QED
  BY <1>1, <1>14

\* What goes with a handle on r: gone, one after the other, up to the last,
\* which stays.
Goes(rs, r, gone, last) ==
    /\ gone \subseteq {s \in DOMAIN rs : rs[s].refs = 1} /\ last \notin {s \in DOMAIN rs : rs[s].refs = 1}
    /\ \A s \in gone : s = r \/ \E t \in gone : rs[t].inner = s
    /\ \A s \in gone : rs[s].inner \in gone \cup {last}
    /\ \/ gone = {} /\ last = r
       \/ r \in gone /\ \E end \in gone : rs[end].inner = last /\ \A s \in gone : rs[s].inner = last => s = end

LEMMA LetsGo ==
    ASSUME NEW rs, NEW rp, Counted(rs, rp), NEW h \in Handles, NEW gone, NEW last, Goes(rs, rp[h], gone, last),
           NEW left, left = [s \in DOMAIN rs \ gone |-> IF s = last THEN [rs[s] EXCEPT !.refs = @ - 1] ELSE rs[s]]
    PROVE  Counted(left, [rp EXCEPT ![h] = -1])
<1>1. PICK now : now = [rp EXCEPT ![h] = -1]
  OBVIOUS
<1>2. PICK r : r = rp[h]
  OBVIOUS
<1>3. /\ rs \in [DOMAIN rs -> [refs : Nat, inner : Reps \cup {0}]] /\ DOMAIN rs \subseteq Reps
      /\ rp \in [Handles -> Reps \cup {0, -1}]
  BY DEF Counted
<1>4. now \in [Handles -> Reps \cup {0, -1}] /\ now[h] = -1 /\ \A x \in Handles \ {h} : now[x] = rp[x]
  BY <1>1, <1>3
<1>5. /\ \A s \in gone : s \in DOMAIN rs /\ rs[s].refs = 1
      /\ last \in DOMAIN rs => rs[last].refs # 1 /\ rs[last].refs > 1
      /\ last \notin gone
  <2>1. \A s \in gone : s \in DOMAIN rs /\ rs[s].refs = 1
    BY DEF Goes
  <2>2. last \in DOMAIN rs => rs[last].refs # 1
    BY DEF Goes
  <2>3. \A s \in DOMAIN rs : rs[s].refs \in Nat /\ rs[s].refs > 0
    BY <1>3 DEF Counted
  <2> QED
    BY <2>1, <2>2, <2>3
\* Nobody else had any of what goes.
<1>6. ASSUME NEW s \in gone
      PROVE  /\ \A x \in Handles : rp[x] = s => x = h
             /\ \A t \in DOMAIN rs : rs[t].inner = s => t \in gone
  <2>1. /\ Cardinality(Users(rp, s)) + Cardinality(Inside(rs, s)) = 1
        /\ IsFiniteSet(Users(rp, s)) /\ IsFiniteSet(Inside(rs, s))
    BY <1>3, <1>5, UsersAreFinite DEF Counted
  <2>2. CASE s = r
    <3>1. h \in Users(rp, s)
      BY <1>2, <2>2 DEF Users
    <3>2. Users(rp, s) = {h} /\ Inside(rs, s) = {}
      BY <2>1, <3>1, OnlyOne
    <3> QED
      BY <3>2 DEF Users, Inside
  <2>3. CASE s # r
    <3>1. PICK t \in gone : rs[t].inner = s
      BY <1>2, <2>3 DEF Goes
    <3>2. t \in Inside(rs, s)
      BY <1>5, <3>1 DEF Inside
    <3>3. Cardinality(Inside(rs, s)) + Cardinality(Users(rp, s)) = 1
      <4>1. Cardinality(Users(rp, s)) \in Nat /\ Cardinality(Inside(rs, s)) \in Nat
        BY <2>1, FS_CardinalityType
      <4> QED
        BY <2>1, <4>1
    <3>4. Inside(rs, s) = {t} /\ Users(rp, s) = {}
      BY <2>1, <3>2, <3>3, OnlyOne
    <3> QED
      BY <3>4 DEF Users, Inside
  <2> QED
    BY <2>2, <2>3
<1>7. /\ DOMAIN left = DOMAIN rs \ gone /\ left \in [DOMAIN left -> [refs : Nat, inner : Reps \cup {0}]]
      /\ \A s \in DOMAIN left :
             left[s].inner = rs[s].inner /\ left[s].refs = IF s = last THEN rs[s].refs - 1 ELSE rs[s].refs
  <2>1. DOMAIN left = DOMAIN rs \ gone
    OBVIOUS
  <2>2. ASSUME NEW s \in DOMAIN left
        PROVE  /\ left[s] \in [refs : Nat, inner : Reps \cup {0}]
               /\ left[s].inner = rs[s].inner /\ left[s].refs = IF s = last THEN rs[s].refs - 1 ELSE rs[s].refs
    <3>1. s \in DOMAIN rs /\ rs[s] \in [refs : Nat, inner : Reps \cup {0}]
      BY <1>3, <2>1
    <3>2. CASE s = last
      <4>1. left[s] = [rs[s] EXCEPT !.refs = @ - 1] /\ rs[s].refs - 1 \in Nat
        BY <1>5, <2>1, <3>1, <3>2
      <4> QED
        BY <3>1, <3>2, <4>1
    <3>3. CASE s # last
      BY <2>1, <3>1, <3>3
    <3> QED
      BY <3>2, <3>3
  <2>3. left = [s \in DOMAIN left |-> left[s]]
    OBVIOUS
  <2> QED
    BY <2>1, <2>2, <2>3
<1>8. ASSUME NEW s \in DOMAIN left
      PROVE  left[s].refs = Cardinality(Users(now, s)) + Cardinality(Inside(left, s)) /\ left[s].refs > 0
  <2>1. s \in DOMAIN rs /\ s \notin gone
    BY <1>7
  <2>2. /\ rs[s].refs = Cardinality(Users(rp, s)) + Cardinality(Inside(rs, s)) /\ rs[s].refs > 0
        /\ rs[s].refs \in Nat /\ Cardinality(Users(rp, s)) \in Nat /\ Cardinality(Inside(rs, s)) \in Nat
        /\ IsFiniteSet(Users(rp, s)) /\ IsFiniteSet(Inside(rs, s))
    BY <1>3, <2>1, UsersAreFinite DEF Counted
  <2>3. s # -1
    BY <1>3, <2>1, RepsAreNumbers
  <2>4. Users(now, s) = Users(rp, s) \ {h}
    BY <1>4, <2>3 DEF Users
  <2>5. Inside(left, s) = Inside(rs, s) \ gone
    BY <1>7 DEF Inside
  <2>6. CASE s # last
    <3>1. s # r /\ h \notin Users(rp, s)
      BY <1>2, <2>1, <2>6 DEF Goes, Users
    <3>2. Inside(rs, s) \cap gone = {}
      BY <2>1, <2>6 DEF Goes, Inside
    <3>3. Users(now, s) = Users(rp, s) /\ Inside(left, s) = Inside(rs, s)
      BY <2>4, <2>5, <3>1, <3>2
    <3> QED
      BY <1>7, <2>2, <2>6, <3>3
  <2>7. CASE s = last
    <3>1. left[s].refs = rs[s].refs - 1 /\ rs[s].refs > 1
      BY <1>5, <1>7, <2>1, <2>7
    <3>2. CASE gone = {}
      <4>1. Inside(left, s) = Inside(rs, s) /\ h \in Users(rp, s)
        BY <1>2, <2>5, <2>7, <3>2 DEF Goes, Users
      <4>2. Cardinality(Users(now, s)) = Cardinality(Users(rp, s)) - 1
        BY <2>2, <2>4, <4>1, FS_RemoveElement
      <4>3. \A a, b \in Nat : (a + b) - 1 = (a - 1) + b
        OBVIOUS
      <4> QED
        BY <2>2, <3>1, <4>1, <4>2, <4>3
    <3>3. CASE gone # {}
      <4>1. PICK end \in gone : rs[end].inner = last /\ \A t \in gone : rs[t].inner = last => t = end
        BY <3>3 DEF Goes
      <4>2. r \in gone /\ s # r
        BY <1>2, <2>1, <3>3 DEF Goes
      <4>3. Users(now, s) = Users(rp, s)
        BY <1>2, <2>4, <4>2 DEF Users
      <4>4. Inside(left, s) = Inside(rs, s) \ {end} /\ end \in Inside(rs, s)
        BY <1>5, <2>5, <2>7, <4>1 DEF Inside
      <4>5. Cardinality(Inside(left, s)) = Cardinality(Inside(rs, s)) - 1
        <5>1. Cardinality(Inside(rs, s) \ {end}) = Cardinality(Inside(rs, s)) - 1
          BY <2>2, <4>4, FS_RemoveElement
        <5> QED
          BY <4>4, <5>1
      <4>6. \A a, b \in Nat : (a + b) - 1 = a + (b - 1)
        OBVIOUS
      <4> QED
        BY <2>2, <3>1, <4>3, <4>5, <4>6
    <3> QED
      BY <3>2, <3>3
  <2> QED
    BY <2>6, <2>7
<1>9. ASSUME NEW x \in Handles, now[x] > 0 PROVE now[x] \in DOMAIN left
  <2>1. x # h /\ now[x] = rp[x]
    BY <1>4, <1>9
  <2>2. rp[x] \in DOMAIN rs
    BY <1>9, <2>1 DEF Counted
  <2> QED
    BY <1>6, <1>7, <2>1, <2>2
<1>10. ASSUME NEW s \in DOMAIN left, left[s].inner # 0 PROVE left[s].inner \in DOMAIN left
  <2>1. s \in DOMAIN rs \ gone /\ left[s].inner = rs[s].inner
    BY <1>7
  <2>2. rs[s].inner \in DOMAIN rs
    BY <1>10, <2>1 DEF Counted
  <2> QED
    BY <1>6, <1>7, <2>1, <2>2
<1>11. DOMAIN left \subseteq Reps
  BY <1>3, <1>7
<1>12. Counted(left, now)
  BY <1>4, <1>7, <1>8, <1>9, <1>10, <1>11 DEF Counted
<1> QED
  BY <1>1, <1>12

LEMMA ChainsAreSequences ==
    ASSUME NEW S, NEW n, NEW c \in Cal!SeqOf(S, n)
    PROVE  c \in Seq(S) /\ DOMAIN c = 1..Len(c) /\ Len(c) \in Nat
<1>1. PICK k \in 0..n : c \in [1..k -> S]
  BY DEF Cal!SeqOf
<1>2. k \in Nat
  BY <1>1
<1> QED
  BY <1>1, <1>2, SeqDef

\* What unref () lets go of, a chain of them, is what goes.
LEMMA ChainGoes ==
    ASSUME NEW rs, NEW rp, Counted(rs, rp), NEW m, m = [reps |-> rs, rep |-> rp], NEW r, NEW c \in Cal!Chains(m, r)
    PROVE  Goes(rs, r, Cal!Range(c), Cal!Behind(m, r, c, Len(c) + 1))
<1>1. PICK single : single = {s \in DOMAIN rs : rs[s].refs = 1}
  OBVIOUS
<1>2. PICK last : last = Cal!Behind(m, r, c, Len(c) + 1)
  OBVIOUS
<1>3. PICK gone : gone = Cal!Range(c)
  OBVIOUS
<1>4. m.reps = rs /\ {s \in DOMAIN m.reps : m.reps[s].refs = 1} = single
  BY <1>1
<1>5. c \in Cal!SeqOf(single, Cal!Cardinality(single)) /\ last \notin single /\ \A i \in DOMAIN c : c[i] = Cal!Behind(m, r, c, i)
  BY <1>2, <1>4 DEF Cal!Chains
<1>6. PICK n \in Nat : n = Len(c)
  BY <1>5, ChainsAreSequences
<1>7. c \in Seq(single) /\ DOMAIN c = 1..n
  BY <1>5, <1>6, ChainsAreSequences
<1>8. \A i \in 1..n : c[i] \in single
  BY <1>6, <1>7
<1>9. gone = {c[i] : i \in 1..n}
  BY <1>3, <1>7 DEF Cal!Range
<1>10. \A i \in 1..n : c[i] = IF i = 1 THEN r ELSE rs[c[i - 1]].inner
  BY <1>4, <1>5, <1>7 DEF Cal!Behind
<1>11. last = IF n = 0 THEN r ELSE rs[c[n]].inner
  <2>1. last = IF n + 1 = 1 THEN r ELSE rs[c[(n + 1) - 1]].inner
    BY <1>2, <1>4, <1>6 DEF Cal!Behind
  <2>2. (n + 1 = 1) = (n = 0) /\ (n + 1) - 1 = n
    OBVIOUS
  <2> QED
    BY <2>1, <2>2
<1>12. gone \subseteq single
  BY <1>8, <1>9
<1>13. \A s \in gone : s = r \/ \E t \in gone : rs[t].inner = s
  <2> SUFFICES ASSUME NEW i \in 1..n, c[i] # r PROVE \E t \in gone : rs[t].inner = c[i]
    BY <1>9
  <2>1. i # 1 /\ i - 1 \in 1..n
    BY <1>10
  <2>2. c[i - 1] \in gone /\ rs[c[i - 1]].inner = c[i]
    BY <1>9, <1>10, <2>1
  <2> QED
    BY <2>2
<1>14. \A i \in 1..n : i # n => i + 1 \in 1..n /\ rs[c[i]].inner = c[i + 1]
  <2> SUFFICES ASSUME NEW i \in 1..n, i # n PROVE i + 1 \in 1..n /\ rs[c[i]].inner = c[i + 1]
    OBVIOUS
  <2>1. i + 1 \in 1..n /\ i + 1 # 1 /\ (i + 1) - 1 = i
    OBVIOUS
  <2>2. c[i + 1] = rs[c[(i + 1) - 1]].inner
    BY <1>10, <2>1
  <2> QED
    BY <2>1, <2>2
<1>15. \A s \in gone : rs[s].inner \in gone \cup {last}
  <2> SUFFICES ASSUME NEW i \in 1..n PROVE rs[c[i]].inner \in gone \cup {last}
    BY <1>9
  <2>1. CASE i = n
    BY <1>11, <2>1
  <2>2. CASE i # n
    BY <1>9, <1>14, <2>2
  <2> QED
    BY <2>1, <2>2
<1>16. CASE n = 0
  <2>1. gone = {} /\ last = r
    BY <1>9, <1>11, <1>16
  <2> QED
    BY <1>1, <1>2, <1>3, <1>5, <1>12, <1>13, <1>15, <2>1 DEF Goes
<1>17. CASE n # 0
  <2>1. 1 \in 1..n /\ n \in 1..n
    BY <1>17
  <2>2. r \in gone /\ c[n] \in gone /\ rs[c[n]].inner = last
    BY <1>9, <1>10, <1>11, <1>17, <2>1
  <2>3. ASSUME NEW s \in gone, rs[s].inner = last PROVE s = c[n]
    <3>1. PICK i \in 1..n : s = c[i]
      BY <1>9
    <3>2. CASE i # n
      <4>1. last \in gone
        BY <1>9, <1>14, <2>3, <3>1, <3>2
      <4> QED
        BY <1>5, <1>12, <4>1
    <3> QED
      BY <3>1, <3>2
  <2> QED
    BY <1>1, <1>2, <1>3, <1>5, <1>12, <1>13, <1>15, <2>2, <2>3 DEF Goes
<1> QED
  BY <1>16, <1>17

\* What unref () leaves is right for who had the handle no more.
LEMMA Unrefs ==
    ASSUME NEW rs, NEW rp, Counted(rs, rp), NEW h \in Handles, NEW k \in Cal!unref([reps |-> rs, rep |-> rp], rp[h])
    PROVE  /\ k = [reps |-> k.reps, rep |-> rp] /\ Counted(k.reps, [rp EXCEPT ![h] = -1])
           /\ DOMAIN k.reps \subseteq DOMAIN rs /\ \A s \in DOMAIN k.reps : k.reps[s].inner = rs[s].inner
<1>1. PICK m : m = [reps |-> rs, rep |-> rp]
  OBVIOUS
<1>2. PICK c \in Cal!Chains(m, rp[h]) : k = Cal!Without(m, rp[h], c)
  BY <1>1 DEF Cal!unref
<1>3. PICK gone : gone = Cal!Range(c)
  OBVIOUS
<1>4. PICK last : last = Cal!Behind(m, rp[h], c, Len(c) + 1)
  OBVIOUS
<1>5. Goes(rs, rp[h], gone, last)
  BY <1>1, <1>3, <1>4, ChainGoes
<1>6. PICK left : left = [s \in DOMAIN rs \ gone |-> IF s = last THEN [rs[s] EXCEPT !.refs = @ - 1] ELSE rs[s]]
  OBVIOUS
<1>7. Counted(left, [rp EXCEPT ![h] = -1])
  BY SMTT(30), <1>5, <1>6, LetsGo
<1>8. k = [reps |-> left, rep |-> rp]
  <2>1. PICK kept : kept = [s \in DOMAIN rs \ gone |-> rs[s]]
    OBVIOUS
  <2>2. k = [m EXCEPT !.reps = [s \in DOMAIN kept |-> IF s = last THEN [kept[s] EXCEPT !.refs = @ - 1] ELSE kept[s]]]
    BY <1>1, <1>2, <1>3, <1>4, <2>1 DEF Cal!Without
  <2>3. [s \in DOMAIN kept |-> IF s = last THEN [kept[s] EXCEPT !.refs = @ - 1] ELSE kept[s]] = left
    BY <1>6, <2>1
  <2>4. k = [m EXCEPT !.reps = left]
    BY <2>2, <2>3
  <2> QED
    BY <1>1, <2>4
<1>9. DOMAIN left \subseteq DOMAIN rs /\ \A s \in DOMAIN left : left[s].inner = rs[s].inner
  <2>1. \A s \in DOMAIN rs : rs[s] \in [refs : Nat, inner : Reps \cup {0}]
    BY DEF Counted
  <2> QED
    BY <1>6, <2>1
<1> QED
  BY <1>7, <1>8, <1>9

LEMMA RefIsMore ==
    ASSUME NEW rs, NEW rp, NEW r
    PROVE  Cal!ref([reps |-> rs, rep |-> rp], r) = [reps |-> IF r = 0 THEN rs ELSE [rs EXCEPT ![r].refs = @ + 1], rep |-> rp]
BY DEF Cal!ref

LEMMA HasWhatIsThere ==
    ASSUME Counted(reps, rep), NEW x \in Handles, rep[x] # -1
    PROVE  rep[x] \in DOMAIN reps \cup {0}
<1>1. rep[x] \in Reps \cup {0}
  BY DEF Counted
<1>2. rep[x] # 0 => rep[x] > 0
  BY <1>1, RepsAreNumbers
<1> QED
  BY <1>2 DEF Counted

LEMMA CopiedKeeps ==
    ASSUME Counted(reps, rep), NEW h \in Handles, rep[h] = -1, NEW r \in DOMAIN reps \cup {0}, Cal!Copied(h, r)
    PROVE  Counted(reps', rep')
<1>1. PICK more : more = IF r = 0 THEN reps ELSE [reps EXCEPT ![r].refs = @ + 1]
  OBVIOUS
<1>2. Cal!ref(Cal!Memory, r) = [reps |-> more, rep |-> rep]
  BY <1>1, RefIsMore DEF Cal!Memory
<1>3. reps' = more /\ rep' = [rep EXCEPT ![h] = r]
  <2>1. PICK m : m = Cal!ref(Cal!Memory, r)
    OBVIOUS
  <2>2. Cal!Becomes([m EXCEPT !.rep[h] = r])
    BY <2>1 DEF Cal!Copied
  <2>3. m = [reps |-> more, rep |-> rep]
    BY <1>2, <2>1
  <2> QED
    BY <2>2, <2>3 DEF Cal!Becomes
<1> QED
  BY <1>1, <1>3, Refers

\* What is assigned stays while the old one goes.
LEMMA AssignedKeeps ==
    ASSUME Counted(reps, rep), NEW h \in Handles, rep[h] # -1, NEW r,
           NEW m \in Cal!Assigned(Cal!Memory, h, r), Cal!Becomes(m),
           \A k \in Cal!unref(Cal!Memory, rep[h]) :
               DOMAIN k.reps = DOMAIN m.reps => r \in DOMAIN k.reps \cup {0}
    PROVE  Counted(reps', rep')
<1>1. CASE rep[h] = r
  <2>1. m = Cal!Memory
    BY <1>1 DEF Cal!Assigned, Cal!Memory
  <2> QED
    BY <2>1 DEF Cal!Becomes, Cal!Memory
<1>2. CASE rep[h] # r
  <2>1. PICK k \in Cal!unref(Cal!Memory, rep[h]) : m = Cal!ref([k EXCEPT !.rep[h] = r], r)
    BY <1>2 DEF Cal!Assigned, Cal!Memory
  <2>2. /\ k = [reps |-> k.reps, rep |-> rep] /\ Counted(k.reps, [rep EXCEPT ![h] = -1])
    BY <2>1, Unrefs DEF Cal!Memory
  <2>3. PICK ks : ks = k.reps
    OBVIOUS
  <2>4. PICK away : away = [rep EXCEPT ![h] = -1]
    OBVIOUS
  <2>5. rep \in [Handles -> Reps \cup {0, -1}] /\ away[h] = -1 /\ [away EXCEPT ![h] = r] = [rep EXCEPT ![h] = r]
    BY <2>4 DEF Counted
  <2>6. PICK more : more = IF r = 0 THEN ks ELSE [ks EXCEPT ![r].refs = @ + 1]
    OBVIOUS
  <2>7. m = [reps |-> more, rep |-> [rep EXCEPT ![h] = r]]
    <3>1. [k EXCEPT !.rep[h] = r] = [reps |-> ks, rep |-> [rep EXCEPT ![h] = r]]
      BY <2>2, <2>3
    <3> QED
      BY <2>1, <2>6, <3>1, RefIsMore
  <2>8. DOMAIN more = DOMAIN ks
    BY <2>6
  <2>9. r \in DOMAIN ks \cup {0}
    BY <2>1, <2>3, <2>7, <2>8
  <2>10. Counted(more, [away EXCEPT ![h] = r])
    BY <2>2, <2>3, <2>4, <2>5, <2>6, <2>9, Refers
  <2> QED
    BY <2>5, <2>7, <2>10 DEF Cal!Becomes
<1> QED
  BY <1>1, <1>2

LEMMA GoesKeeps ==
    ASSUME Counted(reps, rep), NEW h \in Handles, NEW m \in Cal!unref(Cal!Memory, rep[h]),
           Cal!Becomes([m EXCEPT !.rep[h] = -1])
    PROVE  Counted(reps', rep')
<1>1. m = [reps |-> m.reps, rep |-> rep] /\ Counted(m.reps, [rep EXCEPT ![h] = -1])
  BY Unrefs DEF Cal!Memory
<1>2. reps' = m.reps /\ rep' = [rep EXCEPT ![h] = -1]
  <2>1. PICK ms : ms = m.reps
    OBVIOUS
  <2>2. m = [reps |-> ms, rep |-> rep]
    BY <1>1, <2>1
  <2> QED
    BY <2>1, <2>2 DEF Cal!Becomes
<1> QED
  BY <1>1, <1>2

LEMMA CreateKeepsCounts ==
    ASSUME Counted(reps, rep), NEW h \in Handles, NEW inner, inner \in DOMAIN reps \cup {0}, Cal!Create(h, inner)
    PROVE  Counted(reps', rep')
<1>1. PICK more : more = IF inner = 0 THEN reps ELSE [reps EXCEPT ![inner].refs = @ + 1]
  OBVIOUS
<1>2. PICK m : m = Cal!ref(Cal!Memory, inner)
  OBVIOUS
<1>3. m = [reps |-> more, rep |-> rep]
  BY <1>1, <1>2, RefIsMore DEF Cal!Memory
<1>4. rep[h] = -1
  BY DEF Cal!Create, Cal!NotMade
<1>5. PICK r \in Reps \ DOMAIN reps :
          Cal!Becomes([m EXCEPT !.reps = [x \in DOMAIN @ \cup {r} |-> IF x = r THEN [refs |-> 1, inner |-> inner] ELSE @[x]],
                                !.rep[h] = r])
  BY <1>2 DEF Cal!Create
<1>6. PICK all : all = [x \in DOMAIN more \cup {r} |-> IF x = r THEN [refs |-> 1, inner |-> inner] ELSE more[x]]
  OBVIOUS
<1>7. reps' = all /\ rep' = [rep EXCEPT ![h] = r]
  BY <1>3, <1>5, <1>6 DEF Cal!Becomes
<1>8. Counted(all, [rep EXCEPT ![h] = r])
  BY <1>1, <1>4, <1>6, Makes
<1> QED
  BY <1>7, <1>8

LEMMA CallbacksKeep == ASSUME Counted(reps, rep), Cal!CallbackNext PROVE Counted(reps', rep')
<1>1. ASSUME NEW h \in Handles, NEW x \in Handles, Cal!Copy(h, x) PROVE Counted(reps', rep')
  BY <1>1, CopiedKeeps, HasWhatIsThere DEF Cal!Copy, Cal!NotMade
<1>2. ASSUME NEW h \in Handles, NEW x \in Handles, Cal!Append2List(h, x) PROVE Counted(reps', rep')
  <2>1. rep[h] = -1 /\ rep[x] # -1 /\ Cal!Copied(h, rep[x])
    BY <1>2 DEF Cal!Append2List, Cal!NotMade
  <2> QED
    BY <2>1, CopiedKeeps, HasWhatIsThere
<1>3. ASSUME NEW h \in Handles, NEW x \in Handles, Cal!Assign(h, x) PROVE Counted(reps', rep')
  <2>1. rep[h] # -1 /\ rep[x] # -1
    BY <1>3 DEF Cal!Assign, Cal!NotMade
  <2>2. PICK m \in Cal!Assigned(Cal!Memory, h, rep[x]) : Cal!Becomes(m)
    BY <1>3 DEF Cal!Assign
  <2>3. CASE rep[h] = rep[x]
    <3>1. m = Cal!Memory
      BY <2>2, <2>3 DEF Cal!Assigned, Cal!Memory
    <3> QED
      BY <2>2, <3>1 DEF Cal!Becomes, Cal!Memory
  <2>4. CASE rep[h] # rep[x]
    <3>1. ASSUME NEW k \in Cal!unref(Cal!Memory, rep[h]) PROVE rep[x] \in DOMAIN k.reps \cup {0}
      <4>1. Counted(k.reps, [rep EXCEPT ![h] = -1])
        BY <3>1, Unrefs DEF Cal!Memory
      <4>2. PICK away : away = [rep EXCEPT ![h] = -1]
        OBVIOUS
      <4>3. away[x] = rep[x] /\ rep[x] \in Reps \cup {0}
        BY <2>1, <2>4, <4>2 DEF Counted
      <4>4. rep[x] # 0 => away[x] > 0
        BY <4>3, RepsAreNumbers
      <4> QED
        BY <4>1, <4>2, <4>3, <4>4 DEF Counted
    <3> QED
      BY <2>1, <2>2, <3>1, AssignedKeeps
  <2> QED
    BY <2>3, <2>4
<1>4. ASSUME NEW h \in Handles, NEW x \in Handles, Cal!AssignInner(h, x) PROVE Counted(reps', rep')
  <2>1. rep[h] # -1 /\ rep[x] > 0
    BY <1>4 DEF Cal!AssignInner, Cal!NotMade
  <2>2. PICK r : r = reps[rep[x]].inner
    OBVIOUS
  <2>3. PICK m \in Cal!Assigned(Cal!Memory, h, r) : rep[x] \in DOMAIN m.reps /\ Cal!Becomes(m)
    BY <1>4, <2>2 DEF Cal!AssignInner
  <2>4. ASSUME NEW k \in Cal!unref(Cal!Memory, rep[h]), rep[x] \in DOMAIN k.reps PROVE r \in DOMAIN k.reps \cup {0}
    <3>1. Counted(k.reps, [rep EXCEPT ![h] = -1]) /\ k.reps[rep[x]].inner = r
      BY <2>2, <2>4, Unrefs DEF Cal!Memory
    <3> QED
      BY <2>4, <3>1 DEF Counted
  <2> QED
    BY <2>1, <2>3, <2>4, AssignedKeeps
<1>5. ASSUME NEW h \in Handles, NEW x \in Handles, Cal!Create(h, rep[x]) PROVE Counted(reps', rep')
  <2>1. rep[x] # -1
    BY <1>5 DEF Cal!Create, Cal!NotMade
  <2> QED
    BY <1>5, <2>1, HasWhatIsThere, CreateKeepsCounts
<1>6. ASSUME NEW h \in Handles, Cal!Create(h, 0) PROVE Counted(reps', rep')
  BY <1>6, CreateKeepsCounts
<1>7. ASSUME NEW h \in Handles, Cal!Destroy(h) PROVE Counted(reps', rep')
  BY <1>7, GoesKeeps DEF Cal!Destroy, Cal!NotMade
<1>8. ASSUME NEW h \in Handles, Cal!Erase(h) PROVE Counted(reps', rep')
  BY <1>8, GoesKeeps DEF Cal!Erase, Cal!NotMade
<1>9. CASE Cal!BeginCall
  BY <1>9 DEF Cal!BeginCall
<1>10. ASSUME NEW stopped \in BOOLEAN, Cal!HookReturns(stopped) PROVE Counted(reps', rep')
  BY <1>10 DEF Cal!HookReturns
<1> QED
  BY <1>1, <1>2, <1>3, <1>4, <1>5, <1>6, <1>7, <1>8, <1>9, <1>10 DEF Cal!CallbackNext

LEMMA CallbackInitCounted == Cal!CallbackInit => Counted(reps, rep)
<1> SUFFICES ASSUME Cal!CallbackInit PROVE Counted(reps, rep)
  OBVIOUS
<1>1. DOMAIN reps = {} /\ reps \in [DOMAIN reps -> [refs : Nat, inner : Reps \cup {0}]]
  BY DEF Cal!CallbackInit
<1>2. rep \in [Handles -> Reps \cup {0, -1}] /\ \A h \in Handles : rep[h] = -1
  BY DEF Cal!CallbackInit, Cal!NotMade
<1>3. ~(-1 > 0)
  OBVIOUS
<1> QED
  BY <1>1, <1>2, <1>3 DEF Counted

LEMMA CalCount == ASSUME NEW S PROVE Cal!Cardinality(S) = Cardinality(S)
  BY DEF Cal!Cardinality, Cardinality

LEMMA CountedRight == ASSUME Counted(reps, rep) PROVE Cal!CountsAreRight
<1>1. ASSUME NEW r \in DOMAIN reps
      PROVE  reps[r].refs = Cal!Cardinality({h \in Handles : rep[h] = r}) + Cal!Cardinality({s \in DOMAIN reps : reps[s].inner = r})
  BY CalCount DEF Counted, Users, Inside
<1> QED
  BY <1>1 DEF Counted, Cal!CountsAreRight

-----------------------------------------------------------------------------
LEMMA OwnInitRight == Con!UnwindInit => OwnInv
<1> SUFFICES ASSUME Con!UnwindInit PROVE OwnInv
  OBVIOUS
<1>1. unwind = [o \in Owners |-> [object |-> "none", owner |-> FALSE]] /\ alive = {} /\ deleted = {}
  BY DEF Con!UnwindInit, Con!NotMade
<1>2. [object |-> "none", owner |-> FALSE] \in Unwinds
  BY DEF Unwinds
<1>3. unwind \in [Owners -> Unwinds] /\ \A o \in Owners : unwind[o] = [object |-> "none", owner |-> FALSE]
  BY <1>1, <1>2
<1> QED
  BY <1>1, <1>3 DEF OwnInv

LEMMA AutoInitRight == Aut!AutoInit => AutoInv
<1> SUFFICES ASSUME Aut!AutoInit PROVE AutoInv
  OBVIOUS
<1>1. handles = <<>> /\ m_library = [l \in Libs |-> 0] /\ pointer \in [Pointers -> [lib : Libs, found : {FALSE}]]
  BY DEF Aut!AutoInit, Aut!None
<1>2. handles \in Seq(Loads) /\ Len(handles) = 0
  BY <1>1
<1>3. pointer \in [Pointers -> [lib : Libs, found : BOOLEAN]] /\ \A p \in Pointers : pointer[p].found = FALSE
  BY <1>1
<1> QED
  BY <1>1, <1>2, <1>3 DEF AutoInv

\* The states of what is shared, all counted right.
LifetimesInv == Counted(reps, rep) /\ DirInv /\ OwnInv /\ AutoInv

\* What handles share is counted, freed with the last of them and by no other,
\* and stays as long as one refers to it, if nobody but the program itself drops
\* the libraries it loaded (Callback.h:711, DirIterator.cpp release, Unwind.h,
\* AutoLoad.cpp:28).
THEOREM LifetimesCountedCorrect == ASSUME HandsOff PROVE Spec => []LifetimesCounted
<1>1. Init => LifetimesInv
  BY CallbackInitCounted, DirInitRight, OwnInitRight, AutoInitRight DEF Init, LifetimesInv
<1>2. LifetimesInv /\ [Next /\ UNCHANGED kind]_vars => LifetimesInv'
  <2> SUFFICES ASSUME LifetimesInv, [Next /\ UNCHANGED kind]_vars PROVE LifetimesInv'
    OBVIOUS
  <2>1. Counted(reps', rep')
    <3>1. Cal!CallbackNext \/ UNCHANGED callbackVars
      BY DEF Next, vars
    <3>2. CASE UNCHANGED callbackVars
      <4>1. reps' = reps /\ rep' = rep
        BY <3>2 DEF callbackVars
      <4> QED
        BY <4>1 DEF LifetimesInv
    <3> QED
      BY <3>1, <3>2, CallbacksKeep DEF LifetimesInv
  <2>2. DirInv'
    <3>1. Dir!DirNext \/ UNCHANGED dirVars
      BY DEF Next, vars
    <3>2. CASE UNCHANGED dirVars
      BY <3>2 DEF dirVars, LifetimesInv, DirInv, DirRight, DataTypes, ReadersRight, RefsRight, At, Reads
    <3> QED
      BY <3>1, <3>2, DirKeeps DEF LifetimesInv
  <2>3. OwnInv'
    <3>1. Con!UnwindNext \/ UNCHANGED <<unwind, alive, deleted>>
      BY DEF Next, vars, containerVars
    <3>2. CASE UNCHANGED <<unwind, alive, deleted>>
      BY <3>2 DEF LifetimesInv, OwnInv
    <3> QED
      BY <3>1, <3>2, OwnKeeps DEF LifetimesInv
  <2>4. AutoInv'
    <3>1. Aut!AutoNext \/ UNCHANGED autoVars
      BY DEF Next, vars, fileVars
    <3>2. CASE UNCHANGED autoVars
      BY <3>2 DEF autoVars, LifetimesInv, AutoInv
    <3> QED
      BY <3>1, <3>2, AutoKeeps DEF LifetimesInv
  <2> QED
    BY <2>1, <2>2, <2>3, <2>4 DEF LifetimesInv, Counted, Users, Inside
<1>3. LifetimesInv => LifetimesCounted
  BY CountedRight, StatesAreCounted, OwnedByOne, LibrariesThere DEF LifetimesInv, LifetimesCounted
<1> QED
  BY <1>1, <1>2, <1>3, PTL DEF Spec
-----------------------------------------------------------------------------
(* Vectors, ranges and callbacks as values.                                *)

InMemory == Elements \cup {Con!Garbage}

\* What is in the memory of a vector up to its end was put in there.
Holds(v, s) ==
    /\ v \in [mem : Seq(InMemory), end : Nat] /\ v.end <= Len(v.mem)
    /\ s \in Seq(Elements) /\ Len(s) = v.end
    /\ \A k \in 1..v.end : v.mem[k] = s[k]

LEMMA HoldsContents == ASSUME Holds(vector, expected) PROVE Con!VectorHoldsAll
<1>1. /\ vector.mem \in Seq(InMemory) /\ vector.end \in Nat /\ vector.end <= Len(vector.mem)
      /\ expected \in Seq(Elements) /\ Len(expected) = vector.end
      /\ \A k \in 1..vector.end : vector.mem[k] = expected[k]
  BY DEF Holds
<1>2. \A k \in 1..vector.end : vector.mem[k] \in InMemory
  BY <1>1, ElementOfSeq DEF InMemory
<1>3. PICK c : c = SubSeq(vector.mem, 1, vector.end)
  OBVIOUS
<1>4. c \in Seq(InMemory) /\ Len(c) = vector.end /\ \A k \in 1..vector.end : c[k] = vector.mem[k]
  <2>1. 1 \in Int /\ vector.end \in Int
    BY <1>1
  <2>2. /\ c \in Seq(InMemory)
        /\ Len(c) = IF 1 <= vector.end THEN vector.end - 1 + 1 ELSE 0
        /\ \A k \in 1..vector.end - 1 + 1 : c[k] = vector.mem[1 + k - 1]
    BY <1>2, <1>3, <2>1, SubSeqProperties
  <2> QED
    BY <1>1, <2>2
<1>5. expected \in Seq(InMemory)
  BY <1>1, SeqMonotonic DEF InMemory
<1>6. c = expected
  <2>1. Len(c) = Len(expected) /\ \A k \in 1..Len(c) : c[k] = expected[k]
    BY <1>1, <1>4
  <2> QED
    BY <1>4, <1>5, <2>1, SeqEqual
<1> QED
  BY <1>3, <1>6 DEF Con!VectorHoldsAll, Con!Contents

\* An element between the first pos of n and the rest.
Between(s, n, pos, e) == SubSeq(s, 1, pos) \o <<e>> \o SubSeq(s, pos + 1, n)
IsBetween(t, T, s, n, pos, e) ==
    /\ t \in Seq(T) /\ Len(t) = n + 1
    /\ \A k \in 1..n + 1 : t[k] = IF k <= pos THEN s[k] ELSE IF k = pos + 1 THEN e ELSE s[k - 1]

LEMMA InsertedIs ==
    ASSUME NEW T, NEW s \in Seq(T), NEW n \in 0..Len(s), NEW pos \in 0..n, NEW e \in T
    PROVE  IsBetween(Between(s, n, pos, e), T, s, n, pos, e)
<1>t. PICK t : t = Between(s, n, pos, e)
  OBVIOUS
<1>1. Len(s) \in Nat /\ n \in Nat /\ pos \in Nat /\ pos <= n /\ n <= Len(s)
  BY LenProperties
<1>2. \A k \in 1..n : s[k] \in T
  BY <1>1, ElementOfSeq
<1>3. PICK a : a = SubSeq(s, 1, pos)
  OBVIOUS
<1>4. PICK b : b = SubSeq(s, pos + 1, n)
  OBVIOUS
<1>5. a \in Seq(T) /\ Len(a) = pos /\ \A k \in 1..pos : a[k] = s[k]
  <2>1. 1 \in Int /\ pos \in Int /\ \A k \in 1..pos : s[k] \in T
    BY <1>1, <1>2
  <2>2. /\ a \in Seq(T)
        /\ Len(a) = IF 1 <= pos THEN pos - 1 + 1 ELSE 0
        /\ \A k \in 1..pos - 1 + 1 : a[k] = s[1 + k - 1]
    BY <1>3, <2>1, SubSeqProperties
  <2> QED
    BY <1>1, <2>2
<1>6. b \in Seq(T) /\ Len(b) = n - pos /\ \A k \in 1..n - pos : b[k] = s[pos + k]
  <2>1. pos + 1 \in Int /\ n \in Int /\ \A k \in pos + 1..n : s[k] \in T
    BY <1>1, <1>2
  <2>2. /\ b \in Seq(T)
        /\ Len(b) = IF pos + 1 <= n THEN n - (pos + 1) + 1 ELSE 0
        /\ \A k \in 1..n - (pos + 1) + 1 : b[k] = s[(pos + 1) + k - 1]
    BY <1>4, <2>1, SubSeqProperties
  <2> QED
    BY <1>1, <2>2
<1>7. <<e>> \in Seq(T) /\ Len(<<e>>) = 1 /\ <<e>>[1] = e
  OBVIOUS
<1>8. PICK c : c = a \o <<e>>
  OBVIOUS
<1>9. /\ c \in Seq(T) /\ Len(c) = pos + 1
      /\ \A k \in 1..pos + 1 : c[k] = IF k <= pos THEN s[k] ELSE e
  <2>1. /\ c \in Seq(T) /\ Len(c) = Len(a) + Len(<<e>>)
        /\ \A k \in 1..Len(a) + Len(<<e>>) : c[k] = IF k <= Len(a) THEN a[k] ELSE <<e>>[k - Len(a)]
    BY <1>5, <1>7, <1>8, ConcatProperties
  <2>2. \A k \in 1..pos + 1 : c[k] = IF k <= pos THEN a[k] ELSE <<e>>[k - pos]
    BY <1>5, <1>7, <2>1
  <2>3. ASSUME NEW k \in 1..pos + 1 PROVE c[k] = IF k <= pos THEN s[k] ELSE e
    <3>1. CASE k <= pos
      BY <1>1, <1>5, <2>2, <3>1
    <3>2. CASE ~(k <= pos)
      <4>1. k - pos = 1
        BY <1>1, <3>2
      <4> QED
        BY <1>7, <2>2, <3>2, <4>1
    <3> QED
      BY <3>1, <3>2
  <2> QED
    BY <1>5, <1>7, <2>1, <2>3
<1>10. t = c \o b
  BY <1>t, <1>3, <1>4, <1>8 DEF Between
<1>11. /\ t \in Seq(T) /\ Len(t) = Len(c) + Len(b)
       /\ \A k \in 1..Len(c) + Len(b) : t[k] = IF k <= Len(c) THEN c[k] ELSE b[k - Len(c)]
  BY <1>6, <1>9, <1>10, ConcatProperties
<1>12. Len(t) = n + 1
  BY <1>1, <1>6, <1>9, <1>11
<1>13. ASSUME NEW k \in 1..n + 1
       PROVE  t[k] = IF k <= pos THEN s[k] ELSE IF k = pos + 1 THEN e ELSE s[k - 1]
  <2>1. CASE k <= pos + 1
    BY <1>1, <1>6, <1>9, <1>11, <1>12, <2>1
  <2>2. CASE ~(k <= pos + 1)
    <3>1. k - (pos + 1) \in 1..n - pos /\ ~(k <= pos) /\ k # pos + 1
      BY <1>1, <2>2
    <3>2. b[k - (pos + 1)] = s[pos + (k - (pos + 1))] /\ pos + (k - (pos + 1)) = k - 1
      BY <1>1, <1>6, <3>1
    <3>3. t[k] = b[k - (pos + 1)]
      BY <1>1, <1>9, <1>11, <1>12, <2>2
    <3> QED
      BY <3>1, <3>2, <3>3
  <2> QED
    BY <2>1, <2>2
<1> QED
  BY <1>t, <1>11, <1>12, <1>13 DEF IsBetween

LEMMA RawIs == ASSUME NEW n \in Nat PROVE Con!Raw(n) \in Seq(InMemory) /\ Len(Con!Raw(n)) = n
<1>1. PICK r : r = [k \in 1..n |-> Con!Garbage]
  OBVIOUS
<1>2. r \in [1..n -> InMemory]
  BY <1>1 DEF InMemory
<1>3. r \in Seq(InMemory) /\ Len(r) = n
  BY <1>2, SeqDef
<1> QED
  BY <1>1, <1>3 DEF Con!Raw

\* More memory behind what there is.
LEMMA WithRaw ==
    ASSUME NEW m \in Seq(InMemory), NEW n \in Nat, NEW s \in Seq(Elements), Len(s) <= Len(m),
           \A k \in 1..Len(s) : m[k] = s[k]
    PROVE  Holds([mem |-> m \o Con!Raw(n), end |-> Len(s)], s)
<1>1. Len(m) \in Nat /\ Len(s) \in Nat
  BY LenProperties
<1>2. PICK r : r = Con!Raw(n)
  OBVIOUS
<1>3. r \in Seq(InMemory) /\ Len(r) = n
  BY <1>2, RawIs
<1>4. PICK c : c = m \o r
  OBVIOUS
<1>5. /\ c \in Seq(InMemory) /\ Len(c) = Len(m) + Len(r)
      /\ \A k \in 1..Len(m) + Len(r) : c[k] = IF k <= Len(m) THEN m[k] ELSE r[k - Len(m)]
  BY <1>3, <1>4, ConcatProperties
<1>6. \A k \in 1..Len(s) : c[k] = s[k]
  <2> TAKE k \in 1..Len(s)
  <2>1. k \in 1..Len(m) + Len(r) /\ k <= Len(m)
    BY <1>1, <1>3
  <2> QED
    BY <1>5, <2>1
<1>7. Holds([mem |-> c, end |-> Len(s)], s)
  BY <1>1, <1>3, <1>5, <1>6 DEF Holds
<1> QED
  BY <1>2, <1>4, <1>7

\* What a reference refers to is the same in the vector and in what was put in.
Meant(s, x) == IF x.inside THEN s[x.at] ELSE x.value

LEMMA ReferredIs ==
    ASSUME Holds(vector, expected), NEW x \in Con!References
    PROVE  Con!Referred(vector, x) = Meant(expected, x) /\ Meant(expected, x) \in Elements
<1>1. CASE x.inside
  <2>1. x.at \in 1..vector.end
    BY <1>1 DEF Con!References
  <2> QED
    BY <1>1, <2>1, ElementOfSeq DEF Holds, Con!Referred, Meant
<1>2. CASE ~x.inside
  BY <1>2 DEF Con!References, Con!Referred, Meant
<1> QED
  BY <1>1, <1>2

\* The new memory of a full vector has the new element between the others.
LEMMA GrownHolds ==
    ASSUME Holds(vector, expected), NEW pos \in 0..vector.end, NEW x \in Con!References, NEW s,
           s = Between(expected, vector.end, pos, Meant(expected, x))
    PROVE  Holds(Con!Grown(vector, pos, x), s)
<1>1. /\ vector.mem \in Seq(InMemory) /\ vector.end \in Nat /\ vector.end <= Len(vector.mem)
      /\ expected \in Seq(Elements) /\ Len(expected) = vector.end /\ Len(vector.mem) \in Nat
      /\ \A k \in 1..vector.end : vector.mem[k] = expected[k]
  BY LenProperties DEF Holds
<1>2. PICK e : e = Meant(expected, x)
  OBVIOUS
<1>3. e = Con!Referred(vector, x) /\ e \in Elements /\ e \in InMemory
  BY <1>2, ReferredIs DEF InMemory
<1>4. PICK g : g = Between(vector.mem, vector.end, pos, e)
  OBVIOUS
<1>5. /\ g \in Seq(InMemory) /\ Len(g) = vector.end + 1
      /\ \A k \in 1..vector.end + 1 : g[k] = IF k <= pos THEN vector.mem[k] ELSE IF k = pos + 1 THEN e ELSE vector.mem[k - 1]
  <2>1. vector.mem \in Seq(InMemory) /\ vector.end \in 0..Len(vector.mem) /\ pos \in 0..vector.end
    BY <1>1
  <2>2. IsBetween(g, InMemory, vector.mem, vector.end, pos, e)
    BY <1>3, <1>4, <2>1, InsertedIs, Zenon
  <2> QED
    BY <2>2 DEF IsBetween
<1>6. /\ s \in Seq(Elements) /\ Len(s) = vector.end + 1
      /\ \A k \in 1..vector.end + 1 : s[k] = IF k <= pos THEN expected[k] ELSE IF k = pos + 1 THEN e ELSE expected[k - 1]
  <2>1. expected \in Seq(Elements) /\ vector.end \in 0..Len(expected) /\ pos \in 0..vector.end
    BY <1>1
  <2>2. s = Between(expected, vector.end, pos, e)
    BY <1>2
  <2>3. IsBetween(s, Elements, expected, vector.end, pos, e)
    BY <1>3, <2>1, <2>2, InsertedIs, Zenon
  <2> QED
    BY <2>3 DEF IsBetween
<1>7. \A k \in 1..Len(s) : g[k] = s[k]
  <2> SUFFICES ASSUME NEW k \in 1..vector.end + 1 PROVE g[k] = s[k]
    BY <1>6
  <2>1. CASE k <= pos
    <3>1. k \in 1..vector.end
      BY <1>1, <2>1
    <3> QED
      BY <1>1, <1>5, <1>6, <2>1, <3>1
  <2>2. CASE k = pos + 1
    BY <1>1, <1>5, <1>6, <2>2
  <2>3. CASE ~(k <= pos) /\ k # pos + 1
    <3>1. k - 1 \in 1..vector.end
      BY <1>1, <2>3
    <3> QED
      BY <1>1, <1>5, <1>6, <2>3, <3>1
  <2> QED
    BY <2>1, <2>2, <2>3
<1>8. PICK room \in Nat : /\ room = IF vector.end = 0 THEN 1 ELSE 2 * vector.end
                          /\ room - Len(g) \in Nat
  <2>1. CASE vector.end = 0
    BY <1>1, <1>5, <2>1
  <2>2. CASE vector.end # 0
    <3>1. 2 * vector.end \in Nat /\ 2 * vector.end - (vector.end + 1) \in Nat
      BY <1>1, <2>2
    <3> QED
      BY <1>5, <2>2, <3>1
  <2> QED
    BY <2>1, <2>2
<1>9. Con!Grown(vector, pos, x) = [mem |-> g \o Con!Raw(room - Len(g)), end |-> Len(g)]
  BY <1>3, <1>4, <1>8 DEF Con!Grown, Between
<1>10. Holds([mem |-> g \o Con!Raw(room - Len(g)), end |-> Len(s)], s)
  <2>1. Len(s) <= Len(g)
    BY <1>1, <1>5, <1>6
  <2> QED
    BY <1>5, <1>6, <1>7, <1>8, <2>1, WithRaw
<1> QED
  BY <1>5, <1>6, <1>9, <1>10


\* With room to spare the new element is behind the others.
LEMMA PlacedHolds ==
    ASSUME Holds(vector, expected), NEW x \in Con!References, Con!HasRoom(vector),
           vector' = Con!Placed(vector, x), expected' = Append(expected, Meant(expected, x))
    PROVE  Holds(vector', expected')
<1>1. /\ vector.mem \in Seq(InMemory) /\ vector.end \in Nat /\ vector.end <= Len(vector.mem)
      /\ expected \in Seq(Elements) /\ Len(expected) = vector.end /\ Len(vector.mem) \in Nat
      /\ \A k \in 1..vector.end : vector.mem[k] = expected[k]
  BY LenProperties DEF Holds
<1>2. PICK e : e = Meant(expected, x)
  OBVIOUS
<1>3. e = Con!Referred(vector, x) /\ e \in Elements /\ e \in InMemory
  BY <1>2, ReferredIs DEF InMemory
<1>4. expected' = Append(expected, e)
  BY <1>2
<1>5. /\ expected' \in Seq(Elements) /\ Len(expected') = vector.end + 1
      /\ \A k \in 1..vector.end + 1 : expected'[k] = IF k <= vector.end THEN expected[k] ELSE e
  <2>1. expected' \in Seq(Elements) /\ Len(expected') = vector.end + 1
    BY <1>1, <1>3, <1>4
  <2>2. ASSUME NEW k \in 1..vector.end + 1 PROVE expected'[k] = IF k <= vector.end THEN expected[k] ELSE e
    BY <1>1, <1>3, <1>4
  <2> QED
    BY <2>1, <2>2
<1>6. vector.end + 1 \in 1..Len(vector.mem)
  BY <1>1 DEF Con!HasRoom, Con!Limit
<1>7. PICK m : m = [vector.mem EXCEPT ![vector.end + 1] = e]
  OBVIOUS
<1>8. /\ m \in Seq(InMemory) /\ Len(m) = Len(vector.mem)
      /\ \A j \in 1..Len(vector.mem) : m[j] = IF j = vector.end + 1 THEN e ELSE vector.mem[j]
  BY <1>1, <1>3, <1>6, <1>7, ExceptSeq
<1>9. vector' = [mem |-> m, end |-> vector.end + 1]
  BY <1>3, <1>7 DEF Con!Placed
<1>10. \A k \in 1..vector.end + 1 : m[k] = expected'[k]
  <2> TAKE k \in 1..vector.end + 1
  <2>1. k \in 1..Len(vector.mem) /\ (k # vector.end + 1 => k \in 1..vector.end /\ k <= vector.end) /\ (k = vector.end + 1 => ~(k <= vector.end))
    BY <1>1, <1>6
  <2> QED
    BY <1>1, <1>5, <1>8, <2>1
<1>11. vector.end + 1 \in Nat /\ vector.end + 1 <= Len(m)
  BY <1>1, <1>6, <1>8
<1> QED
  BY <1>5, <1>8, <1>9, <1>10, <1>11 DEF Holds

LEMMA PushBackKeeps ==
    ASSUME Holds(vector, expected), NEW x \in Con!References, Con!PushBack(x)
    PROVE  Holds(vector', expected')
<1>1. /\ vector.mem \in Seq(InMemory) /\ vector.end \in Nat /\ vector.end <= Len(vector.mem)
      /\ expected \in Seq(Elements) /\ Len(expected) = vector.end /\ Len(vector.mem) \in Nat
      /\ \A k \in 1..vector.end : vector.mem[k] = expected[k]
  BY LenProperties DEF Holds
<1>2. PICK e : e = Meant(expected, x)
  OBVIOUS
<1>3. e = Con!Referred(vector, x) /\ e \in Elements /\ e \in InMemory
  BY <1>2, ReferredIs DEF InMemory
<1>4. expected' = Append(expected, e)
  BY <1>2 DEF Con!PushBack, Con!Meant, Meant
<1>5. /\ expected' \in Seq(Elements) /\ Len(expected') = vector.end + 1
      /\ \A k \in 1..vector.end + 1 : expected'[k] = IF k <= vector.end THEN expected[k] ELSE e
  <2>1. expected' \in Seq(Elements) /\ Len(expected') = vector.end + 1
    BY <1>1, <1>3, <1>4
  <2>2. ASSUME NEW k \in 1..vector.end + 1 PROVE expected'[k] = IF k <= vector.end THEN expected[k] ELSE e
    BY <1>1, <1>3, <1>4
  <2> QED
    BY <2>1, <2>2
<1>6. CASE Con!HasRoom(vector)
  BY <1>2, <1>4, <1>6, PlacedHolds DEF Con!PushBack
<1>7. CASE ~Con!HasRoom(vector)
  <2>1. vector' = Con!Grown(vector, vector.end, x)
    BY <1>7 DEF Con!PushBack
  <2>2. PICK s : s = Between(expected, vector.end, vector.end, e)
    OBVIOUS
  <2>3. vector.end \in 0..vector.end /\ vector.end \in 0..Len(expected) /\ expected \in Seq(Elements)
    BY <1>1
  <2>4. IsBetween(s, Elements, expected, vector.end, vector.end, e)
    BY <1>3, <2>2, <2>3, InsertedIs, Zenon
  <2>5. Holds(vector', s)
    BY <1>2, <2>1, <2>2, <2>3, GrownHolds
  <2>6. \A k \in 1..vector.end + 1 : s[k] = expected'[k]
    <3> TAKE k \in 1..vector.end + 1
    <3>1. k = vector.end + 1 \/ k <= vector.end
      BY <1>1
    <3> QED
      BY <1>5, <2>4, <3>1 DEF IsBetween
  <2>7. s = expected'
    BY <1>5, <2>4, <2>6, SeqEqual DEF IsBetween
  <2> QED
    BY <2>5, <2>7
<1> QED
  BY <1>6, <1>7

LEMMA InsertKeeps ==
    ASSUME Holds(vector, expected), NEW pos \in 0..vector.end, NEW x \in Con!References, Con!Insert(pos, x)
    PROVE  Holds(vector', expected')
<1>1. expected \in Seq(Elements) /\ Len(expected) = vector.end /\ vector.end \in Nat
  BY DEF Holds
<1>2. CASE Con!HasRoom(vector)
  BY <1>2, PlacedHolds DEF Con!Insert, Con!Meant, Meant
<1>3. CASE ~Con!HasRoom(vector)
  <2>1. vector' = Con!Grown(vector, pos, x)
    BY <1>3 DEF Con!Insert
  <2>2. expected' = Con!InsertAt(expected, pos + 1, Meant(expected, x))
    BY <1>3 DEF Con!Insert, Con!Meant, Meant
  <2>3. pos + 1 - 1 = pos
    BY <1>1
  <2>4. expected' = Between(expected, vector.end, pos, Meant(expected, x))
    BY <1>1, <2>2, <2>3 DEF Con!InsertAt, Between
  <2> QED
    BY <2>1, <2>4, GrownHolds
<1> QED
  BY <1>2, <1>3

LEMMA PopBackKeeps == ASSUME Holds(vector, expected), Con!PopBack PROVE Holds(vector', expected')
<1>1. /\ vector.mem \in Seq(InMemory) /\ vector.end \in Nat /\ vector.end <= Len(vector.mem)
      /\ expected \in Seq(Elements) /\ Len(expected) = vector.end /\ Len(vector.mem) \in Nat
      /\ \A k \in 1..vector.end : vector.mem[k] = expected[k]
      /\ vector = [mem |-> vector.mem, end |-> vector.end]
  BY LenProperties DEF Holds
<1>2. PICK n \in Nat : n = vector.end - 1 /\ vector.end = n + 1
  BY <1>1 DEF Con!PopBack
<1>3. vector' = [mem |-> vector.mem, end |-> n]
  BY <1>1, <1>2 DEF Con!PopBack
<1>4. expected' = SubSeq(expected, 1, n)
  BY <1>1, <1>2 DEF Con!PopBack, Con!Front
<1>5. \A k \in 1..n : expected[k] \in Elements
  BY <1>1, <1>2, ElementOfSeq
<1>6. /\ expected' \in Seq(Elements) /\ Len(expected') = n
      /\ \A k \in 1..n : expected'[k] = expected[k]
  <2>1. 1 \in Int /\ n \in Int
    BY <1>2
  <2>2. /\ expected' \in Seq(Elements) /\ Len(expected') = IF 1 <= n THEN n - 1 + 1 ELSE 0
        /\ \A k \in 1..n - 1 + 1 : expected'[k] = expected[1 + k - 1]
    BY <1>4, <1>5, <2>1, SubSeqProperties
  <2>3. n - 1 + 1 = n /\ (~(1 <= n) => n = 0) /\ \A k \in 1..n : 1 + k - 1 = k
    OBVIOUS
  <2> QED
    BY <2>2, <2>3
<1>7. n <= Len(vector.mem) /\ \A k \in 1..n : vector.mem[k] = expected'[k]
  BY <1>1, <1>2, <1>6
<1> QED
  BY <1>1, <1>3, <1>6, <1>7 DEF Holds

LEMMA EraseKeeps ==
    ASSUME Holds(vector, expected), NEW pos \in Nat, Con!Erase(pos)
    PROVE  Holds(vector', expected')
<1>1. /\ vector.mem \in Seq(InMemory) /\ vector.end \in Nat /\ vector.end <= Len(vector.mem)
      /\ expected \in Seq(Elements) /\ Len(expected) = vector.end /\ Len(vector.mem) \in Nat
      /\ \A k \in 1..vector.end : vector.mem[k] = expected[k]
      /\ vector = [mem |-> vector.mem, end |-> vector.end] /\ DOMAIN vector.mem = 1..Len(vector.mem)
  BY LenProperties DEF Holds
<1>2. pos \in 1..vector.end
  BY DEF Con!Erase
<1>3. PICK n \in Nat : n = vector.end - 1 /\ vector.end = n + 1
  BY <1>1, <1>2
<1>4. PICK m : m = [k \in 1..Len(vector.mem) |-> IF k \in pos..n THEN vector.mem[k + 1] ELSE vector.mem[k]]
  OBVIOUS
<1>5. vector' = IF n = 0 THEN Con!NoVector ELSE [mem |-> m, end |-> n]
  <2>1. PICK w : w = [vector EXCEPT !.mem = [k \in DOMAIN @ |-> IF k \in pos..vector.end - 1 THEN @[k + 1] ELSE @[k]],
                                    !.end = @ - 1]
    OBVIOUS
  <2>2. w = [mem |-> m, end |-> n]
    BY <1>1, <1>3, <1>4, <2>1
  <2>3. vector' = IF w.end = 0 THEN Con!NoVector ELSE w
    BY <2>1 DEF Con!Erase
  <2> QED
    BY <2>2, <2>3
<1>6. \A k \in 1..vector.end : expected[k] \in Elements
  BY <1>1, ElementOfSeq
<1>7. PICK a : a = SubSeq(expected, 1, pos - 1)
  OBVIOUS
<1>8. PICK b : b = SubSeq(expected, pos + 1, vector.end)
  OBVIOUS
<1>9. expected' = a \o b
  BY <1>1, <1>7, <1>8 DEF Con!Erase, Con!RemoveAt
<1>10. a \in Seq(Elements) /\ Len(a) = pos - 1 /\ \A k \in 1..pos - 1 : a[k] = expected[k]
  <2>1. 1 \in Int /\ pos - 1 \in Int /\ \A k \in 1..pos - 1 : expected[k] \in Elements
    BY <1>1, <1>2, <1>6
  <2>2. /\ a \in Seq(Elements) /\ Len(a) = IF 1 <= pos - 1 THEN pos - 1 - 1 + 1 ELSE 0
        /\ \A k \in 1..pos - 1 - 1 + 1 : a[k] = expected[1 + k - 1]
    BY <1>7, <2>1, SubSeqProperties
  <2> QED
    BY <1>2, <2>2
<1>11. b \in Seq(Elements) /\ Len(b) = vector.end - pos /\ \A k \in 1..vector.end - pos : b[k] = expected[pos + k]
  <2>1. pos + 1 \in Int /\ vector.end \in Int /\ \A k \in pos + 1..vector.end : expected[k] \in Elements
    BY <1>1, <1>2, <1>6
  <2>2. /\ b \in Seq(Elements) /\ Len(b) = IF pos + 1 <= vector.end THEN vector.end - (pos + 1) + 1 ELSE 0
        /\ \A k \in 1..vector.end - (pos + 1) + 1 : b[k] = expected[(pos + 1) + k - 1]
    BY <1>8, <2>1, SubSeqProperties
  <2>3. /\ vector.end - (pos + 1) + 1 = vector.end - pos /\ (~(pos + 1 <= vector.end) => vector.end - pos = 0)
        /\ \A k \in 1..vector.end - pos : (pos + 1) + k - 1 = pos + k
    BY <1>1, <1>2
  <2> QED
    BY <2>2, <2>3
<1>12. /\ expected' \in Seq(Elements) /\ Len(expected') = n
       /\ \A k \in 1..n : expected'[k] = IF k < pos THEN expected[k] ELSE expected[k + 1]
  <2>1. /\ expected' \in Seq(Elements) /\ Len(expected') = Len(a) + Len(b)
        /\ \A k \in 1..Len(a) + Len(b) : expected'[k] = IF k <= Len(a) THEN a[k] ELSE b[k - Len(a)]
    BY <1>9, <1>10, <1>11, ConcatProperties
  <2>2. Len(a) + Len(b) = n
    BY <1>1, <1>2, <1>3, <1>10, <1>11
  <2>3. ASSUME NEW k \in 1..n PROVE expected'[k] = IF k < pos THEN expected[k] ELSE expected[k + 1]
    <3>1. CASE k < pos
      BY <1>1, <1>2, <1>10, <2>1, <2>2, <3>1
    <3>2. CASE ~(k < pos)
      <4>1. k - (pos - 1) \in 1..vector.end - pos /\ ~(k <= pos - 1) /\ pos + (k - (pos - 1)) = k + 1
        BY <1>1, <1>2, <1>3, <3>2
      <4>2. k \in 1..Len(a) + Len(b) /\ ~(k <= Len(a)) /\ Len(a) = pos - 1
        BY <1>10, <2>2, <4>1
      <4>3. expected'[k] = b[k - (pos - 1)]
        BY <2>1, <4>2
      <4>4. b[k - (pos - 1)] = expected[k + 1]
        BY <1>11, <4>1
      <4> QED
        BY <3>2, <4>3, <4>4
    <3> QED
      BY <3>1, <3>2
  <2> QED
    BY <2>1, <2>2, <2>3
<1>13. CASE n = 0
  <2>1. vector' = [mem |-> <<>>, end |-> 0]
    BY <1>5, <1>13 DEF Con!NoVector
  <2>2. <<>> \in Seq(InMemory) /\ Len(<<>>) = 0
    BY EmptySeq
  <2>3. \A k \in 1..0 : <<>>[k] = expected'[k]
    OBVIOUS
  <2> QED
    BY <1>12, <1>13, <2>1, <2>2, <2>3 DEF Holds
<1>14. CASE n # 0
  <2>1. vector' = [mem |-> m, end |-> n]
    BY <1>5, <1>14
  <2>2. \A k \in 1..Len(vector.mem) : (IF k \in pos..n THEN vector.mem[k + 1] ELSE vector.mem[k]) \in InMemory
    <3> TAKE k \in 1..Len(vector.mem)
    <3>1. k \in pos..n => k + 1 \in 1..Len(vector.mem)
      BY <1>1, <1>3
    <3> QED
      BY <1>1, <3>1, ElementOfSeq
  <2>3. m \in [1..Len(vector.mem) -> InMemory]
    BY <1>4, <2>2
  <2>4. m \in Seq(InMemory) /\ Len(m) = Len(vector.mem)
    BY <1>1, <2>3, SeqDef
  <2>5. \A k \in 1..n : m[k] = expected'[k]
    <3> TAKE k \in 1..n
    <3>1. /\ k \in 1..Len(vector.mem) /\ k \in 1..vector.end /\ k + 1 \in 1..vector.end
          /\ k \in pos..n <=> ~(k < pos)
      BY <1>1, <1>2, <1>3
    <3> QED
      BY <1>1, <1>4, <1>12, <3>1
  <2>6. n <= Len(m)
    BY <1>1, <1>3, <2>4
  <2> QED
    BY <1>12, <2>1, <2>4, <2>5, <2>6 DEF Holds
<1> QED
  BY <1>13, <1>14

LEMMA ReserveKeeps ==
    ASSUME Holds(vector, expected), NEW n \in Nat, Con!Reserve(n)
    PROVE  Holds(vector', expected')
<1>1. /\ vector.mem \in Seq(InMemory) /\ vector.end \in Nat /\ vector.end <= Len(vector.mem)
      /\ expected \in Seq(Elements) /\ Len(expected) = vector.end /\ Len(vector.mem) \in Nat
      /\ vector = [mem |-> vector.mem, end |-> vector.end]
  BY LenProperties DEF Holds
<1>2. expected' = expected /\ vector' = Con!Reserved(vector, n)
  BY DEF Con!Reserve
<1>3. CASE ~(Con!Limit(vector) < n)
  BY <1>2, <1>3 DEF Con!Reserved
<1>4. CASE Con!Limit(vector) < n
  <2>1. n - vector.end \in Nat
    BY <1>1, <1>4 DEF Con!Limit
  <2>2. Con!Contents(vector) = expected
    BY HoldsContents DEF Con!VectorHoldsAll
  <2>3. vector' = [mem |-> expected \o Con!Raw(n - vector.end), end |-> Len(expected)]
    <3>1. vector' = [vector EXCEPT !.mem = expected \o Con!Raw(n - vector.end)]
      BY <1>2, <1>4, <2>2 DEF Con!Reserved
    <3> QED
      BY <1>1, <3>1
  <2>4. expected \in Seq(InMemory) /\ Len(expected) <= Len(expected)
    BY <1>1, SeqMonotonic DEF InMemory
  <2>5. Holds([mem |-> expected \o Con!Raw(n - vector.end), end |-> Len(expected)], expected)
    BY <1>1, <2>1, <2>4, WithRaw
  <2> QED
    BY <1>2, <2>3, <2>5
<1> QED
  BY <1>3, <1>4

LEMMA VectorKeeps == ASSUME Holds(vector, expected), Con!VectorNext PROVE Holds(vector', expected')
<1>1. ASSUME NEW pos \in 1..MaxSize, Con!Erase(pos) \/ Con!Reserve(pos) PROVE Holds(vector', expected')
  <2>1. pos \in Nat
    OBVIOUS
  <2> QED
    BY <1>1, <2>1, EraseKeeps, ReserveKeeps
<1> QED
  BY <1>1, PushBackKeeps, InsertKeeps, PopBackKeeps DEF Con!VectorNext

LEMMA VectorInitHolds == Con!VectorInit => Holds(vector, expected)
<1>1. /\ <<>> \in Seq(InMemory) /\ <<>> \in Seq(Elements) /\ Len(<<>>) = 0
      /\ \A k \in 1..0 : FALSE
  BY EmptySeq
<1> QED
  BY <1>1 DEF Con!VectorInit, Con!NoVector, Holds


\* A range of numbers within the limits, not empty.
Proper(r) == r \in [low : Low..High, high : Low..High] /\ r.low < r.high
ValuesOf(r) == {v \in Low..High : Con!contains(r, v)}

LEMMA RangesOverlap ==
    ASSUME NEW r, NEW s, Proper(r), Proper(s)
    PROVE  Con!intersects(r, s) <=> ValuesOf(r) \cap ValuesOf(s) # {}
<1>1. {r.low, r.high, s.low, s.high} \subseteq Int /\ {r.low, r.high, s.low, s.high} \subseteq Low..High
      /\ r.low < r.high /\ s.low < s.high /\ Low \in Int /\ High \in Int
  BY ObjectsAssumption DEF Proper
<1>2. ASSUME Con!intersects(r, s) PROVE ValuesOf(r) \cap ValuesOf(s) # {}
  <2>1. r.low < s.high /\ r.high > s.low
    BY <1>2 DEF Con!intersects
  <2>2. PICK v \in Low..High : v = IF r.low < s.low THEN s.low ELSE r.low
    BY <1>1
  <2>3. r.low <= v /\ v < r.high /\ s.low <= v /\ v < s.high
    BY <1>1, <2>1, <2>2
  <2>4. v \in ValuesOf(r) \cap ValuesOf(s)
    BY <2>3 DEF ValuesOf, Con!contains
  <2> QED
    BY <2>4
<1>3. ASSUME NEW v \in ValuesOf(r) \cap ValuesOf(s) PROVE Con!intersects(r, s)
  <2>1. v \in Int /\ r.low <= v /\ v < r.high /\ s.low <= v /\ v < s.high
    BY <1>1 DEF ValuesOf, Con!contains
  <2>2. r.low < s.high /\ r.high > s.low
    BY <1>1, <2>1
  <2> QED
    BY <2>2 DEF Con!intersects
<1> QED
  BY <1>2, <1>3

LEMMA IntersectionIs ==
    ASSUME NEW r, NEW s, Proper(r), Proper(s), Con!intersects(r, s)
    PROVE  ValuesOf(Con!intersection(r, s)) = ValuesOf(r) \cap ValuesOf(s)
<1>1. {r.low, r.high, s.low, s.high} \subseteq Int /\ r.low < r.high /\ s.low < s.high /\ Low \in Int /\ High \in Int
  BY ObjectsAssumption DEF Proper
<1>2. r.low < s.high /\ r.high > s.low
  BY DEF Con!intersects
<1>3. PICK most \in Int : most = Con!Most(r.low, s.low) /\ most = (IF r.low < s.low THEN s.low ELSE r.low)
  BY <1>1 DEF Con!Most
<1>4. PICK least \in Int : least = Con!Least(r.high, s.high) /\ least = (IF r.high < s.high THEN r.high ELSE s.high)
  BY <1>1 DEF Con!Least
<1>5. most < r.high /\ most < least
  BY <1>1, <1>2, <1>3, <1>4
<1>6. Con!Least(r.high, most) = most
  BY <1>1, <1>3, <1>5 DEF Con!Least
<1>7. PICK i : i = Con!intersection(r, s)
  OBVIOUS
<1>8. i.low = most /\ i.high = least
  BY <1>3, <1>4, <1>5, <1>6, <1>7 DEF Con!intersection, Con!MakeRange
<1>9. ASSUME NEW v \in Low..High PROVE Con!contains(i, v) <=> Con!contains(r, v) /\ Con!contains(s, v)
  <2>1. v \in Int
    BY <1>1
  <2>2. most <= v /\ v < least <=> (r.low <= v /\ v < r.high) /\ (s.low <= v /\ v < s.high)
    BY <1>1, <1>3, <1>4, <2>1
  <2> QED
    BY <1>8, <2>2 DEF Con!contains
<1>10. \A v : v \in ValuesOf(i) <=> v \in ValuesOf(r) /\ v \in ValuesOf(s)
  BY <1>9 DEF ValuesOf
<1> QED
  BY <1>7, <1>10

LEMMA ContainedIs ==
    ASSUME NEW r, NEW s, Proper(r), Proper(s)
    PROVE  Con!containsRange(r, s) <=> ValuesOf(s) \subseteq ValuesOf(r)
<1>1. {r.low, r.high, s.low, s.high} \subseteq Int /\ {r.low, r.high, s.low, s.high} \subseteq Low..High
      /\ r.low < r.high /\ s.low < s.high /\ Low \in Int /\ High \in Int
  BY ObjectsAssumption DEF Proper
<1>2. ASSUME Con!containsRange(r, s), NEW v \in ValuesOf(s) PROVE v \in ValuesOf(r)
  <2>1. v \in Low..High /\ v \in Int /\ s.low <= v /\ v < s.high /\ r.low <= s.low /\ s.high <= r.high
    BY <1>1, <1>2 DEF ValuesOf, Con!contains, Con!containsRange
  <2>2. r.low <= v /\ v < r.high
    BY <1>1, <2>1
  <2> QED
    BY <2>1, <2>2 DEF ValuesOf, Con!contains
<1>3. ASSUME ValuesOf(s) \subseteq ValuesOf(r) PROVE Con!containsRange(r, s)
  <2>1. PICK last \in Int : last = s.high - 1
    BY <1>1
  <2>2. s.low \in Low..High /\ last \in Low..High /\ s.low <= last /\ last < s.high
    BY <1>1, <2>1
  <2>3. s.low \in ValuesOf(s) /\ last \in ValuesOf(s)
    BY <1>1, <2>2 DEF ValuesOf, Con!contains
  <2>4. r.low <= s.low /\ last < r.high
    BY <1>3, <2>3 DEF ValuesOf, Con!contains
  <2>5. s.high <= r.high
    BY <1>1, <2>1, <2>4
  <2> QED
    BY <2>4, <2>5 DEF Con!containsRange
<1> QED
  BY <1>2, <1>3

LEMMA RangesDoAgree == Con!RangesAgree
<1> SUFFICES ASSUME NEW r, NEW s, r \in {Con!MakeRange(x, y) : x, y \in Low..High}, ~Con!empty(r),
                    s \in {Con!MakeRange(x, y) : x, y \in Low..High}, ~Con!empty(s)
             PROVE  /\ Con!intersects(r, s) <=> ValuesOf(r) \cap ValuesOf(s) # {}
                    /\ Con!intersects(r, s) => ValuesOf(Con!intersection(r, s)) = ValuesOf(r) \cap ValuesOf(s)
                    /\ Con!containsRange(r, s) <=> ValuesOf(s) \subseteq ValuesOf(r)
  BY DEF Con!RangesAgree, ValuesOf
<1>1. ASSUME NEW x \in Low..High, NEW y \in Low..High, ~Con!empty(Con!MakeRange(x, y)) PROVE Proper(Con!MakeRange(x, y))
  <2>1. x \in Int /\ y \in Int
    BY ObjectsAssumption
  <2>2. CASE x < y
    <3>1. Con!MakeRange(x, y) = [low |-> x, high |-> y]
      BY <2>2 DEF Con!MakeRange
    <3> QED
      BY <2>2, <3>1 DEF Proper
  <2>3. CASE ~(x < y)
    <3>1. PICK r1 : r1 = Con!MakeRange(x, y)
      OBVIOUS
    <3>2. r1 = [low |-> y, high |-> x]
      BY <2>3, <3>1 DEF Con!MakeRange
    <3>3. x # y
      BY <1>1, <3>1, <3>2 DEF Con!empty
    <3>4. y < x
      BY <2>1, <2>3, <3>3
    <3> QED
      BY <3>1, <3>2, <3>4 DEF Proper
  <2> QED
    BY <2>2, <2>3
<1>2. Proper(r) /\ Proper(s)
  BY <1>1
<1> QED
  BY <1>2, RangesOverlap, IntersectionIs, ContainedIs

LEMMA EqualDoesTheSame == Cal!EqualCallTheSame
<1> SUFFICES ASSUME NEW given_ \in 0..2, NEW r \in Cal!Implementations(given_), NEW s \in Cal!Implementations(given_)
             PROVE  Cal!equal(r, s) <=> CASE given_ = 0 -> Cal!call0(r) = Cal!call0(s)
                                          [] given_ = 1 -> \A a \in Values : Cal!call1(r, a) = Cal!call1(s, a)
                                          [] OTHER -> \A a, b \in Values : Cal!call2(r, a, b) = Cal!call2(s, a, b)
  BY DEF Cal!EqualCallTheSame
<1>1. /\ r.given = s.given
      /\ r.fills \in Seq(Values) /\ s.fills \in Seq(Values)
  <2>1. \A n \in 0..2 : [1..n -> Values] \subseteq Seq(Values)
    BY SeqDef
  <2>2. Cal!ArgLists \subseteq Seq(Values)
    BY <2>1 DEF Cal!ArgLists
  <2> QED
    BY <2>2 DEF Cal!Implementations
<1>2. Cal!equal(r, s) <=> r.object = s.object /\ r.function = s.function /\ r.fills = s.fills
  BY <1>1 DEF Cal!equal
<1>3. ASSUME NEW p \in Seq(Values), p \o r.fills = p \o s.fills PROVE r.fills = s.fills
  BY <1>1, <1>3, ConcatSimplifications, Zenon
<1>4. CASE given_ = 0
  BY <1>2, <1>4 DEF Cal!call0
<1>5. CASE given_ = 1
  <2>1. ASSUME \A a \in Values : Cal!call1(r, a) = Cal!call1(s, a)
        PROVE  r.object = s.object /\ r.function = s.function /\ r.fills = s.fills
    <3>1. PICK a \in Values : TRUE
      BY ObjectsAssumption
    <3>2. <<a>> \in Seq(Values)
      OBVIOUS
    <3>3. r.object = s.object /\ r.function = s.function /\ <<a>> \o r.fills = <<a>> \o s.fills
      BY <2>1 DEF Cal!call1
    <3> QED
      BY <1>3, <3>2, <3>3
  <2>2. ASSUME r.object = s.object, r.function = s.function, r.fills = s.fills
        PROVE  \A a \in Values : Cal!call1(r, a) = Cal!call1(s, a)
    BY <2>2 DEF Cal!call1
  <2> QED
    BY <1>2, <1>5, <2>1, <2>2
<1>6. CASE given_ # 0 /\ given_ # 1
  <2>1. ASSUME \A a, b \in Values : Cal!call2(r, a, b) = Cal!call2(s, a, b)
        PROVE  r.object = s.object /\ r.function = s.function /\ r.fills = s.fills
    <3>1. PICK a \in Values : TRUE
      BY ObjectsAssumption
    <3>2. <<a, a>> \in Seq(Values)
      OBVIOUS
    <3>3. r.object = s.object /\ r.function = s.function /\ <<a, a>> \o r.fills = <<a, a>> \o s.fills
      BY <2>1 DEF Cal!call2
    <3> QED
      BY <1>3, <3>2, <3>3
  <2>2. ASSUME r.object = s.object, r.function = s.function, r.fills = s.fills
        PROVE  \A a, b \in Values : Cal!call2(r, a, b) = Cal!call2(s, a, b)
    BY <2>2 DEF Cal!call2
  <2> QED
    BY <1>2, <1>6, <2>1, <2>2
<1> QED
  BY <1>4, <1>5, <1>6

VectorInv == Holds(vector, expected)

\* A vector holds what was put in, in the order of the places, also an element of
\* itself that moves meanwhile, the place being the end for what is inserted with
\* room to spare; ranges that meet and callbacks compare as what they stand for
\* (PODVector.h push_back, insert, insert_grow, erase; Range.h; Callback.h equal).
THEOREM ValuesAgreeCorrect == Spec => []ValuesAgree
<1>1. Init => VectorInv
  BY VectorInitHolds DEF Init, VectorInv
<1>2. VectorInv /\ [Next /\ UNCHANGED kind]_vars => VectorInv'
  <2> SUFFICES ASSUME VectorInv, [Next /\ UNCHANGED kind]_vars PROVE VectorInv'
    OBVIOUS
  <2>1. CASE UNCHANGED <<vector, expected>>
    BY <2>1 DEF VectorInv
  <2>2. CASE Con!VectorNext
    BY <2>2, VectorKeeps DEF VectorInv
  <2>3. UNCHANGED <<vector, expected>> \/ Con!VectorNext
    BY DEF Next, vars, containerVars
  <2> QED
    BY <2>1, <2>2, <2>3
<1>3. VectorInv => ValuesAgree
  BY HoldsContents, RangesDoAgree, EqualDoesTheSame DEF ValuesAgree, VectorInv
<1> QED
  BY <1>1, <1>2, <1>3, PTL DEF Spec
-----------------------------------------------------------------------------
(* Iterations: the numbers of a sequence.                                  *)

Sequences == [m_current : Low..High, m_wraps : BOOLEAN, m_wrapped : BOOLEAN]

\* Until the client is to be told, what was given lies behind.
SeqInv == sequence \in Sequences /\ (~sequence.m_wrapped => given \subseteq Low..sequence.m_current)

LEMMA Limits == Low \in Int /\ High \in Int /\ Low <= High
  BY ObjectsAssumption

LEMMA NextOfIs ==
    ASSUME NEW s \in Sequences, s.m_current = High \/ s.m_current + 1 \in Low..High
    PROVE  /\ Con!NextOf(s) \in Sequences
           /\ \/ s.m_current = High /\ Con!NextOf(s).m_wrapped
              \/ /\ Con!NextOf(s).m_current = s.m_current + 1
                 /\ Con!NextOf(s).m_wrapped = s.m_wrapped
<1>1. Low \in Low..High
  BY Limits
<1>2. PICK t : t = Con!NextOf(s)
  OBVIOUS
<1>3. CASE s.m_current = High
  <2>1. t = [s EXCEPT !.m_wrapped = TRUE, !.m_current = Low]
    BY <1>2, <1>3 DEF Con!NextOf
  <2>2. t \in Sequences /\ t.m_wrapped = TRUE
    BY <1>1, <2>1 DEF Sequences
  <2> QED
    BY <1>2, <1>3, <2>2
<1>4. CASE s.m_current # High
  <2>1. t = [s EXCEPT !.m_current = s.m_current + 1]
    BY <1>2, <1>4 DEF Con!NextOf
  <2>2. t \in Sequences /\ t.m_current = s.m_current + 1 /\ t.m_wrapped = s.m_wrapped
    BY <1>4, <2>1 DEF Sequences
  <2> QED
    BY <1>2, <2>2
<1> QED
  BY <1>3, <1>4

LEMMA NextIs ==
    ASSUME SeqInv, Con!next
    PROVE  /\ sequence' \in Sequences /\ given' = given \cup {sequence'.m_current}
           /\ \/ sequence'.m_wrapped
              \/ /\ sequence'.m_current = sequence.m_current + 1
                 /\ sequence'.m_wrapped = sequence.m_wrapped
<1>1. sequence \in Sequences /\ sequence.m_current \in Low..High
  BY DEF SeqInv, Sequences
<1>2. sequence.m_current = High \/ sequence.m_current + 1 \in Low..High
  BY <1>1, Limits
<1>3. sequence' = Con!NextOf(sequence) /\ given' = given \cup {sequence'.m_current}
  BY DEF Con!next
<1> QED
  BY <1>1, <1>2, <1>3, NextOfIs

LEMMA SequenceKeeps == ASSUME SeqInv, Con!SequenceNext PROVE SeqInv'
<1>1. /\ sequence \in Sequences /\ sequence.m_current \in Low..High
      /\ ~sequence.m_wrapped => given \subseteq Low..sequence.m_current
  BY DEF SeqInv, Sequences
<1>2. CASE Con!next
  <2>1. /\ sequence' \in Sequences /\ given' = given \cup {sequence'.m_current}
        /\ \/ sequence'.m_wrapped
           \/ sequence'.m_current = sequence.m_current + 1 /\ sequence'.m_wrapped = sequence.m_wrapped
    BY <1>2, NextIs
  <2>2. CASE ~sequence'.m_wrapped
    <3>1. sequence'.m_current = sequence.m_current + 1 /\ ~sequence.m_wrapped
      BY <2>1, <2>2
    <3> QED
      BY <1>1, <2>1, <3>1, Limits DEF SeqInv
  <2> QED
    BY <2>1, <2>2 DEF SeqInv
<1>3. CASE Con!wrapped
  <2>1. sequence' \in Sequences /\ sequence'.m_current = sequence.m_current
    BY <1>1, <1>3 DEF Con!wrapped, Sequences
  <2>2. given' = IF sequence.m_wrapped THEN {sequence.m_current} ELSE given
    BY <1>3 DEF Con!wrapped
  <2>3. sequence.m_current \in Low..sequence.m_current
    BY <1>1, Limits
  <2>4. given' \subseteq Low..sequence.m_current
    BY <1>1, <2>2, <2>3
  <2> QED
    BY <2>1, <2>4 DEF SeqInv
<1>4. CASE Con!reset
  <2>1. given' = {Low} /\ sequence' = [sequence EXCEPT !.m_current = Low, !.m_wrapped = FALSE]
    BY <1>4 DEF Con!reset
  <2>2. Low \in Low..High /\ Low \in Low..Low
    BY Limits
  <2>3. sequence' \in Sequences /\ sequence'.m_current = Low
    BY <1>1, <2>1, <2>2 DEF Sequences
  <2> QED
    BY <2>1, <2>2, <2>3 DEF SeqInv
<1>5. CASE \E value \in BOOLEAN : Con!wraps(value)
  <2>1. PICK value \in BOOLEAN : sequence' = [sequence EXCEPT !.m_wraps = value] /\ given' = given
    BY <1>5 DEF Con!wraps
  <2>2. /\ sequence' \in Sequences /\ sequence'.m_current = sequence.m_current
        /\ sequence'.m_wrapped = sequence.m_wrapped
    BY <1>1, <2>1 DEF Sequences
  <2> QED
    BY <1>1, <2>1, <2>2 DEF SeqInv
<1> QED
  BY <1>2, <1>3, <1>4, <1>5 DEF Con!SequenceNext

LEMMA SequenceInitRight == Con!SequenceInit => SeqInv
<1> SUFFICES ASSUME Con!SequenceInit PROVE SeqInv
  OBVIOUS
<1>1. sequence \in [m_current : {Low}, m_wraps : BOOLEAN, m_wrapped : {FALSE}] /\ given = {Low}
  BY DEF Con!SequenceInit
<1>2. Low \in Low..High /\ Low \in Low..Low
  BY Limits
<1>3. sequence \in Sequences /\ sequence.m_current = Low
  BY <1>1, <1>2 DEF Sequences
<1> QED
  BY <1>1, <1>2, <1>3 DEF SeqInv

LEMMA RepeatTold ==
    ASSUME SeqInv, Con!next
    PROVE  sequence'.m_current \in Low..High /\ (sequence'.m_current \in given => sequence'.m_wrapped)
<1>1. /\ sequence \in Sequences /\ sequence.m_current \in Low..High
      /\ ~sequence.m_wrapped => given \subseteq Low..sequence.m_current
  BY DEF SeqInv, Sequences
<1>2. /\ sequence' \in Sequences
      /\ \/ sequence'.m_wrapped
         \/ sequence'.m_current = sequence.m_current + 1 /\ sequence'.m_wrapped = sequence.m_wrapped
  BY NextIs
<1>3. sequence'.m_current \in Low..High
  BY <1>2 DEF Sequences
<1>4. CASE ~sequence'.m_wrapped
  <2>1. sequence'.m_current = sequence.m_current + 1 /\ ~sequence.m_wrapped
    BY <1>2, <1>4
  <2>2. sequence'.m_current \notin Low..sequence.m_current
    BY <1>1, <2>1, Limits
  <2> QED
    BY <1>1, <1>3, <2>1, <2>2
<1> QED
  BY <1>2, <1>3, <1>4

-----------------------------------------------------------------------------
(* The list of hooks.                                                      *)

Returned == [hook : Handles, stopped : BOOLEAN]

NoneTwice(s) == \A i, j \in DOMAIN s : s[i] = s[j] => i = j

\* Those before the hook that is called were called, and none of them was enough.
CalledBefore(s, f, c) ==
    \E k \in 1..Len(s) : /\ s[k] = f /\ Len(c) = k - 1
                         /\ \A i \in 1..k - 1 : c[i].hook = s[i] /\ ~c[i].stopped

HooksInv ==
    /\ list \in Seq(Handles) /\ NoneTwice(list) /\ \A i \in 1..Len(list) : rep[list[i]] # -1
    /\ called \in Seq(Returned)
    /\ first # "none" => CalledBefore(list, first, called)

AllBut(S, s, i, t) ==
    /\ t \in Seq(S) /\ Len(t) = Len(s) - 1
    /\ \A j \in 1..Len(s) - 1 : t[j] = IF j < i THEN s[j] ELSE s[j + 1]

LEMMA RemovedIs ==
    ASSUME NEW S, NEW s \in Seq(S), NEW i \in 1..Len(s), NEW t, t = Cal!RemoveAt(s, i)
    PROVE  AllBut(S, s, i, t)
<1>1. Len(s) \in Nat /\ \A j \in 1..Len(s) : s[j] \in S
  BY LenProperties, ElementOfSeq
<1>2. PICK n \in Nat : n = Len(s)
  BY <1>1
<1>3. PICK front : front = SubSeq(s, 1, i - 1)
  OBVIOUS
<1>4. PICK back : back = SubSeq(s, i + 1, Len(s))
  OBVIOUS
<1>5. front \in Seq(S) /\ Len(front) = i - 1 /\ \A j \in 1..i - 1 : front[j] = s[j]
  <2>1. i - 1 \in Int /\ 1 \in Int /\ \A j \in 1..(i - 1) : s[j] \in S
    BY <1>1
  <2>2. /\ SubSeq(s, 1, i - 1) \in Seq(S)
        /\ Len(SubSeq(s, 1, i - 1)) = IF 1 <= i - 1 THEN i - 1 - 1 + 1 ELSE 0
        /\ \A j \in 1..(i - 1 - 1 + 1) : SubSeq(s, 1, i - 1)[j] = s[1 + j - 1]
    BY <2>1, SubSeqProperties
  <2> QED
    BY <1>1, <1>3, <2>2
<1>6. back \in Seq(S) /\ Len(back) = n - i /\ \A j \in 1..n - i : back[j] = s[i + j]
  <2>1. i + 1 \in Int /\ Len(s) \in Int /\ \A j \in (i + 1)..Len(s) : s[j] \in S
    BY <1>1
  <2>2. /\ SubSeq(s, i + 1, Len(s)) \in Seq(S)
        /\ Len(SubSeq(s, i + 1, Len(s))) = IF i + 1 <= Len(s) THEN Len(s) - (i + 1) + 1 ELSE 0
        /\ \A j \in 1..(Len(s) - (i + 1) + 1) : SubSeq(s, i + 1, Len(s))[j] = s[i + 1 + j - 1]
    BY <2>1, SubSeqProperties
  <2> QED
    BY <1>1, <1>2, <1>4, <2>2
<1>7. t = front \o back
  BY <1>3, <1>4 DEF Cal!RemoveAt
<1>8. t \in Seq(S) /\ Len(t) = Len(front) + Len(back)
  BY <1>5, <1>6, <1>7, ConcatProperties
<1>9. \A j \in 1..Len(front) : t[j] = front[j]
  BY <1>5, <1>6, <1>7
<1>10. \A j \in 1..Len(back) : t[Len(front) + j] = back[j]
  BY <1>5, <1>6, <1>7
<1>11. ASSUME NEW j \in 1..n - 1 PROVE t[j] = IF j < i THEN s[j] ELSE s[j + 1]
  <2>1. CASE j < i
    BY <1>1, <1>5, <1>9, <2>1
  <2>2. CASE ~(j < i)
    <3>1. j - (i - 1) \in 1..n - i /\ j = (i - 1) + (j - (i - 1)) /\ i + (j - (i - 1)) = j + 1
      BY <1>1, <1>2, <2>2
    <3>2. t[(i - 1) + (j - (i - 1))] = back[j - (i - 1)] /\ back[j - (i - 1)] = s[i + (j - (i - 1))]
      BY <1>5, <1>6, <1>10, <3>1
    <3> QED
      BY <2>2, <3>1, <3>2
  <2> QED
    BY <2>1, <2>2
<1>12. Len(t) = n - 1
  <2>1. i \in 1..n
    BY <1>2
  <2>2. (i - 1) + (n - i) = n - 1
    BY <2>1
  <2> QED
    BY <1>5, <1>6, <1>8, <2>2
<1> QED
  BY <1>2, <1>8, <1>11, <1>12 DEF AllBut

LEMMA LessIs ==
    ASSUME NEW S, NEW s \in Seq(S), NEW places, places \subseteq 1..Len(s)
    PROVE  \/ places = {} /\ Cal!Less(s, places) = s
           \/ \E i \in places : Cal!Less(s, places) = Cal!RemoveAt(s, i)
<1>1. CASE places = {}
  BY <1>1 DEF Cal!Less
<1>2. CASE places # {}
  <2>1. PICK i : i = CHOOSE x \in places : TRUE
    OBVIOUS
  <2>2. i \in places
    BY <1>2, <2>1
  <2>3. Cal!Less(s, places) = Cal!RemoveAt(s, i)
    BY <1>2, <2>1 DEF Cal!Less
  <2> QED
    BY <2>2, <2>3
<1> QED
  BY <1>1, <1>2

LEMMA ErasedList ==
    ASSUME NEW s \in Seq(Handles), NEW h, NEW i \in 1..Len(s), s[i] = h, NoneTwice(s),
           NEW t, t = Cal!Less(s, {j \in DOMAIN s : s[j] = h})
    PROVE  AllBut(Handles, s, i, t) /\ NoneTwice(t) /\ \A j \in 1..Len(s) - 1 : t[j] # h
<1>1. Len(s) \in Nat /\ DOMAIN s = 1..Len(s) /\ i \in DOMAIN s
  BY LenProperties
<1>2. {j \in DOMAIN s : s[j] = h} = {i}
  BY <1>1 DEF NoneTwice
<1>3. t = Cal!RemoveAt(s, i)
  <2>1. PICK places : places = {i}
    OBVIOUS
  <2>2. t = Cal!Less(s, places) /\ places \subseteq 1..Len(s)
    BY <1>2, <2>1
  <2>3. \E j \in places : Cal!Less(s, places) = Cal!RemoveAt(s, j)
    BY <2>1, <2>2, LessIs
  <2> QED
    BY <2>1, <2>2, <2>3
<1>0. AllBut(Handles, s, i, t)
  BY <1>3, RemovedIs
<1>4. /\ t \in Seq(Handles) /\ Len(t) = Len(s) - 1
      /\ \A j \in 1..Len(s) - 1 : t[j] = IF j < i THEN s[j] ELSE s[j + 1]
  BY <1>0 DEF AllBut
<1>5. PICK from : from = [j \in 1..Len(s) - 1 |-> IF j < i THEN j ELSE j + 1]
  OBVIOUS
<1>6. \A j \in 1..Len(s) - 1 : from[j] \in 1..Len(s) /\ from[j] # i /\ t[j] = s[from[j]]
  BY <1>1, <1>4, <1>5
<1>7. \A j, k \in 1..Len(s) - 1 : from[j] = from[k] => j = k
  BY <1>1, <1>5
<1>8. DOMAIN t = 1..Len(s) - 1
  BY <1>4, LenProperties
<1>9. NoneTwice(t)
  BY <1>1, <1>6, <1>7, <1>8 DEF NoneTwice
<1>10. \A j \in 1..Len(s) - 1 : t[j] # h
  BY <1>1, <1>6 DEF NoneTwice
<1> QED
  BY <1>0, <1>9, <1>10


\* Hooks that nobody takes away stay hooks.
Stay(rp, now) == \A y \in Handles : rp[y] # -1 => now[y] # -1

LEMMA PutStays ==
    ASSUME Counted(reps, rep), NEW h \in Handles, NEW r, r # -1
    PROVE  Stay(rep, [rep EXCEPT ![h] = r])
<1>1. rep \in [Handles -> Reps \cup {0, -1}]
  BY DEF Counted
<1> QED
  BY <1>1 DEF Stay

LEMMA CopiedStays ==
    ASSUME Counted(reps, rep), NEW h \in Handles, NEW r, r # -1, Cal!Copied(h, r)
    PROVE  Stay(rep, rep')
<1>1. rep' = [rep EXCEPT ![h] = r]
  <2>1. PICK m : m = Cal!ref(Cal!Memory, r)
    OBVIOUS
  <2>2. Cal!Becomes([m EXCEPT !.rep[h] = r])
    BY <2>1 DEF Cal!Copied
  <2>3. PICK more : more = IF r = 0 THEN reps ELSE [reps EXCEPT ![r].refs = @ + 1]
    OBVIOUS
  <2>4. m = [reps |-> more, rep |-> rep]
    BY <2>1, <2>3, RefIsMore DEF Cal!Memory
  <2> QED
    BY <2>2, <2>4 DEF Cal!Becomes
<1> QED
  BY <1>1, PutStays

LEMMA CreateStays ==
    ASSUME Counted(reps, rep), NEW h \in Handles, NEW inner, Cal!Create(h, inner)
    PROVE  Stay(rep, rep')
<1>1. PICK more : more = IF inner = 0 THEN reps ELSE [reps EXCEPT ![inner].refs = @ + 1]
  OBVIOUS
<1>2. PICK m : m = Cal!ref(Cal!Memory, inner)
  OBVIOUS
<1>3. m = [reps |-> more, rep |-> rep]
  BY <1>1, <1>2, RefIsMore DEF Cal!Memory
<1>4. PICK r \in Reps \ DOMAIN reps :
          Cal!Becomes([m EXCEPT !.reps = [x \in DOMAIN @ \cup {r} |-> IF x = r THEN [refs |-> 1, inner |-> inner] ELSE @[x]],
                                !.rep[h] = r])
  BY <1>2 DEF Cal!Create
<1>5. rep' = [rep EXCEPT ![h] = r]
  BY <1>3, <1>4 DEF Cal!Becomes
<1>6. r # -1
  BY RepsAreNumbers
<1> QED
  BY <1>5, <1>6, PutStays

LEMMA AssignedStays ==
    ASSUME Counted(reps, rep), NEW h \in Handles, NEW r, r # -1,
           NEW m \in Cal!Assigned(Cal!Memory, h, r), Cal!Becomes(m)
    PROVE  Stay(rep, rep')
<1>1. CASE rep[h] = r
  <2>1. m = Cal!Memory
    BY <1>1 DEF Cal!Assigned, Cal!Memory
  <2>2. rep' = rep
    BY <2>1 DEF Cal!Becomes, Cal!Memory
  <2> QED
    BY <2>2 DEF Stay
<1>2. CASE rep[h] # r
  <2>1. PICK k \in Cal!unref(Cal!Memory, rep[h]) : m = Cal!ref([k EXCEPT !.rep[h] = r], r)
    BY <1>2 DEF Cal!Assigned, Cal!Memory
  <2>2. PICK ks : ks = k.reps
    OBVIOUS
  <2>3. k = [reps |-> ks, rep |-> rep]
    <3>1. k = [reps |-> k.reps, rep |-> rep] /\ Counted(k.reps, [rep EXCEPT ![h] = -1])
      BY <2>1, Unrefs DEF Cal!Memory
    <3> QED
      BY <2>2, <3>1
  <2>4. [k EXCEPT !.rep[h] = r] = [reps |-> ks, rep |-> [rep EXCEPT ![h] = r]]
    BY <2>3
  <2>5. PICK more : more = IF r = 0 THEN ks ELSE [ks EXCEPT ![r].refs = @ + 1]
    OBVIOUS
  <2>6. m = [reps |-> more, rep |-> [rep EXCEPT ![h] = r]]
    BY <2>1, <2>4, <2>5, RefIsMore
  <2>7. rep' = [rep EXCEPT ![h] = r]
    BY <2>6 DEF Cal!Becomes
  <2> QED
    BY <2>7, PutStays
<1> QED
  BY <1>1, <1>2

LEMMA GoneIs ==
    ASSUME Counted(reps, rep), NEW h \in Handles, NEW m \in Cal!unref(Cal!Memory, rep[h]),
           Cal!Becomes([m EXCEPT !.rep[h] = -1])
    PROVE  \A y \in Handles \ {h} : rep'[y] = rep[y]
<1>1. PICK ms : ms = m.reps
  OBVIOUS
<1>2. m = [reps |-> ms, rep |-> rep]
  <2>1. m = [reps |-> m.reps, rep |-> rep] /\ Counted(m.reps, [rep EXCEPT ![h] = -1])
    BY Unrefs DEF Cal!Memory
  <2> QED
    BY <1>1, <2>1
<1>3. rep' = [rep EXCEPT ![h] = -1]
  BY <1>2 DEF Cal!Becomes
<1>4. rep \in [Handles -> Reps \cup {0, -1}]
  BY DEF Counted
<1> QED
  BY <1>3, <1>4

-----------------------------------------------------------------------------

LEMMA QuietKeeps ==
    ASSUME HooksInv, Stay(rep, rep'), list' = list, first' = first, called' = called
    PROVE  HooksInv'
<1>1. \A i \in 1..Len(list) : list[i] \in Handles /\ rep[list[i]] # -1
  BY ElementOfSeq DEF HooksInv
<1>2. \A i \in 1..Len(list') : rep'[list'[i]] # -1
  BY <1>1 DEF Stay
<1> QED
  BY <1>2 DEF HooksInv

LEMMA AppendKeeps ==
    ASSUME HooksInv, Counted(reps, rep), NEW h \in Handles, NEW x \in Handles, Cal!Append2List(h, x)
    PROVE  HooksInv'
<1>1. /\ list \in Seq(Handles) /\ NoneTwice(list) /\ called \in Seq(Returned) /\ Len(list) \in Nat
      /\ DOMAIN list = 1..Len(list) /\ \A i \in 1..Len(list) : list[i] \in Handles /\ rep[list[i]] # -1
  BY ElementOfSeq, LenProperties DEF HooksInv
<1>2. rep[h] = -1 /\ rep[x] # -1 /\ Cal!Copied(h, rep[x]) /\ list' = Append(list, h) /\ first' = first /\ called' = called
  BY DEF Cal!Append2List, Cal!NotMade
<1>3. Stay(rep, rep')
  BY <1>2, CopiedStays
<1>4. rep'[h] # -1
  <2>1. rep[x] \in DOMAIN reps \cup {0}
    BY <1>2, HasWhatIsThere
  <2>2. PICK m : m = Cal!ref(Cal!Memory, rep[x])
    OBVIOUS
  <2>3. Cal!Becomes([m EXCEPT !.rep[h] = rep[x]])
    BY <1>2, <2>2 DEF Cal!Copied
  <2>4. PICK more : more = IF rep[x] = 0 THEN reps ELSE [reps EXCEPT ![rep[x]].refs = @ + 1]
    OBVIOUS
  <2>5. m = [reps |-> more, rep |-> rep]
    BY <2>2, <2>4, RefIsMore DEF Cal!Memory
  <2>6. rep' = [rep EXCEPT ![h] = rep[x]]
    BY <2>3, <2>5 DEF Cal!Becomes
  <2>7. rep \in [Handles -> Reps \cup {0, -1}]
    BY DEF Counted
  <2> QED
    BY <1>2, <2>6, <2>7
<1>5. PICK n \in Nat : n = Len(list)
  BY <1>1
<1>6. /\ list' \in Seq(Handles) /\ Len(list') = n + 1 /\ DOMAIN list' = 1..n + 1
      /\ \A i \in 1..n : list'[i] = list[i] /\ list'[n + 1] = h
  BY <1>1, <1>2, <1>5, AppendProperties, LenProperties
<1>7. list'[n + 1] = h
  BY <1>1, <1>2, <1>5, AppendProperties
<1>8. \A i \in 1..n : list'[i] \in Handles /\ list'[i] # h /\ rep'[list'[i]] # -1
  BY <1>1, <1>2, <1>3, <1>5, <1>6 DEF Stay
<1>9. \A i \in 1..n + 1 : i \in 1..n \/ i = n + 1
  OBVIOUS
<1>10. NoneTwice(list')
  BY <1>1, <1>5, <1>6, <1>7, <1>8, <1>9 DEF NoneTwice
<1>11. \A i \in 1..Len(list') : rep'[list'[i]] # -1
  BY <1>4, <1>6, <1>7, <1>8, <1>9
<1>12. ASSUME first' # "none" PROVE CalledBefore(list', first', called')
  <2>1. PICK k \in 1..n : /\ list[k] = first /\ Len(called) = k - 1
                          /\ \A i \in 1..k - 1 : called[i].hook = list[i] /\ ~called[i].stopped
    BY <1>2, <1>5, <1>12 DEF HooksInv, CalledBefore
  <2>2. k \in 1..n + 1 /\ \A i \in 1..k - 1 : i \in 1..n
    BY <2>1
  <2> QED
    BY <1>2, <1>6, <2>1, <2>2 DEF CalledBefore
<1> QED
  BY <1>1, <1>2, <1>6, <1>10, <1>11, <1>12 DEF HooksInv

LEMMA BeginKeeps == ASSUME HooksInv, Cal!BeginCall PROVE HooksInv'
<1>1. /\ list \in Seq(Handles) /\ list # <<>> /\ first' = Head(list) /\ called' = <<>>
      /\ list' = list /\ rep' = rep
  BY DEF HooksInv, Cal!BeginCall
<1>2. 1 \in 1..Len(list) /\ list[1] = Head(list)
  BY <1>1, EmptySeq, LenProperties, HeadTailProperties
<1>3. called' \in Seq(Returned) /\ Len(called') = 0
  BY <1>1, EmptySeq
<1>4. CalledBefore(list', first', called')
  <2>1. ~(\E i \in 1..1 - 1 : TRUE) /\ 0 = 1 - 1
    OBVIOUS
  <2> QED
    BY <1>1, <1>2, <1>3, <2>1 DEF CalledBefore
<1> QED
  BY <1>1, <1>3, <1>4 DEF HooksInv


\* Where the hook is that is called, and what comes after it.
LEMMA PlaceIs ==
    ASSUME HooksInv, NEW k \in 1..Len(list), list[k] = first
    PROVE  /\ (CHOOSE i \in DOMAIN list : list[i] = first) = k
           /\ SubSeq(list, k + 1, Len(list)) \in Seq(Handles)
           /\ SubSeq(list, k + 1, Len(list)) = <<>> <=> k = Len(list)
           /\ k # Len(list) => Head(SubSeq(list, k + 1, Len(list))) = list[k + 1]
<1>1. /\ list \in Seq(Handles) /\ Len(list) \in Nat /\ DOMAIN list = 1..Len(list)
      /\ \A i \in 1..Len(list) : list[i] \in Handles
      /\ \A i \in DOMAIN list : list[i] = first => i = k
  BY ElementOfSeq, LenProperties DEF HooksInv, NoneTwice
<1>2. PICK c : c = CHOOSE i \in DOMAIN list : list[i] = first
  OBVIOUS
<1>3. c \in DOMAIN list /\ list[c] = first
  BY <1>1, <1>2
<1>4. PICK n \in Nat : n = Len(list)
  BY <1>1
<1>5. PICK next : next = SubSeq(list, k + 1, Len(list))
  OBVIOUS
<1>6. /\ next \in Seq(Handles) /\ Len(next) = IF k + 1 <= n THEN n - (k + 1) + 1 ELSE 0
      /\ \A i \in 1..n - (k + 1) + 1 : next[i] = list[k + 1 + i - 1]
  <2>1. k + 1 \in Int /\ n \in Int /\ \A i \in k + 1..n : list[i] \in Handles
    BY <1>1, <1>4
  <2> QED
    BY <1>4, <1>5, <2>1, SubSeqProperties
<1>7. k \in 1..n
  BY <1>4
<1>8. Len(next) = n - k /\ (n - k = 0 <=> k = n)
  BY <1>6, <1>7
<1>9. next = <<>> <=> k = n
  BY <1>6, <1>8, EmptySeq
<1>10. ASSUME k # n PROVE Head(next) = list[k + 1]
  <2>1. 1 \in 1..n - (k + 1) + 1 /\ k + 1 + 1 - 1 = k + 1
    BY <1>7, <1>10
  <2>2. next[1] = list[k + 1]
    BY <1>6, <2>1
  <2> QED
    BY <1>6, <1>9, <1>10, <2>2, HeadTailProperties
<1> QED
  BY <1>1, <1>2, <1>3, <1>4, <1>5, <1>6, <1>9, <1>10

\* A hook returns: it was the one at k, and the next is the one after it.
LEMMA ReturnIs ==
    ASSUME HooksInv, NEW stopped \in BOOLEAN, Cal!HookReturns(stopped)
    PROVE  /\ list' = list /\ rep' = rep /\ first # "none"
           /\ called' = Append(called, [hook |-> first, stopped |-> stopped])
           /\ \E k \in 1..Len(list) :
                  /\ list[k] = first /\ Len(called) = k - 1
                  /\ \A i \in 1..k - 1 : called[i].hook = list[i] /\ ~called[i].stopped
                  /\ first' = IF ~stopped /\ k # Len(list) THEN list[k + 1] ELSE "none"
<1>1. PICK p : p = CHOOSE i \in DOMAIN list : list[i] = first
  OBVIOUS
<1>2. PICK next : next = SubSeq(list, p + 1, Len(list))
  OBVIOUS
<1>3. /\ first # "none" /\ called' = Append(called, [hook |-> first, stopped |-> stopped])
      /\ first' = IF Cal!Continues(stopped, next) THEN Head(next) ELSE "none"
      /\ list' = list /\ rep' = rep
  BY <1>1, <1>2 DEF Cal!HookReturns
<1>4. PICK k \in 1..Len(list) : /\ list[k] = first /\ Len(called) = k - 1
                                /\ \A i \in 1..k - 1 : called[i].hook = list[i] /\ ~called[i].stopped
  BY <1>3 DEF HooksInv, CalledBefore
<1>5. p = k /\ (next = <<>> <=> k = Len(list)) /\ (k # Len(list) => Head(next) = list[k + 1])
  BY <1>1, <1>2, <1>4, PlaceIs
<1>6. first' = IF ~stopped /\ k # Len(list) THEN list[k + 1] ELSE "none"
  BY <1>3, <1>5 DEF Cal!Continues
<1> QED
  BY <1>3, <1>4, <1>6

LEMMA CalledIs ==
    ASSUME NEW c \in Seq(Returned), NEW h \in Handles, NEW stopped \in BOOLEAN, NEW k \in Nat, Len(c) = k - 1,
           NEW d, d = Append(c, [hook |-> h, stopped |-> stopped])
    PROVE  /\ d \in Seq(Returned) /\ Len(d) = k /\ \A i \in 1..k - 1 : d[i] = c[i]
           /\ d[k] = [hook |-> h, stopped |-> stopped]
<1>1. PICK r : r = [hook |-> h, stopped |-> stopped]
  OBVIOUS
<1>2. r \in Returned
  BY <1>1 DEF Returned
<1>3. d = Append(c, r)
  BY <1>1
<1>4. d \in Seq(Returned) /\ Len(d) = Len(c) + 1 /\ (\A i \in 1..Len(c) : d[i] = c[i]) /\ d[Len(c) + 1] = r
  BY <1>2, <1>3, AppendProperties
<1>5. Len(c) + 1 = k
  OBVIOUS
<1> QED
  BY <1>1, <1>4, <1>5

LEMMA ReturnKeeps ==
    ASSUME HooksInv, NEW stopped \in BOOLEAN, Cal!HookReturns(stopped)
    PROVE  HooksInv'
<1>1. PICK k \in 1..Len(list) :
          /\ list[k] = first /\ Len(called) = k - 1
          /\ \A i \in 1..k - 1 : called[i].hook = list[i] /\ ~called[i].stopped
          /\ first' = IF ~stopped /\ k # Len(list) THEN list[k + 1] ELSE "none"
  BY ReturnIs
<1>2. /\ list' = list /\ rep' = rep /\ called' = Append(called, [hook |-> first, stopped |-> stopped])
  BY ReturnIs
<1>3. Len(list) \in Nat /\ first \in Handles /\ k \in Nat /\ called \in Seq(Returned)
  BY <1>1, ElementOfSeq, LenProperties DEF HooksInv
<1>4. /\ called' \in Seq(Returned) /\ Len(called') = k /\ \A i \in 1..k - 1 : called'[i] = called[i]
      /\ called'[k] = [hook |-> first, stopped |-> stopped]
  BY <1>1, <1>2, <1>3, CalledIs
<1>5. ASSUME first' # "none" PROVE CalledBefore(list', first', called')
  <2>1. ~stopped /\ k # Len(list) /\ first' = list[k + 1]
    BY <1>1, <1>5
  <2>2. k + 1 \in 1..Len(list) /\ k + 1 - 1 = k /\ \A i \in 1..k : i \in 1..k - 1 \/ i = k
    BY <1>3, <2>1
  <2>3. called'[k].hook = list[k] /\ ~called'[k].stopped
    BY <1>1, <1>4, <2>1
  <2>4. \A i \in 1..k : called'[i].hook = list[i] /\ ~called'[i].stopped
    BY <1>1, <1>4, <2>2, <2>3
  <2>5. list'[k + 1] = first' /\ Len(called') = k + 1 - 1
    BY <1>2, <1>4, <2>1, <2>2
  <2>6. \A i \in 1..k + 1 - 1 : called'[i].hook = list'[i] /\ ~called'[i].stopped
    BY <1>2, <2>2, <2>4
  <2> QED
    BY <1>2, <2>2, <2>5, <2>6 DEF CalledBefore
<1> QED
  BY <1>2, <1>4, <1>5 DEF HooksInv


\* What was called when a hook was taken away, and not the one that is called.
LEMMA LessCalled ==
    ASSUME NEW s \in Seq(Handles), NoneTwice(s), NEW f, NEW c \in Seq(Returned), CalledBefore(s, f, c),
           NEW j \in 1..Len(s), s[j] # f,
           NEW t, AllBut(Handles, s, j, t),
           NEW d, d = Cal!Less(c, {i \in DOMAIN c : c[i].hook = s[j]})
    PROVE  CalledBefore(t, f, d)
<1>1. PICK k \in 1..Len(s) : /\ s[k] = f /\ Len(c) = k - 1
                             /\ \A i \in 1..k - 1 : c[i].hook = s[i] /\ ~c[i].stopped
  BY DEF CalledBefore
<1>2. Len(s) \in Nat /\ DOMAIN s = 1..Len(s) /\ DOMAIN c = 1..k - 1
  BY <1>1, LenProperties
<1>3. PICK n \in Nat : n = Len(s)
  BY <1>2
<1>4. Len(t) = n - 1 /\ \A i \in 1..n - 1 : t[i] = IF i < j THEN s[i] ELSE s[i + 1]
  BY <1>3 DEF AllBut
<1>5. k \in 1..n /\ j \in 1..n /\ j # k
  BY <1>1, <1>3
<1>6. PICK places : places = {i \in DOMAIN c : c[i].hook = s[j]}
  OBVIOUS
<1>7. d = Cal!Less(c, places)
  BY <1>6
<1>8. \A i \in 1..k - 1 : i \in 1..n /\ (c[i].hook = s[j] <=> i = j)
  <2>1. \A i \in 1..k - 1 : i \in 1..n
    BY <1>5
  <2> QED
    BY <1>1, <1>2, <1>3, <1>5, <2>1 DEF NoneTwice
<1>9. CASE k < j
  <2>1. \A i \in 1..k - 1 : i # j
    BY <1>5, <1>9
  <2>2. places = {}
    BY <1>2, <1>6, <1>8, <2>1
  <2>3. d = c
    BY <1>7, <2>2 DEF Cal!Less
  <2>4. k \in 1..n - 1 /\ \A i \in 1..k : i \in 1..n - 1 /\ i < j
    BY <1>5, <1>9
  <2>5. \A i \in 1..k : t[i] = s[i]
    BY <1>4, <2>4
  <2>6. t[k] = f /\ \A i \in 1..k - 1 : d[i].hook = t[i] /\ ~d[i].stopped
    <3>1. k \in 1..k /\ \A i \in 1..k - 1 : i \in 1..k
      BY <1>5
    <3> QED
      BY <1>1, <2>3, <2>5, <3>1
  <2> QED
    BY <1>1, <1>4, <2>3, <2>4, <2>6 DEF CalledBefore
<1>10. CASE j < k
  <2>1. j \in 1..k - 1
    BY <1>5, <1>10
  <2>2. places = {j}
    BY <1>2, <1>6, <1>8, <2>1
  <2>3. d = Cal!RemoveAt(c, j)
    <3>1. places \subseteq 1..Len(c)
      BY <1>1, <2>1, <2>2
    <3>2. \E i \in places : Cal!Less(c, places) = Cal!RemoveAt(c, i)
      BY <2>2, <3>1, LessIs
    <3> QED
      BY <1>7, <2>2, <3>2
  <2>4. j \in 1..Len(c)
    BY <1>1, <2>1
  <2>5. AllBut(Returned, c, j, d)
    BY <2>3, <2>4, RemovedIs
  <2>6. Len(d) = k - 1 - 1 /\ \A i \in 1..k - 1 - 1 : d[i] = IF i < j THEN c[i] ELSE c[i + 1]
    BY <1>1, <2>5 DEF AllBut
  <2>7. k - 1 \in 1..n - 1 /\ k - 1 + 1 = k /\ ~(k - 1 < j)
    BY <1>5, <1>10
  <2>8. t[k - 1] = f
    BY <1>1, <1>4, <2>7
  <2>9. ASSUME NEW i \in 1..k - 1 - 1 PROVE d[i].hook = t[i] /\ ~d[i].stopped
    <3>1. i \in 1..n - 1 /\ i \in 1..k - 1 /\ i + 1 \in 1..k - 1
      BY <1>5
    <3>2. CASE i < j
      BY <1>1, <1>4, <2>6, <3>1, <3>2
    <3>3. CASE ~(i < j)
      BY <1>1, <1>4, <2>6, <3>1, <3>3
    <3> QED
      BY <3>2, <3>3
  <2> QED
    BY <1>4, <2>6, <2>7, <2>8, <2>9 DEF CalledBefore
<1> QED
  BY <1>5, <1>9, <1>10

LEMMA EraseHookKeeps ==
    ASSUME HooksInv, Counted(reps, rep), NEW h \in Handles, Cal!Erase(h)
    PROVE  HooksInv'
<1>1. /\ list \in Seq(Handles) /\ NoneTwice(list) /\ called \in Seq(Returned) /\ Len(list) \in Nat
      /\ DOMAIN list = 1..Len(list) /\ DOMAIN called = 1..Len(called)
      /\ \A i \in 1..Len(list) : list[i] \in Handles /\ rep[list[i]] # -1
  BY ElementOfSeq, LenProperties DEF HooksInv
<1>2. /\ h \in Cal!Range(list) /\ h # first /\ first' = first
      /\ list' = Cal!Less(list, {i \in DOMAIN list : list[i] = h})
      /\ called' = Cal!Less(called, {i \in DOMAIN called : called[i].hook = h})
  BY DEF Cal!Erase
<1>3. PICK j \in 1..Len(list) : list[j] = h
  BY <1>1, <1>2 DEF Cal!Range
<1>4. /\ list' \in Seq(Handles) /\ Len(list') = Len(list) - 1 /\ NoneTwice(list')
      /\ \A i \in 1..Len(list) - 1 : list'[i] = IF i < j THEN list[i] ELSE list[i + 1]
      /\ \A i \in 1..Len(list) - 1 : list'[i] # h
  <2>1. AllBut(Handles, list, j, list') /\ NoneTwice(list') /\ \A i \in 1..Len(list) - 1 : list'[i] # h
    BY <1>1, <1>2, <1>3, ErasedList
  <2> QED
    BY <2>1 DEF AllBut
<1>5. \A y \in Handles \ {h} : rep'[y] = rep[y]
  <2>1. PICK m \in Cal!unref(Cal!Memory, rep[h]) : Cal!Becomes([m EXCEPT !.rep[h] = -1])
    BY DEF Cal!Erase, Cal!NotMade
  <2> QED
    BY <2>1, GoneIs
<1>6. ASSUME NEW i \in 1..Len(list') PROVE rep'[list'[i]] # -1
  <2>1. i \in 1..Len(list) - 1
    BY <1>4
  <2>2. i \in 1..Len(list) /\ i + 1 \in 1..Len(list)
    BY <1>1, <2>1
  <2>3. list'[i] # h /\ list'[i] \in {list[i], list[i + 1]}
    BY <1>4, <2>1
  <2>4. list'[i] \in Handles /\ rep[list'[i]] # -1
    BY <1>1, <2>2, <2>3
  <2> QED
    BY <1>5, <2>3, <2>4
<1>7. called' \in Seq(Returned)
  <2>1. PICK places : places = {i \in DOMAIN called : called[i].hook = h}
    OBVIOUS
  <2>2. called' = Cal!Less(called, places) /\ places \subseteq 1..Len(called)
    BY <1>1, <1>2, <2>1
  <2>3. called' = called \/ \E i \in 1..Len(called) : called' = Cal!RemoveAt(called, i)
    BY <1>1, <2>2, LessIs
  <2>4. CASE called' = called
    BY <1>1, <2>4
  <2>5. CASE \E i \in 1..Len(called) : called' = Cal!RemoveAt(called, i)
    <3>1. PICK i \in 1..Len(called) : called' = Cal!RemoveAt(called, i)
      BY <2>5
    <3>2. AllBut(Returned, called, i, called')
      BY <1>1, <3>1, RemovedIs
    <3> QED
      BY <3>2 DEF AllBut
  <2> QED
    BY <2>3, <2>4, <2>5
<1>8. ASSUME first # "none" PROVE CalledBefore(list', first, called')
  <2>1. CalledBefore(list, first, called)
    BY <1>8 DEF HooksInv
  <2>2. AllBut(Handles, list, j, list')
    BY <1>4 DEF AllBut
  <2>3. called' = Cal!Less(called, {i \in DOMAIN called : called[i].hook = list[j]}) /\ list[j] # first
    BY <1>2, <1>3
  <2> QED
    BY <1>1, <2>1, <2>2, <2>3, LessCalled
<1> QED
  BY <1>2, <1>4, <1>6, <1>7, <1>8 DEF HooksInv

LEMMA HooksKeep == ASSUME HooksInv, Counted(reps, rep), Cal!CallbackNext PROVE HooksInv'
<1>1. ASSUME NEW h \in Handles, NEW x \in Handles, Cal!Copy(h, x) PROVE HooksInv'
  BY <1>1, CopiedStays, QuietKeeps DEF Cal!Copy, Cal!NotMade
<1>2. ASSUME NEW h \in Handles, NEW x \in Handles, Cal!Append2List(h, x) PROVE HooksInv'
  BY <1>2, AppendKeeps
<1>3. ASSUME NEW h \in Handles, NEW x \in Handles, Cal!Assign(h, x) PROVE HooksInv'
  <2>1. PICK m \in Cal!Assigned(Cal!Memory, h, rep[x]) : Cal!Becomes(m)
    BY <1>3 DEF Cal!Assign
  <2>2. rep[x] # -1 /\ list' = list /\ first' = first /\ called' = called
    BY <1>3 DEF Cal!Assign, Cal!NotMade
  <2> QED
    BY <2>1, <2>2, AssignedStays, QuietKeeps
<1>4. ASSUME NEW h \in Handles, NEW x \in Handles, Cal!AssignInner(h, x) PROVE HooksInv'
  <2>1. PICK r : r = reps[rep[x]].inner
    OBVIOUS
  <2>2. PICK m \in Cal!Assigned(Cal!Memory, h, r) : Cal!Becomes(m)
    BY <1>4, <2>1 DEF Cal!AssignInner
  <2>3. rep[x] > 0 /\ list' = list /\ first' = first /\ called' = called
    BY <1>4 DEF Cal!AssignInner
  <2>4. r \in Reps \cup {0}
    <3>1. rep[x] \in DOMAIN reps /\ reps[rep[x]] \in [refs : Nat, inner : Reps \cup {0}]
      BY <2>3 DEF Counted
    <3> QED
      BY <2>1, <3>1
  <2>5. r # -1
    BY <2>4, RepsAreNumbers
  <2> QED
    BY <2>2, <2>3, <2>5, AssignedStays, QuietKeeps
<1>5. ASSUME NEW h \in Handles, NEW r, Cal!Create(h, r) PROVE HooksInv'
  <2>1. list' = list /\ first' = first /\ called' = called
    BY <1>5 DEF Cal!Create
  <2> QED
    BY <1>5, <2>1, CreateStays, QuietKeeps
<1>6. ASSUME NEW h \in Handles, Cal!Destroy(h) PROVE HooksInv'
  <2>1. PICK m \in Cal!unref(Cal!Memory, rep[h]) : Cal!Becomes([m EXCEPT !.rep[h] = -1])
    BY <1>6 DEF Cal!Destroy, Cal!NotMade
  <2>2. /\ h \notin Cal!Range(list) /\ list' = list /\ first' = first /\ called' = called
    BY <1>6 DEF Cal!Destroy
  <2>3. \A y \in Handles \ {h} : rep'[y] = rep[y]
    BY <2>1, GoneIs
  <2>4. \A i \in 1..Len(list) : list[i] \in Handles \ {h} /\ rep[list[i]] # -1
    <3>1. list \in Seq(Handles) /\ \A i \in 1..Len(list) : list[i] \in Handles /\ rep[list[i]] # -1
      BY ElementOfSeq DEF HooksInv
    <3>2. DOMAIN list = 1..Len(list)
      BY <3>1, LenProperties
    <3> QED
      BY <2>2, <3>1, <3>2 DEF Cal!Range
  <2>5. \A i \in 1..Len(list') : rep'[list'[i]] # -1
    BY <2>2, <2>3, <2>4
  <2> QED
    BY <2>2, <2>5 DEF HooksInv
<1>7. ASSUME NEW h \in Handles, Cal!Erase(h) PROVE HooksInv'
  BY <1>7, EraseHookKeeps
<1>8. CASE Cal!BeginCall
  BY <1>8, BeginKeeps
<1>9. ASSUME NEW stopped \in BOOLEAN, Cal!HookReturns(stopped) PROVE HooksInv'
  BY <1>9, ReturnKeeps
<1> QED
  BY <1>1, <1>2, <1>3, <1>4, <1>5, <1>6, <1>7, <1>8, <1>9 DEF Cal!CallbackNext

LEMMA HooksInitRight == Cal!CallbackInit => HooksInv
<1> SUFFICES ASSUME Cal!CallbackInit PROVE HooksInv
  OBVIOUS
<1>1. list = <<>> /\ called = <<>> /\ first = "none"
  BY DEF Cal!CallbackInit
<1>2. list \in Seq(Handles) /\ called \in Seq(Returned) /\ Len(list) = 0 /\ DOMAIN list = {}
  BY <1>1, EmptySeq
<1>3. ~\E i \in 1..0 : TRUE
  OBVIOUS
<1> QED
  BY <1>1, <1>2, <1>3 DEF HooksInv, NoneTwice

\* A call that ends called the hooks of the list in turn, up to the end or to
\* the one that was enough.
CallEnds ==
    LET hooks == [i \in DOMAIN called' |-> called'[i].hook]
    IN  /\ Cal!IsPrefix(hooks, list) /\ \A i \in DOMAIN called : ~called[i].stopped
        /\ hooks = list \/ Cal!Last(called').stopped

LEMMA CallEndsWell ==
    ASSUME HooksInv, NEW stopped \in BOOLEAN, Cal!HookReturns(stopped), first' = "none"
    PROVE  CallEnds
<1>1. PICK k \in 1..Len(list) :
          /\ list[k] = first /\ Len(called) = k - 1
          /\ \A i \in 1..k - 1 : called[i].hook = list[i] /\ ~called[i].stopped
          /\ first' = IF ~stopped /\ k # Len(list) THEN list[k + 1] ELSE "none"
  BY ReturnIs
<1>2. called' = Append(called, [hook |-> first, stopped |-> stopped])
  BY ReturnIs
<1>3. /\ Len(list) \in Nat /\ first \in Handles /\ k \in Nat /\ called \in Seq(Returned) /\ list \in Seq(Handles)
      /\ \A i \in 1..Len(list) : list[i] \in Handles
  BY <1>1, ElementOfSeq, LenProperties DEF HooksInv
<1>4. /\ called' \in Seq(Returned) /\ Len(called') = k /\ \A i \in 1..k - 1 : called'[i] = called[i]
      /\ called'[k] = [hook |-> first, stopped |-> stopped]
  BY <1>1, <1>2, <1>3, CalledIs
<1>5. DOMAIN called' = 1..k /\ DOMAIN called = 1..k - 1 /\ DOMAIN list = 1..Len(list)
  BY <1>1, <1>3, <1>4, LenProperties
<1>6. PICK hooks : hooks = [i \in DOMAIN called' |-> called'[i].hook]
  OBVIOUS
<1>7. \A i \in 1..k : i \in 1..k - 1 \/ i = k
  BY <1>3
<1>8. \A i \in 1..k : hooks[i] = list[i] /\ hooks[i] \in Handles
  <2>1. \A i \in 1..k : i \in 1..Len(list)
    BY <1>1, <1>3
  <2>2. \A i \in 1..k : called'[i].hook = list[i]
    BY <1>1, <1>4, <1>7
  <2> QED
    BY <1>3, <1>5, <1>6, <2>1, <2>2
<1>9. hooks \in Seq(Handles) /\ Len(hooks) = k
  <2>1. hooks \in [1..k -> Handles]
    BY <1>5, <1>6, <1>8
  <2> QED
    BY <1>3, <2>1, SeqDef, LenProperties
<1>10. Cal!IsPrefix(hooks, list)
  <2>1. k <= Len(list)
    BY <1>1, <1>3
  <2>2. PICK a : a = SubSeq(hooks, 1, k)
    OBVIOUS
  <2>3. PICK b : b = SubSeq(list, 1, k)
    OBVIOUS
  <2>4. 1 \in Int /\ k \in Int /\ 1 <= k /\ k - 1 + 1 = k /\ \A i \in 1..k : i \in 1..Len(list) /\ 1 + i - 1 = i
    BY <1>1, <1>3
  <2>5. \A i \in 1..k : hooks[i] \in Handles /\ list[i] \in Handles
    BY <1>3, <1>8, <2>4
  <2>6. a \in Seq(Handles) /\ Len(a) = k /\ \A i \in 1..k : a[i] = hooks[i]
    <3>1. /\ a \in Seq(Handles) /\ Len(a) = IF 1 <= k THEN k - 1 + 1 ELSE 0
          /\ \A i \in 1..k - 1 + 1 : a[i] = hooks[1 + i - 1]
      BY <2>2, <2>4, <2>5, SubSeqProperties
    <3> QED
      BY <2>4, <3>1
  <2>7. b \in Seq(Handles) /\ Len(b) = k /\ \A i \in 1..k : b[i] = list[i]
    <3>1. /\ b \in Seq(Handles) /\ Len(b) = IF 1 <= k THEN k - 1 + 1 ELSE 0
          /\ \A i \in 1..k - 1 + 1 : b[i] = list[1 + i - 1]
      BY <2>3, <2>4, <2>5, SubSeqProperties
    <3> QED
      BY <2>4, <3>1
  <2>8. a = b
    BY <1>8, <2>6, <2>7, SeqEqual
  <2> QED
    BY <1>9, <2>1, <2>2, <2>3, <2>8 DEF Cal!IsPrefix
<1>11. \A i \in DOMAIN called : ~called[i].stopped
  BY <1>1, <1>5
<1>12. hooks = list \/ Cal!Last(called').stopped
  <2>1. CASE stopped
    BY <1>4, <2>1 DEF Cal!Last
  <2>2. CASE ~stopped
    <3>1. k = Len(list)
      <4>1. ASSUME k # Len(list) PROVE FALSE
        <5>1. k + 1 \in 1..Len(list)
          BY <1>1, <1>3, <4>1
        <5>2. first' \in Handles
          BY <1>1, <1>3, <2>2, <4>1, <5>1
        <5> QED
          BY <5>2, ObjectsAssumption
      <4> QED
        BY <4>1
    <3> QED
      BY <1>3, <1>8, <1>9, <3>1, SeqEqual
  <2> QED
    BY <2>1, <2>2
<1> QED
  BY <1>6, <1>10, <1>11, <1>12 DEF CallEnds

LEMMA OthersGoOn ==
    ASSUME Cal!CallbackNext, first # "none", first' = "none"
    PROVE  \E stopped \in BOOLEAN : Cal!HookReturns(stopped)
BY DEF Cal!CallbackNext, Cal!Copy, Cal!Assign, Cal!AssignInner, Cal!Append2List, Cal!Create, Cal!Destroy,
       Cal!Erase, Cal!BeginCall

-----------------------------------------------------------------------------
IterationsInv == SeqInv /\ HooksInv /\ Counted(reps, rep) /\ DirInv

LEMMA IterationsKeep == ASSUME IterationsInv, [Next /\ UNCHANGED kind]_vars PROVE IterationsInv'
<1>1. SeqInv'
  <2>1. Con!SequenceNext \/ UNCHANGED <<sequence, given>>
    BY DEF Next, vars, containerVars
  <2>2. CASE UNCHANGED <<sequence, given>>
    BY <2>2 DEF IterationsInv, SeqInv
  <2> QED
    BY <2>1, <2>2, SequenceKeeps DEF IterationsInv
<1>2. Cal!CallbackNext \/ UNCHANGED callbackVars
  BY DEF Next, vars
<1>3. ASSUME UNCHANGED callbackVars PROVE HooksInv' /\ Counted(reps', rep')
  <2>1. UNCHANGED <<reps, rep, list, first, called>>
    BY <1>3 DEF callbackVars
  <2>2. HooksInv'
    BY <2>1 DEF IterationsInv, HooksInv, NoneTwice, CalledBefore
  <2>3. Counted(reps', rep')
    BY <2>1 DEF IterationsInv
  <2> QED
    BY <2>2, <2>3
<1>4. ASSUME Cal!CallbackNext PROVE HooksInv' /\ Counted(reps', rep')
  BY <1>4, HooksKeep, CallbacksKeep DEF IterationsInv
<1>5. DirInv'
  <2>1. Dir!DirNext \/ UNCHANGED dirVars
    BY DEF Next, vars
  <2>2. CASE UNCHANGED dirVars
    BY <2>2 DEF dirVars, IterationsInv, DirInv, DirRight, DataTypes, ReadersRight, RefsRight, At, Reads
  <2> QED
    BY <2>1, <2>2, DirKeeps DEF IterationsInv
<1>6. HooksInv' /\ Counted(reps', rep')
  BY <1>2, <1>3, <1>4
<1> QED
  BY <1>1, <1>5, <1>6 DEF IterationsInv, Counted, Users, Inside

\* What an iteration shows is in turn and whole: the hooks of a list in their
\* order though hooks come and go meanwhile, the entry an iterator was at though
\* others read on, and no number of a sequence again before the client is told
\* (HookList.h call, DirIterator.h "all copies can be dereferenced", Sequence.h).
THEOREM IterationsHoldCorrect == Spec => IterationsHold
<1>1. Init => IterationsInv
  BY SequenceInitRight, HooksInitRight, CallbackInitCounted, DirInitRight DEF Init, IterationsInv
<1>2. IterationsInv /\ [Next /\ UNCHANGED kind]_vars => IterationsInv'
  BY IterationsKeep
<1>3. IterationsInv /\ [Next /\ UNCHANGED kind]_vars =>
          [Con!next => sequence'.m_current \in Low..High /\ (sequence'.m_current \in given => sequence'.m_wrapped)]_(Con!sequenceVars)
  BY RepeatTold DEF IterationsInv
<1>4. IterationsInv /\ [Next /\ UNCHANGED kind]_vars => [first # "none" /\ first' = "none" => CallEnds]_(Cal!callbackVars)
  <2> SUFFICES ASSUME IterationsInv, [Next /\ UNCHANGED kind]_vars, first # "none", first' = "none" PROVE CallEnds
    OBVIOUS
  <2>1. Cal!CallbackNext
    BY DEF Next, vars, callbackVars
  <2>2. PICK stopped \in BOOLEAN : Cal!HookReturns(stopped)
    BY <2>1, OthersGoOn
  <2> QED
    BY <2>2, CallEndsWell DEF IterationsInv
<1>5. IterationsInv /\ [Next /\ UNCHANGED kind]_vars =>
          [\A i \in Dir!Readable : Remembered(i)]_(Dir!dirVars)
  <2> SUFFICES ASSUME IterationsInv, [Next /\ UNCHANGED kind]_vars, ~UNCHANGED Dir!dirVars, NEW i \in Dir!Readable
               PROVE  Remembered(i)
    OBVIOUS
  <2>1. Dir!DirNext
    BY DEF Next, vars, dirVars, Dir!dirVars
  <2> QED
    BY <2>1, CopiesDoRemember DEF IterationsInv
<1> QED
  BY <1>1, <1>2, <1>3, <1>4, <1>5, PTL DEF Spec, IterationsHold, Cal!ListInTurn, CallEnds, Dir!CopiesRemember, Remembered,
     Con!RepeatsAreTold
=============================================================================
