-------------------------- MODULE Services_proofs --------------------------
(***************************************************************************)
(* Proofs about the services of a program.  Each service has an inductive  *)
(* invariant of its own, kept by its own steps; the steps of the others    *)
(* leave its variables alone.                                              *)
(***************************************************************************)
EXTENDS MCServices, TLAPS, SequenceTheorems, FiniteSetTheorems, WellFoundedInduction

-----------------------------------------------------------------------------
(* The smaller of two numbers and the largest of finitely many.            *)

LEMMA MinOfTwo ==
    ASSUME NEW a \in Nat, NEW b \in Nat
    PROVE  Min({a, b}) = IF a <= b THEN a ELSE b
<1> DEFINE m == IF a <= b THEN a ELSE b
<1>1. m \in {a, b} /\ \A y \in {a, b} : m <= y
  OBVIOUS
<1>2. \A x \in {a, b} : (\A y \in {a, b} : x <= y) => x = m
  OBVIOUS
<1> QED
  BY <1>1, <1>2 DEF Min

\* A least set without a maximum has one after all: that of the rest, or the
\* element that was taken out.
LEMMA FiniteMax ==
    ASSUME NEW S \in SUBSET Nat, IsFiniteSet(S), S # {}
    PROVE  Max(S) \in S /\ \A y \in S : y <= Max(S)
<1> DEFINE HasMax(U) == \E x \in U : \A y \in U : x >= y
           Bad == {U \in SUBSET S : U # {} /\ ~HasMax(U)}
<1>1. \A U \in SUBSET S : IsFiniteSet(U)
  BY FS_Subset
<1>2. Bad \subseteq FiniteSubsetsOf(S)
  BY <1>1 DEF FiniteSubsetsOf
<1>3. ASSUME Bad # {}
      PROVE  FALSE
  <2>1. PICK U \in Bad : \A V \in Bad : ~(<<V, U>> \in StrictSubsetOrdering(S))
    BY <1>2, <1>3, FS_StrictSubsetOrderingWellFounded, WFMin
  <2>2. PICK u \in U : TRUE
    OBVIOUS
  <2>3. U \ {u} # {}
    <3>1. u \in Nat
      OBVIOUS
    <3> QED
      BY <2>2, <3>1
  <2>4. HasMax(U \ {u})
    <3>1. <<U \ {u}, U>> \in StrictSubsetOrdering(S)
      BY <2>2 DEF StrictSubsetOrdering
    <3> QED
      BY <2>1, <2>3, <3>1
  <2>5. PICK m \in U \ {u} : \A y \in U \ {u} : m >= y
    BY <2>4
  <2>6. HasMax(U)
    <3>1. m \in Nat /\ u \in Nat /\ U \subseteq Nat
      BY <2>2, <2>5
    <3>2. CASE m >= u
      BY <2>2, <2>5, <3>1, <3>2
    <3>3. CASE ~(m >= u)
      BY <2>2, <2>5, <3>1, <3>3
    <3> QED
      BY <3>2, <3>3
  <2> QED
    BY <2>6
<1>4. HasMax(S)
  BY <1>3
<1> QED
  BY <1>4 DEF Max

-----------------------------------------------------------------------------
(* Addresses of sockets.                                                   *)

Address == [m_address : [1..StorageSize -> Nat], m_addrlen : 1..StorageSize]

\* An object that was given an address shows it, and the datagrams that wait
\* are from peers.
AddressInv ==
    /\ queue \in Seq(Peers)
    /\ object \in [Objects -> Address]
    /\ from \in [Objects -> Peers \cup {Nobody}] /\ room \in [Objects -> Nat]
    /\ AnswersReachTheSender

(* Every peer's address fits into the longest there is.                    *)
LEMMA StorageHolds ==
    /\ StorageSize \in Nat \ {0}
    /\ \A a \in Peers : /\ a \in Seq(Nat) /\ a # Nobody
                         /\ Len(a) \in 1..StorageSize
                         /\ \A i \in 1..Len(a) : a[i] \in Nat
<1> DEFINE lengths == {Len(a) : a \in Peers}
<1>1. \A a \in Peers : a \in Seq(Nat) /\ a # Nobody /\ Len(a) \in Nat \ {0}
  BY PeersAssumption, EmptySeq DEF Nobody
<1>2. lengths \in SUBSET Nat /\ lengths # {}
  BY <1>1, PeersAssumption
<1>3. IsFiniteSet(lengths)
  <2> DEFINE f == [a \in Peers |-> Len(a)]
  <2>1. f \in Surjection(Peers, lengths)
    BY DEF Surjection
  <2> QED
    BY <2>1, PeersAssumption, FS_Surjection
<1>4. StorageSize \in lengths /\ \A n \in lengths : n <= StorageSize
  BY <1>2, <1>3, FiniteMax DEF StorageSize
<1>5. \A a \in Peers : \A i \in 1..Len(a) : a[i] \in Nat
  BY <1>1, ElementOfSeq
<1> QED
  BY <1>1, <1>2, <1>4, <1>5

(* An object shows as many of its bytes as its address has.                *)
LEMMA ShownBytes ==
    ASSUME NEW obj \in Address
    PROVE  /\ Len(SubSeq(obj.m_address, 1, obj.m_addrlen)) = obj.m_addrlen
           /\ \A i \in 1..obj.m_addrlen : SubSeq(obj.m_address, 1, obj.m_addrlen)[i] = obj.m_address[i]
<1>1. /\ StorageSize \in Nat /\ obj.m_addrlen \in 1..StorageSize
      /\ \A i \in 1..obj.m_addrlen : obj.m_address[i] \in Nat
  BY StorageHolds DEF Address
<1>2. 1 \in Int /\ obj.m_addrlen \in Int
  BY <1>1
<1>3. /\ Len(SubSeq(obj.m_address, 1, obj.m_addrlen)) = IF 1 <= obj.m_addrlen THEN obj.m_addrlen - 1 + 1 ELSE 0
      /\ \A i \in 1..(obj.m_addrlen - 1 + 1) : SubSeq(obj.m_address, 1, obj.m_addrlen)[i] = obj.m_address[1 + i - 1]
  BY <1>1, <1>2, SubSeqProperties
<1> QED
  BY <1>1, <1>3

\* The bytes of an object are those of an address, as far as there was room.
Begins(obj, a, bytes) == obj.m_addrlen = Len(a) /\ \A i \in 1..Len(a) : i <= bytes => obj.m_address[i] = a[i]

LEMMA BeginsIsReached ==
    ASSUME NEW obj \in Address, NEW a \in Peers, NEW bytes \in Nat
    PROVE  Begins(obj, a, bytes) <=> Reaches(SubSeq(obj.m_address, 1, obj.m_addrlen), a, bytes)
BY ShownBytes DEF Begins, Reaches

LEMMA AddressInitKeeps == AddressInit => AddressInv
<1> SUFFICES ASSUME AddressInit PROVE AddressInv
  OBVIOUS
<1>1. NewInet \in Address
  BY StorageHolds DEF NewInet, Zeros, Address
<1>2. queue \in Seq(Peers) /\ Len(Nobody) = 0
  BY EmptySeq DEF AddressInit, Nobody
<1>3. Reaches(Nobody, Nobody, 0)
  BY <1>2 DEF Reaches
<1> QED
  BY <1>1, <1>2, <1>3 DEF AddressInit, AddressInv, AnswersReachTheSender

\* The bytes that a call fills in, up to a limit, over what was there.
Over(limit, a, old) == [i \in 1..StorageSize |-> IF i <= limit THEN a[i] ELSE old[i]]

(* However much of an address is filled in, the object stays an address,   *)
(* and it begins with what was.                                            *)
LEMMA FillingIn ==
    ASSUME NEW a \in Peers, NEW old \in Address, NEW bytes \in Nat, NEW limit,
           limit = (IF bytes <= Len(a) THEN bytes ELSE Len(a)),
           NEW new, new = [m_address |-> Over(limit, a, old.m_address), m_addrlen |-> Len(a)]
    PROVE  new \in Address /\ Begins(new, a, bytes)
<1>1. /\ StorageSize \in Nat /\ Len(a) \in 1..StorageSize /\ Len(a) \in Nat
      /\ \A i \in 1..Len(a) : a[i] \in Nat
  BY StorageHolds
<1>2. old.m_address \in [1..StorageSize -> Nat]
  BY DEF Address
<1>3. new.m_address \in [1..StorageSize -> Nat]
  <2>1. \A i \in 1..StorageSize : Over(limit, a, old.m_address)[i] \in Nat
    BY <1>1, <1>2 DEF Over
  <2> QED
    BY <2>1 DEF Over
<1>4. new \in Address
  BY <1>1, <1>3 DEF Address
<1>5. \A i \in 1..Len(a) : i <= bytes => new.m_address[i] = a[i]
  BY <1>1 DEF Over
<1> QED
  BY <1>4, <1>5 DEF Begins

\* One object is filled in anew, for a sender or for nobody.
LEMMA OneIsFilled ==
    ASSUME AddressInv, NEW x \in Objects, NEW new \in Address, NEW a \in Peers \cup {Nobody},
           NEW bytes \in Nat, a # Nobody => Begins(new, a, bytes),
           object' = [object EXCEPT ![x] = new], IsGiven(x, a, bytes),
           queue' \in Seq(Peers), UNCHANGED answers
    PROVE  AddressInv'
<1>1. /\ object' \in [Objects -> Address] /\ from' \in [Objects -> Peers \cup {Nobody}]
      /\ room' \in [Objects -> Nat]
  BY DEF AddressInv, IsGiven
<1>2. ASSUME NEW y \in Objects, from'[y] # Nobody
      PROVE  Reaches(Shown(y)', from'[y], room'[y])
  <2>1. CASE y = x
    <3>1. from'[y] = a /\ room'[y] = bytes /\ object'[y] = new
      BY <2>1 DEF AddressInv, IsGiven
    <3>2. Reaches(SubSeq(new.m_address, 1, new.m_addrlen), a, bytes)
      BY <1>2, <3>1, BeginsIsReached
    <3> QED
      BY <3>1, <3>2 DEF Shown
  <2>2. CASE y # x
    BY <1>2, <2>2 DEF AddressInv, AnswersReachTheSender, Shown, IsGiven
  <2> QED
    BY <2>1, <2>2
<1>3. Reaches(answers'.to, answers'.meant, answers'.room)
  BY DEF AddressInv, AnswersReachTheSender
<1> QED
  BY <1>1, <1>2, <1>3 DEF AddressInv, AnswersReachTheSender

LEMMA NewAddresses == NewInet \in Address /\ NewLocal \in Address
<1>1. StorageSize \in Nat \ {0}
  BY StorageHolds
<1>2. Zeros \in [1..StorageSize -> Nat] /\ 1 \in 1..StorageSize /\ StorageSize \in 1..StorageSize
  BY <1>1 DEF Zeros
<1>3. [Zeros EXCEPT ![1] = 1] \in [1..StorageSize -> Nat]
  BY <1>2
<1> QED
  BY <1>2, <1>3 DEF NewInet, NewLocal, Address

LEMMA AddressNextKeeps == AddressInv /\ [AddressNext]_addressVars => AddressInv'
<1> SUFFICES ASSUME AddressInv, [AddressNext]_addressVars PROVE AddressInv'
  OBVIOUS
<1>1. queue \in Seq(Peers) /\ \A x \in Objects : object[x] \in Address
  BY DEF AddressInv
<1>2. \A a \in Peers : Len(a) \in Nat /\ Len(a) >= 1 /\ a # Nobody
  BY StorageHolds
<1>3. \A x \in Objects : object[x].m_addrlen \in Nat
  BY <1>1, StorageHolds DEF Address
<1>4. ASSUME NEW a \in Peers, Arrives(a)
      PROVE  AddressInv'
  <2>1. queue' \in Seq(Peers)
    BY <1>1, <1>4, AppendProperties DEF Arrives
  <2> QED
    BY <1>4, <2>1 DEF Arrives, AddressInv, AnswersReachTheSender, Shown
<1>5. ASSUME NEW x \in Objects, NEW new \in {NewInet, NewLocal}, Renew(x, new)
      PROVE  AddressInv'
  <2>1. new \in Address
    BY NewAddresses
  <2> QED
    BY <1>1, <1>5, <2>1, OneIsFilled DEF Renew
<1>6. ASSUME NEW x \in Objects, Answer(x)
      PROVE  AddressInv'
  BY <1>6 DEF Answer, AddressInv, AnswersReachTheSender, Shown
<1>7. ASSUME NEW x \in Objects, NEW peek \in BOOLEAN, Receive(x, peek)
      PROVE  AddressInv'
  <2> DEFINE a == Head(queue)
  <2>1. a \in Peers /\ queue' \in Seq(Peers)
    BY <1>1, <1>7, HeadTailProperties DEF Receive, Left
  <2> DEFINE limit == Min({object[x].m_addrlen, Len(a)})
  <2>2. Filled(x, a) = [m_address |-> Over(limit, a, object[x].m_address), m_addrlen |-> Len(a)]
    BY DEF Filled, Over
  <2>3. Filled(x, a) \in Address /\ Begins(Filled(x, a), a, object[x].m_addrlen)
    <3>1. object[x].m_addrlen \in Nat /\ Len(a) \in Nat
      BY <1>2, <1>3, <2>1
    <3>2. limit = IF object[x].m_addrlen <= Len(a) THEN object[x].m_addrlen ELSE Len(a)
      BY <3>1, MinOfTwo
    <3> HIDE DEF limit
    <3> QED
      BY <1>1, <2>1, <2>2, <3>1, <3>2, FillingIn
  <2>4. /\ object' = [object EXCEPT ![x] = Filled(x, a)] /\ UNCHANGED answers
        /\ IsGiven(x, a, object[x].m_addrlen)
    BY <1>7 DEF Receive
  <2> QED
    BY <1>3, <2>1, <2>3, <2>4, OneIsFilled
<1>8. ASSUME NEW x \in Objects, NEW a \in Peers, Make(x, a)
      PROVE  AddressInv'
  <2> DEFINE new == [m_address |-> Over(Len(a), a, object[x].m_address), m_addrlen |-> Len(a)]
  <2>1. Len(a) \in Nat /\ Len(a) <= Len(a)
    BY <1>2
  <2>2. new \in Address /\ Begins(new, a, Len(a))
    BY <1>1, <2>1, FillingIn
  <2>3. object' = [object EXCEPT ![x] = new]
    BY <1>1, <1>8 DEF Make, Over, AddressInv
  <2> HIDE DEF new
  <2> QED
    BY <1>1, <1>8, <2>1, <2>2, <2>3, OneIsFilled DEF Make
<1>9. ASSUME NEW x \in Objects, NEW a \in Peers, NEW init \in {NewInet, NewLocal}, Name(x, a, init)
      PROVE  AddressInv'
  <2> DEFINE limit == Min({init.m_addrlen, Len(a)})
             new == [m_address |-> Over(limit, a, init.m_address), m_addrlen |-> Len(a)]
  <2>1. init \in Address /\ init.m_addrlen \in Nat
    BY SMTT(30), NewAddresses, StorageHolds DEF Address
  <2>2. new \in Address /\ Begins(new, a, init.m_addrlen)
    <3>1. limit = IF init.m_addrlen <= Len(a) THEN init.m_addrlen ELSE Len(a)
      BY <1>2, <2>1, MinOfTwo
    <3> HIDE DEF limit
    <3> QED
      BY <2>1, <3>1, FillingIn
  <2>3. object' = [object EXCEPT ![x] = new] /\ IsGiven(x, a, init.m_addrlen)
    BY <1>9 DEF Name, Over
  <2> HIDE DEF new
  <2> QED
    BY <1>1, <1>9, <2>1, <2>2, <2>3, OneIsFilled DEF Name
<1>10. ASSUME NEW x \in Objects, NEW y \in Objects \ {x}, Copy(x, y)
       PROVE  AddressInv'
  <2>1. Copied(x, y) \in Address
    <3>1. \A i \in 1..StorageSize : Copied(x, y).m_address[i] \in Nat
      BY <1>1 DEF Copied, Address
    <3> QED
      BY <1>1, <3>1 DEF Copied, Address
  <2>2. ASSUME from[x] # Nobody
        PROVE  Begins(Copied(x, y), from[x], room[x])
    <3>1. /\ from[x] \in Peers /\ room[x] \in Nat
          /\ Reaches(SubSeq(object[x].m_address, 1, object[x].m_addrlen), from[x], room[x])
      BY <2>2 DEF AddressInv, AnswersReachTheSender, Shown
    <3>2. Begins(object[x], from[x], room[x])
      BY <1>1, <3>1, BeginsIsReached
    <3>3. Len(from[x]) \in 1..StorageSize /\ StorageSize \in Nat
      BY <3>1, StorageHolds
    <3> QED
      BY <3>2, <3>3 DEF Copied, Begins
  <2>3. from[x] \in Peers \cup {Nobody} /\ room[x] \in Nat
    BY DEF AddressInv
  <2> QED
    BY <1>1, <1>10, <2>1, <2>2, <2>3, OneIsFilled DEF Copy
<1>11. CASE UNCHANGED addressVars
  BY <1>11 DEF addressVars, AddressInv, AnswersReachTheSender, Shown
<1> QED
  BY <1>4, <1>5, <1>6, <1>7, <1>8, <1>9, <1>10, <1>11 DEF AddressNext

\* The steps of the other services leave the addresses alone.
LEMMA NextIsAddress == [Next]_vars => [AddressNext]_addressVars
BY DEF Next, vars, Signalling, Pooling, Naming, Addressing

(* An address that came with a datagram, however it was copied on, has the *)
(* length of the sender's when it is answered, and as many of its bytes as *)
(* there was room for, for any set of addresses of any lengths (Socket.cpp *)
(* read, peek, write, SocketAddress).                                      *)
THEOREM AnswersCorrect == Spec => []AnswersReachTheSender
<1>1. Init => AddressInv
  BY AddressInitKeeps DEF Init
<1>2. AddressInv /\ [Next]_vars => AddressInv'
  BY AddressNextKeeps, NextIsAddress
<1>3. AddressInv => AnswersReachTheSender
  BY DEF AddressInv
<1> QED
  BY <1>1, <1>2, <1>3, PTL DEF Spec

-----------------------------------------------------------------------------
(* Identifiers from the clock.                                             *)

\* The clock sequence after k more times that the clock was found set back.
Later(first, k) == IF first + k < Seqs THEN first + k ELSE first + k - Seqs

Identifier == [stamp : Nat, seq : 0..Seqs - 1, time : Nat]

\* What is known of one identifier, given when the sequence was s_clockseq for
\* the n-th time: it is from an earlier reading or less adjusted.
IsFormer(id) == id.time < s_lasttime \/ (id.time = s_lasttime /\ id.stamp <= Units(s_lasttime) + s_adjustment)

SequenceInv(first, n) ==
    /\ time < s_lasttime => n < back
    /\ s_clockseq = Later(first, n)
    /\ \A id \in given : /\ \E k \in 0..n : id.seq = Later(first, k)
                         /\ id.seq = s_clockseq => IsFormer(id)

UUIDInv ==
    /\ time \in Nat \ {0} /\ s_lasttime \in Nat /\ s_adjustment \in 0..MAX_ADJUSTMENT
    /\ s_clockseq \in 0..Seqs - 1 /\ back \in 0..MaxBack
    /\ given \subseteq Identifier
    /\ \A id \in given : Units(id.time) <= id.stamp /\ id.stamp <= Units(id.time) + MAX_ADJUSTMENT
    /\ s_lasttime = 0 => given = {}
    /\ s_lasttime # 0 => \E first \in 0..Seqs - 1, n \in 0..back : SequenceInv(first, n)

LEMMA LaterStarts ==
    ASSUME NEW first \in 0..Seqs - 1
    PROVE  Later(first, 0) = first
BY UUIDAssumption DEF Later

\* A step of the clock sequence wraps around.
LEMMA NextSeqIsLater ==
    ASSUME NEW first \in 0..Seqs - 1, NEW n \in Nat, n + 1 < Seqs, s_clockseq = Later(first, n)
    PROVE  NextSeq = Later(first, n + 1) /\ NextSeq \in 0..Seqs - 1
<1>1. Seqs \in Nat \ {0} /\ first \in Nat /\ first < Seqs
  BY UUIDAssumption
<1>2. s_clockseq \in Nat /\ s_clockseq < Seqs
  BY <1>1 DEF Later
<1>3. \A x \in Nat : x < Seqs => x % Seqs = x
  BY <1>1
<1>4. Seqs % Seqs = 0
  BY <1>1
<1>5. NextSeq = IF s_clockseq + 1 = Seqs THEN 0 ELSE s_clockseq + 1
  BY <1>1, <1>2, <1>3, <1>4 DEF NextSeq
<1> QED
  BY <1>1, <1>2, <1>5 DEF Later

\* Fewer steps than there are values never lead to a value that was there.
LEMMA LaterDiffers ==
    ASSUME NEW first \in 0..Seqs - 1, NEW n \in Nat, n < Seqs, NEW k \in 0..n - 1
    PROVE  Later(first, k) # Later(first, n)
BY UUIDAssumption DEF Later

LEMMA UnitsProperties ==
    ASSUME NEW t \in Nat
    PROVE  /\ Units(t) \in Nat
           /\ Unit * Units(t) <= t * Step
           /\ t * Step < Unit * Units(t) + Unit
<1>1. Unit \in Nat \ {0} /\ Step \in Nat
  BY UUIDAssumption
<1> DEFINE x == t * Step
<1>2. x \in Nat
  BY <1>1
<1>3. x \div Unit \in Nat /\ Unit * (x \div Unit) <= x /\ x < Unit * (x \div Unit) + Unit
  <2> HIDE DEF x
  <2> QED
    BY <1>1, <1>2
<1> QED
  BY <1>3 DEF Units

\* Stamps of readings that are further apart than the adjustments reach.
LEMMA StampsDiffer ==
    ASSUME NEW t \in Nat, NEW u \in Nat, t < u, NEW a \in Nat,
           a <= Units(t) + MAX_ADJUSTMENT, Units(u) <= a
    PROVE  (u - t) * Step < (MAX_ADJUSTMENT + 1) * Unit
<1>1. Unit \in Nat \ {0} /\ Step \in Nat /\ MAX_ADJUSTMENT \in Nat
  BY UUIDAssumption
<1>2. /\ Units(t) \in Nat /\ Unit * Units(t) <= t * Step
      /\ Units(u) \in Nat /\ u * Step < Unit * Units(u) + Unit
  BY UnitsProperties
<1>3. Units(u) <= Units(t) + MAX_ADJUSTMENT
  BY <1>1, <1>2
<1>4. Unit * Units(u) <= Unit * (Units(t) + MAX_ADJUSTMENT)
  BY <1>1, <1>2, <1>3
<1>5. Unit * (Units(t) + MAX_ADJUSTMENT) = Unit * Units(t) + Unit * MAX_ADJUSTMENT
  BY <1>1, <1>2
<1>6. (u - t) * Step = u * Step - t * Step
  BY <1>1
<1>7. (MAX_ADJUSTMENT + 1) * Unit = Unit * MAX_ADJUSTMENT + Unit
  BY <1>1
<1>8. /\ Unit * Units(u) \in Nat /\ Unit * Units(t) \in Nat /\ Unit * MAX_ADJUSTMENT \in Nat
      /\ u * Step \in Nat /\ t * Step \in Nat
  BY <1>1, <1>2
<1> QED
  BY <1>1, <1>2, <1>4, <1>5, <1>6, <1>7, <1>8

LEMMA UUIDInitKeeps == UUIDInit => UUIDInv
BY UUIDAssumption DEF UUIDInit, UUIDInv

\* Neither a tick of the clock nor setting it back touches what was given.
LEMMA ClockKeeps ==
    ASSUME UUIDInv, Tick \/ SetBack
    PROVE  UUIDInv'
<1>1. /\ time' \in Nat \ {0} /\ back' \in 0..MaxBack /\ back <= back'
      /\ time' < s_lasttime => time < s_lasttime \/ back < back'
  BY UUIDAssumption DEF UUIDInv, Tick, SetBack
<1>2. UNCHANGED <<s_lasttime, s_adjustment, s_clockseq, given>>
  BY DEF Tick, SetBack
<1>3. ASSUME NEW first \in 0..Seqs - 1, NEW n \in 0..back, SequenceInv(first, n)
      PROVE  n \in 0..back' /\ SequenceInv(first, n)'
  BY <1>1, <1>2, <1>3, UUIDAssumption DEF SequenceInv, IsFormer, Units, UUIDInv
<1>4. s_lasttime' # 0 => \E first \in 0..Seqs - 1, n \in 0..back' : SequenceInv(first, n)'
  BY <1>2, <1>3 DEF UUIDInv
<1> QED
  BY <1>1, <1>2, <1>4 DEF UUIDInv, Units

\* What generateTime () gives: at the n-th value of the clock sequence, later or
\* more adjusted than what it gave before at that value.
LEMMA GenerateProperties ==
    ASSUME UUIDInv, generateTime
    PROVE  LET new == [stamp |-> Units(time) + s_adjustment', seq |-> s_clockseq', time |-> time]
           IN  /\ UUIDInv'
               /\ new \notin given /\ given' = given \cup {new}
               /\ \A old \in given : old.seq = new.seq =>
                      old.time < time \/ (old.time = time /\ old.stamp < new.stamp)
<1> DEFINE new == [stamp |-> Units(time) + s_adjustment', seq |-> s_clockseq', time |-> time]
           Older(old) == old.time < time \/ (old.time = time /\ old.stamp < new.stamp)
<1>1. /\ Units(time) \in Nat /\ s_lasttime' = time /\ UNCHANGED <<time, back>>
      /\ given' = given \cup {new} /\ time # 0 /\ Units(time)' = Units(time)
  BY UnitsProperties DEF generateTime, UUIDInv, Units
<1>2. /\ Seqs \in Nat \ {0} /\ MAX_ADJUSTMENT \in Nat /\ MaxBack \in Nat /\ MaxBack < Seqs /\ back <= MaxBack
      /\ s_adjustment \in Nat /\ s_lasttime \in Nat /\ time \in Nat /\ back \in Nat
  BY UUIDAssumption DEF UUIDInv
<1>3. \A old \in given : old.stamp \in Nat /\ old.time \in Nat /\ old.seq \in Nat
  BY <1>2 DEF UUIDInv, Identifier
<1>4. /\ s_adjustment' \in 0..MAX_ADJUSTMENT /\ s_clockseq' \in 0..Seqs - 1
      /\ \A old \in given : old.seq = s_clockseq' => Older(old)
      /\ \E first \in 0..Seqs - 1, n \in 0..back :
             /\ s_clockseq' = Later(first, n)
             /\ \A old \in given : \E k \in 0..n : old.seq = Later(first, k)
  <2>1. CASE /\ s_lasttime = 0 /\ s_clockseq' \in 0..Seqs - 1 /\ s_adjustment' = 0
    <3>1. given = {}
      BY <2>1 DEF UUIDInv
    <3>2. s_clockseq' = Later(s_clockseq', 0)
      BY <2>1, LaterStarts
    <3> QED
      BY <1>2, <2>1, <3>1, <3>2
  <2> SUFFICES ASSUME s_lasttime # 0
               PROVE  /\ s_adjustment' \in 0..MAX_ADJUSTMENT /\ s_clockseq' \in 0..Seqs - 1
                      /\ \A old \in given : old.seq = s_clockseq' => Older(old)
                      /\ \E first \in 0..Seqs - 1, n \in 0..back :
                             /\ s_clockseq' = Later(first, n)
                             /\ \A old \in given : \E k \in 0..n : old.seq = Later(first, k)
    BY <2>1 DEF generateTime, Readings
  <2>2. PICK first \in 0..Seqs - 1, n \in 0..back : SequenceInv(first, n)
    BY DEF UUIDInv
  <2>3. /\ s_clockseq = Later(first, n) /\ (time < s_lasttime => n < back)
        /\ \A old \in given : \E k \in 0..n : old.seq = Later(first, k)
        /\ \A old \in given : old.seq = s_clockseq => IsFormer(old)
    BY <2>2 DEF SequenceInv
  <2>4. CASE /\ time < s_lasttime /\ s_clockseq' = NextSeq /\ s_adjustment' = 0
    <3>1. n \in Nat /\ n + 1 \in 0..back /\ n + 1 < Seqs
      BY <1>2, <2>3, <2>4
    <3>2. s_clockseq' = Later(first, n + 1) /\ s_clockseq' \in 0..Seqs - 1
      BY <2>3, <2>4, <3>1, NextSeqIsLater
    <3>3. \A old \in given : old.seq # s_clockseq'
      <4> TAKE old \in given
      <4>1. PICK k \in 0..n : old.seq = Later(first, k)
        BY <2>3
      <4>2. k \in 0..(n + 1) - 1
        BY <3>1
      <4>3. Later(first, k) # Later(first, n + 1)
        BY <3>1, <4>2, LaterDiffers
      <4> QED
        BY <3>2, <4>1, <4>3
    <3>4. \A old \in given : \E k \in 0..n + 1 : old.seq = Later(first, k)
      BY <2>3, <3>1
    <3> QED
      BY <1>2, <2>4, <3>1, <3>2, <3>3, <3>4
  <2>5. CASE /\ time = s_lasttime /\ s_adjustment < MAX_ADJUSTMENT
             /\ s_adjustment' = s_adjustment + 1 /\ UNCHANGED s_clockseq
    <3>1. \A old \in given : old.seq = s_clockseq' => Older(old)
      BY <1>1, <1>2, <1>3, <2>3, <2>5 DEF IsFormer
    <3> QED
      BY <1>2, <2>3, <2>5, <3>1 DEF UUIDInv
  <2>6. CASE /\ time > s_lasttime /\ s_adjustment' = 0 /\ UNCHANGED s_clockseq
    <3>1. \A old \in given : old.seq = s_clockseq' => Older(old)
      BY <1>2, <1>3, <2>3, <2>6 DEF IsFormer
    <3> QED
      BY <1>2, <2>3, <2>6, <3>1 DEF UUIDInv
  <2> QED
    BY <2>4, <2>5, <2>6 DEF generateTime, Readings
<1>5. /\ new.stamp = Units(time) + s_adjustment' /\ new.seq = s_clockseq' /\ new.time = time
      /\ s_adjustment' \in Nat /\ new.stamp \in Nat
  BY <1>1, <1>2, <1>4
<1>6. new \notin given
  BY <1>2, <1>4, <1>5
<1>7. new \in Identifier
  BY <1>2, <1>4, <1>5 DEF Identifier
<1>8. \A id \in given' : Units(id.time)' <= id.stamp /\ id.stamp <= Units(id.time)' + MAX_ADJUSTMENT
  BY <1>1, <1>2, <1>4, <1>5 DEF UUIDInv, Units
<1>9. \E first \in 0..Seqs - 1, n \in 0..back : SequenceInv(first, n)'
  <2>1. PICK first \in 0..Seqs - 1, n \in 0..back :
             /\ s_clockseq' = Later(first, n)
             /\ \A old \in given : \E k \in 0..n : old.seq = Later(first, k)
    BY <1>4
  <2>2. n \in 0..n
    BY <1>2
  <2>3. \A id \in given' : \E k \in 0..n : id.seq = Later(first, k)
    BY <1>1, <1>5, <2>1, <2>2
  <2>4. \A id \in given' : id.seq = s_clockseq' => IsFormer(id)'
    <3> SUFFICES ASSUME NEW id \in given', id.seq = s_clockseq'
                 PROVE  id.time < time \/ (id.time = time /\ id.stamp <= Units(time) + s_adjustment')
      BY <1>1 DEF IsFormer, Units
    <3>1. CASE id \in given
      BY <1>2, <1>3, <1>4, <1>5, <3>1
    <3>2. CASE id = new
      BY <1>1, <1>5, <3>2
    <3> QED
      BY <1>1, <3>1, <3>2
  <2>5. ~(time' < s_lasttime')
    BY <1>1, <1>2
  <2> QED
    BY <2>1, <2>3, <2>4, <2>5 DEF SequenceInv
<1>10. UUIDInv'
  BY <1>1, <1>2, <1>4, <1>7, <1>8, <1>9 DEF UUIDInv
<1> QED
  BY <1>1, <1>4, <1>5, <1>6, <1>10

LEMMA UUIDNextKeeps == UUIDInv /\ [UUIDNext]_uuidVars => UUIDInv'
<1> SUFFICES ASSUME UUIDInv, [UUIDNext]_uuidVars PROVE UUIDInv'
  OBVIOUS
<1>1. CASE Tick \/ SetBack
  BY <1>1, ClockKeeps
<1>2. CASE generateTime
  BY <1>2, GenerateProperties
<1>3. CASE UNCHANGED uuidVars
  BY <1>3 DEF uuidVars, UUIDInv, SequenceInv, IsFormer, Units
<1> QED
  BY <1>1, <1>2, <1>3 DEF UUIDNext

LEMMA NextIsUUID == [Next]_vars => [UUIDNext]_uuidVars
BY DEF Next, vars, Signalling, Pooling, Naming, Addressing

\* Stamps of readings that are too far apart, and of one reading, are different.
LEMMA GivenDiffer ==
    ASSUME UUIDInv, generateTime
    PROVE  /\ given' # given
           /\ \A old \in given, new \in given' \ given :
                 old.stamp = new.stamp /\ old.seq = new.seq =>
                     /\ old.time < new.time
                     /\ (new.time - old.time) * Step < (MAX_ADJUSTMENT + 1) * Unit
<1> DEFINE new == [stamp |-> Units(time) + s_adjustment', seq |-> s_clockseq', time |-> time]
<1>1. /\ UUIDInv' /\ new \notin given /\ given' = given \cup {new}
      /\ \A old \in given : old.seq = new.seq =>
             old.time < time \/ (old.time = time /\ old.stamp < new.stamp)
  BY GenerateProperties
<1>2. /\ new.stamp \in Nat /\ time \in Nat /\ new.time = time /\ UNCHANGED time
      /\ Units(time) <= new.stamp
  <2>1. s_adjustment' \in Nat /\ time \in Nat /\ UNCHANGED time
    BY <1>1 DEF UUIDInv, generateTime
  <2>2. Units(time) \in Nat
    BY <2>1, UnitsProperties
  <2> QED
    BY <2>1, <2>2
<1>3. ASSUME NEW old \in given, old.stamp = new.stamp, old.seq = new.seq
      PROVE  old.time < time /\ (time - old.time) * Step < (MAX_ADJUSTMENT + 1) * Unit
  <2>1. /\ old.time \in Nat /\ old.stamp \in Nat
        /\ old.stamp <= Units(old.time) + MAX_ADJUSTMENT
    BY DEF UUIDInv, Identifier
  <2>2. old.time < time
    BY <1>1, <1>2, <1>3, <2>1
  <2> HIDE DEF new
  <2> QED
    BY <1>2, <1>3, <2>1, <2>2, StampsDiffer
<1> QED
  BY <1>1, <1>2, <1>3

-----------------------------------------------------------------------------
(* Reserves of memory.                                                     *)

Lives == {"none", "made", "alive", "released", "deleted", "leaked"}
PoolRecord == [life : Lives, m_next : Pools \cup {0}, m_size : Sizes \cup {0},
               m_old : {"none", "trigger"}, m_last : BOOLEAN]
Frame == [n : Nat, pool : Pools \cup {0}]

Gone(life) == life \notin {"none", "made", "alive"}
Life(p) == pools[p].life
Alive == {p \in Pools : Life(p) = "alive"}
Below(p) == {q \in Alive : q < p}

Highest(S, x) == IF S = {} THEN x = 0 ELSE x \in S /\ \A q \in S : q <= x

\* Pools are given up from the highest number on: each leads to the next lower one,
\* and holds the handler from then.
ChainInv ==
    /\ pools \in [Pools -> PoolRecord] /\ s_pools \in Pools \cup {0}
    /\ Highest(Alive, s_pools)
    /\ \A p \in Alive : Highest(Below(p), pools[p].m_next)
    /\ handler = IF s_pools = 0 THEN "none" ELSE "trigger"
    /\ \A p \in Alive : pools[p].m_old = IF pools[p].m_next = 0 THEN "none" ELSE "trigger"

\* A callback runs for an allocation, of a pool that is in the chain no more; a
\* constructor that waits is the innermost call, and leads to the newest pool.
CallsInv ==
    /\ calls \in Seq(Frame)
    /\ \A i \in 1..Len(calls) : calls[i].n = 0 =>
           /\ i > 1 /\ calls[i - 1].n > 0
           /\ calls[i].pool \in Pools /\ Gone(pools[calls[i].pool].life)
    /\ \A i \in 1..Len(calls) - 1 : calls[i].n > 0 => calls[i].pool = 0
    /\ Waits /\ Inner.pool # 0 =>
           /\ Life(Inner.pool) = "made" /\ pools[Inner.pool].m_next = s_pools
           /\ \A q \in Alive : q < Inner.pool

PoolInv == ChainInv /\ CallsInv

LEMMA AliveFinite ==
    /\ Alive \subseteq Nat \ {0} /\ Alive \subseteq Pools
    /\ \A S \in SUBSET Alive : IsFiniteSet(S)
BY PoolAssumption, FS_Subset DEF Alive

\* Every set of pools has a lowest one.
LEMMA LowestPool ==
    ASSUME NEW S \in SUBSET Nat, S # {}
    PROVE  \E x \in S : \A y \in S : x <= y
<1>1. PICK x \in S : \A y \in S : ~(<<y, x>> \in OpToRel(<, Nat))
  BY NatLessThanWellFounded, WFMin
<1>2. \A y \in S : ~(y < x)
  BY <1>1 DEF OpToRel
<1> QED
  BY <1>2

\* What can be reached from s_pools is just what is alive.
LEMMA ChainedIsAlive ==
    ASSUME ChainInv
    PROVE  Chained = Alive
<1>1. Alive \in SUBSET Pools /\ FollowsNext(Alive)
  <2>1. s_pools \in Alive \cup {0}
    BY DEF ChainInv, Highest
  <2>2. \A p \in Alive : pools[p].m_next \in Alive \cup {0}
    BY DEF ChainInv, Highest, Below
  <2> QED
    BY <2>1, <2>2, AliveFinite DEF FollowsNext
<1>2. ASSUME NEW S \in SUBSET Pools, FollowsNext(S), Alive \ S # {}
      PROVE  FALSE
  <2> DEFINE m == Max(Alive \ S)
  <2>1. m \in Alive /\ m \notin S /\ \A p \in Alive \ S : p <= m
    BY <1>2, AliveFinite, FiniteMax
  <2>2. m \in Nat \ {0} /\ Alive \subseteq Nat
    BY <2>1, AliveFinite
  <2> HIDE DEF m
  <2>3. s_pools \in Alive /\ m <= s_pools /\ s_pools \in S
    BY <1>2, <2>1, <2>2 DEF ChainInv, Highest, FollowsNext
  <2> DEFINE above == {q \in Alive : m < q}
  <2>4. s_pools \in above
    BY <2>1, <2>2, <2>3
  <2>5. PICK q \in above : \A y \in above : q <= y
    BY <2>2, <2>4, LowestPool
  <2>6. m \in Below(q) /\ \A y \in Below(q) : y <= m
    BY <2>1, <2>2, <2>5 DEF Below
  <2>7. q \in S
    BY <2>1, <2>2, <2>5
  <2>8. pools[q].m_next = m
    <3>1. Highest(Below(q), pools[q].m_next) /\ Below(q) # {}
      BY <2>5, <2>6 DEF ChainInv
    <3>2. pools[q].m_next \in Below(q) /\ m <= pools[q].m_next /\ pools[q].m_next <= m
      BY <2>6, <3>1 DEF Highest
    <3>3. pools[q].m_next \in Nat
      BY <2>2, <3>2 DEF Below
    <3> QED
      BY <2>2, <3>2, <3>3
  <2> QED
    BY <1>2, <2>1, <2>2, <2>7, <2>8 DEF FollowsNext
<1>3. Chained \subseteq Alive
  BY <1>1 DEF Chained
<1>4. Alive \subseteq Chained
  BY <1>1, <1>2 DEF Chained
<1> QED
  BY <1>3, <1>4

\* The chain has an end, where the handler is found that was there before it.
LEMMA ChainEnds ==
    ASSUME ChainInv, s_pools # 0
    PROVE  pools[CHOOSE p \in Chained : pools[p].m_next = 0].m_old = "none"
<1>1. Alive # {} /\ Alive \subseteq Nat \ {0}
  BY AliveFinite DEF ChainInv, Highest
<1>2. PICK p \in Alive : \A q \in Alive : p <= q
  BY <1>1, LowestPool
<1>3. Below(p) = {}
  <2>1. \A q \in Alive : p \in Nat /\ q \in Nat /\ ~(q < p)
    BY <1>1, <1>2
  <2> QED
    BY <2>1 DEF Below
<1>4. pools[p].m_next = 0
  BY <1>3 DEF ChainInv, Highest
<1>5. Chained = Alive
  BY ChainedIsAlive
<1>6. (CHOOSE x \in Chained : pools[x].m_next = 0) \in Alive
      /\ pools[CHOOSE x \in Chained : pools[x].m_next = 0].m_next = 0
  BY <1>4, <1>5
<1> QED
  BY <1>6 DEF ChainInv

\* What one step does to the calls that go on or are over.
LEMMA FrontProperties ==
    ASSUME NEW S, NEW s \in Seq(S), s # <<>>
    PROVE  /\ Front(s) \in Seq(S)
           /\ Len(Front(s)) = Len(s) - 1
           /\ \A i \in 1..Len(s) - 1 : Front(s)[i] = s[i]
<1>1. Len(s) \in Nat \ {0}
  BY EmptySeq
<1>2. \A i \in 1..Len(s) - 1 : s[i] \in S
  BY <1>1, ElementOfSeq
<1>3. 1 \in Int /\ Len(s) - 1 \in Int
  BY <1>1
<1>4. /\ SubSeq(s, 1, Len(s) - 1) \in Seq(S)
      /\ Len(SubSeq(s, 1, Len(s) - 1)) = IF 1 <= Len(s) - 1 THEN Len(s) - 1 - 1 + 1 ELSE 0
      /\ \A i \in 1..(Len(s) - 1 - 1 + 1) : SubSeq(s, 1, Len(s) - 1)[i] = s[1 + i - 1]
  BY <1>2, <1>3, SubSeqProperties
<1>5. \A i \in 1..Len(s) - 1 : SubSeq(s, 1, Len(s) - 1)[i] = s[i]
  BY <1>1, <1>4
<1>6. Len(SubSeq(s, 1, Len(s) - 1)) = Len(s) - 1
  <2>1. CASE Len(s) = 1
    BY <1>4, <2>1
  <2>2. CASE Len(s) # 1
    <3>1. ASSUME NEW n \in Nat \ {0}, n # 1
          PROVE  1 <= n - 1 /\ n - 1 - 1 + 1 = n - 1
      BY <3>1
    <3>2. 1 <= Len(s) - 1 /\ Len(s) - 1 - 1 + 1 = Len(s) - 1
      BY <1>1, <2>2, <3>1
    <3> QED
      BY <1>4, <3>2
  <2> QED
    BY <2>1, <2>2
<1> QED
  BY <1>4, <1>5, <1>6 DEF Front

\* The pools whose callbacks run.
Called == {p \in Pools : \E i \in 1..Len(calls) : calls[i].pool = p}
StayGone == \A p \in Called : Gone(pools[p].life) => Gone(pools'[p].life)

LEMMA CallsPopped ==
    ASSUME CallsInv, StayGone, calls' \in Seq(Frame), Len(calls') < Len(calls),
           \A i \in 1..Len(calls') : calls'[i] = calls[i]
    PROVE  CallsInv'
<1>1. Len(calls) \in Nat /\ Len(calls') \in Nat
  BY LenProperties DEF CallsInv
<1>2. \A i \in 1..Len(calls') : calls'[i].n = 0 =>
          /\ i > 1 /\ calls'[i - 1].n > 0
          /\ calls'[i].pool \in Pools /\ Gone(pools'[calls'[i].pool].life)
  <2> SUFFICES ASSUME NEW i \in 1..Len(calls'), calls'[i].n = 0
               PROVE  /\ i > 1 /\ calls'[i - 1].n > 0
                      /\ calls'[i].pool \in Pools /\ Gone(pools'[calls'[i].pool].life)
    OBVIOUS
  <2>1. i \in 1..Len(calls) /\ calls[i].n = 0 /\ calls'[i] = calls[i]
    BY <1>1
  <2>2. /\ i > 1 /\ calls[i - 1].n > 0
        /\ calls[i].pool \in Pools /\ Gone(pools[calls[i].pool].life)
    BY <2>1 DEF CallsInv
  <2>3. i - 1 \in 1..Len(calls') /\ calls'[i - 1] = calls[i - 1]
    BY <1>1, <2>2
  <2> QED
    BY <2>1, <2>2, <2>3 DEF StayGone, Called
<1>3. \A i \in 1..Len(calls') : calls'[i].n > 0 => calls'[i].pool = 0
  <2> TAKE i \in 1..Len(calls')
  <2>1. i \in 1..Len(calls) - 1
    BY <1>1
  <2> QED
    BY <2>1 DEF CallsInv
<1>4. \A i \in 1..Len(calls') - 1 : calls'[i].n > 0 => calls'[i].pool = 0
  BY <1>1, <1>3
<1>5. ~(Waits' /\ Inner'.pool # 0)
  <2>1. calls' # <<>> => Len(calls') \in 1..Len(calls')
    BY <1>1, EmptySeq
  <2> QED
    BY <1>3, <2>1 DEF Waits, Inner
<1> QED
  BY <1>2, <1>4, <1>5 DEF CallsInv

LEMMA CallsAppended ==
    ASSUME CallsInv, StayGone, NEW f \in Frame, calls' = Append(calls, f),
           Waits => Inner.pool = 0,
           f.n = 0 => Waits /\ f.pool \in Pools /\ Gone(pools'[f.pool].life),
           f.n > 0 /\ f.pool # 0 => /\ pools'[f.pool].life = "made" /\ pools'[f.pool].m_next = s_pools'
                                    /\ \A q \in Alive' : q < f.pool
    PROVE  CallsInv'
<1> DEFINE n == Len(calls)
<1>1. /\ calls \in Seq(Frame) /\ n \in Nat /\ Len(calls') = n + 1
      /\ calls' \in Seq(Frame) /\ calls' # <<>> /\ calls'[n + 1] = f
      /\ \A i \in 1..n : calls'[i] = calls[i]
  BY AppendProperties, LenProperties DEF CallsInv
<1>2. Waits => n \in 1..n /\ Inner = calls[n] /\ calls[n].n > 0
  BY <1>1, EmptySeq DEF Waits, Inner
<1>3. \A i \in 1..n + 1 : calls'[i].n = 0 =>
          /\ i > 1 /\ calls'[i - 1].n > 0
          /\ calls'[i].pool \in Pools /\ Gone(pools'[calls'[i].pool].life)
  <2> SUFFICES ASSUME NEW i \in 1..n + 1, calls'[i].n = 0
               PROVE  /\ i > 1 /\ calls'[i - 1].n > 0
                      /\ calls'[i].pool \in Pools /\ Gone(pools'[calls'[i].pool].life)
    OBVIOUS
  <2>1. CASE i = n + 1
    <3>1. f.n = 0 /\ calls'[i] = f
      BY <1>1, <2>1
    <3>2. n \in 1..n /\ calls'[n].n > 0 /\ i - 1 = n
      BY <1>1, <1>2, <2>1, <3>1
    <3> QED
      BY <1>1, <3>1, <3>2
  <2>2. CASE i \in 1..n
    <3>1. /\ i > 1 /\ calls[i - 1].n > 0
          /\ calls[i].pool \in Pools /\ Gone(pools[calls[i].pool].life)
      BY <1>1, <2>2 DEF CallsInv
    <3>2. i - 1 \in 1..n
      BY <1>1, <2>2, <3>1
    <3> QED
      BY <1>1, <2>2, <3>1, <3>2 DEF StayGone, Called
  <2> QED
    BY <1>1, <2>1, <2>2
<1>4. \A i \in 1..n : calls'[i].n > 0 => calls'[i].pool = 0
  <2> SUFFICES ASSUME NEW i \in 1..n, calls[i].n > 0
               PROVE  calls[i].pool = 0
    BY <1>1
  <2>1. CASE i = n
    <3>1. calls # <<>>
      BY <1>1, <2>1, EmptySeq
    <3> QED
      BY <2>1, <3>1 DEF Waits, Inner
  <2>2. CASE i # n
    BY <1>1, <2>2 DEF CallsInv
  <2> QED
    BY <2>1, <2>2
<1>5. Inner' = f
  BY <1>1 DEF Inner
<1>6. Waits' => f.n > 0
  BY <1>5 DEF Waits
<1>7. \A i \in 1..Len(calls') - 1 : calls'[i].n > 0 => calls'[i].pool = 0
  BY <1>1, <1>4
<1>8. (Waits /\ Inner.pool # 0)' =>
          /\ Life(Inner.pool)' = "made" /\ pools'[Inner'.pool].m_next = s_pools'
          /\ \A q \in Alive' : q < Inner'.pool
  BY <1>5, <1>6 DEF Life
<1> QED
  BY <1>1, <1>3, <1>7, <1>8 DEF CallsInv

LEMMA CallsKept ==
    ASSUME CallsInv, StayGone, UNCHANGED calls, ~Waits
    PROVE  CallsInv'
BY DEF CallsInv, StayGone, Called, Waits, Inner

\* The chain is what it was as long as the same pools are alive.
LEMMA ChainKept ==
    ASSUME ChainInv, pools' \in [Pools -> PoolRecord], UNCHANGED <<s_pools, handler>>,
           \A p \in Pools : /\ Life(p)' = "alive" <=> Life(p) = "alive"
                            /\ Life(p) = "alive" => pools'[p] = pools[p]
    PROVE  ChainInv' /\ Alive' = Alive
<1>1. Alive' = Alive /\ \A p \in Alive : Below(p)' = Below(p) /\ pools'[p] = pools[p]
  BY DEF Alive, Below
<1> QED
  BY <1>1 DEF ChainInv, Highest

LEMMA PoolInitKeeps == PoolInit => PoolInv
<1> SUFFICES ASSUME PoolInit PROVE PoolInv
  OBVIOUS
<1>1. Alive = {}
  BY DEF PoolInit, Alive, Life
<1>2. calls = <<>> /\ Len(calls) = 0 /\ calls \in Seq(Frame)
  BY EmptySeq DEF PoolInit
<1>3. ChainInv
  BY <1>1 DEF ChainInv, PoolInit, PoolRecord, Lives, Life, Highest
<1>4. CallsInv
  BY <1>2 DEF CallsInv, Waits
<1> QED
  BY <1>3, <1>4 DEF PoolInv

\* An allocation is asked for, or memory is freed.
LEMMA AllocateKeeps ==
    ASSUME PoolInv, NEW n \in Sizes, Allocate(n) \/ Free(n)
    PROVE  PoolInv'
<1>1. UNCHANGED <<s_pools, pools, handler>> /\ ~Waits
  BY DEF Allocate, Free, Runs
<1>2. ChainInv'
  BY <1>1, ChainKept DEF PoolInv, ChainInv, Life
<1>3. StayGone
  BY <1>1 DEF StayGone
<1>4. CASE Allocate(n)
  <2>1. [n |-> n, pool |-> 0] \in Frame /\ n > 0
    BY PoolAssumption DEF Frame
  <2>2. calls' = Append(calls, [n |-> n, pool |-> 0])
    BY <1>4 DEF Allocate, Call
  <2>3. CallsInv'
    BY <1>1, <1>3, <2>1, <2>2, CallsAppended DEF PoolInv
  <2> QED
    BY <1>2, <2>3 DEF PoolInv
<1>5. CASE Free(n)
  BY <1>1, <1>2, <1>3, <1>5, CallsKept DEF PoolInv, Free
<1> QED
  BY <1>4, <1>5

\* The pool that is made next has a number above those alive, which no call has.
LEMMA AddKeeps ==
    ASSUME PoolInv, NEW p \in Pools, NEW n \in Sizes, NEW last \in BOOLEAN, add(p, n, last)
    PROVE  PoolInv'
<1> DEFINE record == [life |-> "made", m_next |-> s_pools, m_size |-> n, m_old |-> "none", m_last |-> last]
<1>1. /\ p \in Fresh /\ ~Waits
      /\ pools' = [pools EXCEPT ![p] = record] /\ calls' = Append(calls, [n |-> n, pool |-> p])
      /\ UNCHANGED <<s_pools, handler>>
  BY DEF add, Runs, Call
<1>2. /\ pools' \in [Pools -> PoolRecord] /\ pools'[p] = record
      /\ \A q \in Pools \ {p} : pools'[q] = pools[q]
  <2>1. record \in PoolRecord
    BY DEF PoolInv, ChainInv, PoolRecord, Lives
  <2> QED
    BY <1>1, <2>1 DEF PoolInv, ChainInv
<1>3. (\A q \in Alive : q < p) /\ p \notin Called
  BY <1>1 DEF Fresh, Alive, Life, Called
<1>4. p \notin Alive
  BY <1>3, PoolAssumption
<1>5. \A q \in Pools : /\ Life(q)' = "alive" <=> Life(q) = "alive"
                       /\ Life(q) = "alive" => pools'[q] = pools[q]
  BY <1>2, <1>4 DEF Life, Alive
<1>6. ChainInv' /\ Alive' = Alive
  BY <1>1, <1>2, <1>5, ChainKept DEF PoolInv
<1>7. StayGone
  BY <1>2, <1>3 DEF StayGone, Called
<1>8. [n |-> n, pool |-> p] \in Frame /\ n > 0
  BY PoolAssumption DEF Frame
<1>9. CallsInv'
  BY <1>1, <1>2, <1>3, <1>6, <1>7, <1>8, CallsAppended DEF PoolInv
<1> QED
  BY <1>6, <1>9 DEF PoolInv

\* The frames that wait, and those below a callback.
LEMMA InnerProperties ==
    ASSUME CallsInv, calls # <<>>
    PROVE  /\ Len(calls) \in Nat \ {0} /\ Inner \in Frame
           /\ InCallback => /\ Len(calls) > 1 /\ Inner.pool \in Pools /\ Gone(Life(Inner.pool))
                            /\ calls[Len(calls) - 1].pool = 0
<1>1. Len(calls) \in Nat \ {0}
  BY EmptySeq DEF CallsInv
<1>2. Inner \in Frame
  BY <1>1, ElementOfSeq DEF CallsInv, Inner
<1>3. ASSUME InCallback
      PROVE  /\ Len(calls) > 1 /\ Inner.pool \in Pools /\ Gone(Life(Inner.pool))
             /\ calls[Len(calls) - 1].pool = 0
  <2>1. Len(calls) \in 1..Len(calls) /\ calls[Len(calls)].n = 0
    BY <1>1, <1>3 DEF InCallback, Inner
  <2>2. /\ Len(calls) > 1 /\ calls[Len(calls) - 1].n > 0
        /\ Inner.pool \in Pools /\ Gone(Life(Inner.pool))
    BY <2>1 DEF CallsInv, Inner, Life
  <2>3. Len(calls) - 1 \in 1..Len(calls) - 1
    BY <1>1, <2>2
  <2> QED
    BY <2>2, <2>3 DEF CallsInv
<1> QED
  BY <1>1, <1>2, <1>3

\* What is left of the calls when one or two are over.
LEMMA PoppedFrames ==
    ASSUME CallsInv, calls # <<>>
    PROVE  /\ Front(calls) \in Seq(Frame) /\ Len(Front(calls)) = Len(calls) - 1
           /\ \A i \in 1..Len(Front(calls)) : Front(calls)[i] = calls[i]
           /\ Len(calls) > 1 =>
                 /\ Front(Front(calls)) \in Seq(Frame) /\ Len(Front(Front(calls))) = Len(calls) - 2
                 /\ \A i \in 1..Len(Front(Front(calls))) : Front(Front(calls))[i] = calls[i]
<1>1. /\ Front(calls) \in Seq(Frame) /\ Len(Front(calls)) = Len(calls) - 1
      /\ \A i \in 1..Len(calls) - 1 : Front(calls)[i] = calls[i]
      /\ Len(calls) \in Nat
  BY FrontProperties, LenProperties DEF CallsInv
<1>2. ASSUME Len(calls) > 1
      PROVE  /\ Front(Front(calls)) \in Seq(Frame) /\ Len(Front(Front(calls))) = Len(calls) - 2
             /\ \A i \in 1..Len(Front(Front(calls))) : Front(Front(calls))[i] = calls[i]
  <2>1. Front(calls) # <<>>
    BY <1>1, <1>2, EmptySeq
  <2>2. /\ Front(Front(calls)) \in Seq(Frame) /\ Len(Front(Front(calls))) = Len(Front(calls)) - 1
        /\ \A i \in 1..Len(Front(calls)) - 1 : Front(Front(calls))[i] = Front(calls)[i]
    BY <1>1, <2>1, FrontProperties
  <2> QED
    BY <1>1, <1>2, <2>2
<1> QED
  BY <1>1, <1>2

\* What was asked for is there; the pool of a constructor goes to the head.
LEMMA ServedKeeps ==
    ASSUME PoolInv, Served
    PROVE  PoolInv'
<1>1. calls # <<>> /\ Waits /\ calls' = Front(calls)
  BY DEF Served, Waits
<1>2. /\ calls' \in Seq(Frame) /\ Len(calls') < Len(calls) /\ \A i \in 1..Len(calls') : calls'[i] = calls[i]
  BY <1>1, PoppedFrames, InnerProperties DEF PoolInv
<1>3. CASE Inner.pool = 0
  <2>1. UNCHANGED <<s_pools, pools, handler>>
    BY <1>3 DEF Served
  <2>2. ChainInv' /\ StayGone
    BY <2>1, ChainKept DEF PoolInv, ChainInv, Life, StayGone
  <2> QED
    BY <1>2, <2>2, CallsPopped DEF PoolInv
<1>4. CASE Inner.pool # 0
  <2>0. PICK p : p = Inner.pool
    OBVIOUS
  <2>1. /\ p \in Pools /\ Life(p) = "made" /\ pools[p].m_next = s_pools /\ \A q \in Alive : q < p
    BY <1>1, <1>4, <2>0, InnerProperties DEF PoolInv, CallsInv, Frame
  <2>2. /\ pools' = [pools EXCEPT ![p].life = "alive", ![p].m_old = handler]
        /\ handler' = "trigger" /\ s_pools' = p
    BY <1>4, <2>0 DEF Served
  <2>3. /\ pools' \in [Pools -> PoolRecord]
        /\ pools'[p].life = "alive" /\ pools'[p].m_old = handler /\ pools'[p].m_next = s_pools
        /\ \A q \in Pools \ {p} : pools'[q] = pools[q]
    <3>1. pools[p] \in PoolRecord /\ handler \in {"none", "trigger"}
      BY <2>1 DEF PoolInv, ChainInv
    <3>2. [pools[p] EXCEPT !.life = "alive", !.m_old = handler] \in PoolRecord
      BY <3>1 DEF PoolRecord, Lives
    <3>3. pools' = [pools EXCEPT ![p] = [pools[p] EXCEPT !.life = "alive", !.m_old = handler]]
      BY <2>1, <2>2 DEF PoolInv, ChainInv
    <3> QED
      BY <2>1, <3>1, <3>2, <3>3 DEF PoolInv, ChainInv, PoolRecord
  <2>4. Alive' = Alive \cup {p} /\ p \notin Alive
    BY <2>1, <2>3 DEF Alive, Life
  <2>5. p \in Nat \ {0} /\ Alive \subseteq Nat
    BY <2>1, PoolAssumption, AliveFinite
  <2>6. Highest(Alive', p)
    BY <2>1, <2>4, <2>5 DEF Highest
  <2>7. Below(p)' = Alive /\ \A q \in Alive : Below(q)' = Below(q)
    <3>1. \A x \in Alive' : x < p <=> x \in Alive
      BY <2>1, <2>4, <2>5
    <3>2. \A q \in Alive, x \in Alive' : x < q => x \in Alive
      BY <2>1, <2>4, <2>5
    <3>3. Below(p)' = {x \in Alive' : x < p} /\ \A q \in Alive : Below(q)' = {x \in Alive' : x < q}
      BY DEF Below
    <3>4. Below(p)' = Alive
      BY <2>4, <3>1, <3>3
    <3>5. \A q \in Alive : Below(q)' = Below(q)
      BY <2>4, <3>2, <3>3 DEF Below
    <3> QED
      BY <3>4, <3>5
  <2>8. \A q \in Alive' : Highest(Below(q)', pools'[q].m_next)
    <3>1. CASE Highest(Alive, s_pools)
      <4> TAKE q \in Alive'
      <4>1. CASE q = p
        BY <2>3, <2>7, <3>1, <4>1
      <4>2. CASE q \in Alive
        BY <2>3, <2>4, <2>7, <4>2 DEF PoolInv, ChainInv, Alive
      <4> QED
        BY <2>4, <4>1, <4>2
    <3> QED
      BY <3>1 DEF PoolInv, ChainInv
  <2>9. \A q \in Alive' : pools'[q].m_old = IF pools'[q].m_next = 0 THEN "none" ELSE "trigger"
    BY <2>3, <2>4 DEF PoolInv, ChainInv, Alive
  <2>11. ChainInv'
    BY <2>1, <2>2, <2>3, <2>5, <2>6, <2>8, <2>9 DEF ChainInv
  <2>12. StayGone
    BY <2>1, <2>3 DEF StayGone, Gone, Life, Called
  <2> QED
    BY <1>2, <2>11, <2>12, CallsPopped DEF PoolInv
<1> QED
  BY <1>3, <1>4

\* An allocation fails, and the pool it was for is gone.
LEMMA BadAllocKeeps ==
    ASSUME PoolInv, BadAlloc
    PROVE  PoolInv' /\ s_pools = 0
<1>1. /\ calls # <<>> /\ Waits /\ calls' = Front(calls) /\ pools' = Deserted
      /\ UNCHANGED <<s_pools, handler>>
  BY DEF BadAlloc, Waits
<1>2. /\ calls' \in Seq(Frame) /\ Len(calls') < Len(calls) /\ \A i \in 1..Len(calls') : calls'[i] = calls[i]
  BY <1>1, PoppedFrames, InnerProperties DEF PoolInv
<1>3. ChainInv' /\ StayGone
  <2>1. CASE Inner.pool = 0
    <3>1. UNCHANGED pools
      BY <1>1, <2>1 DEF Deserted
    <3> QED
      BY <1>1, <3>1, ChainKept DEF PoolInv, ChainInv, Life, StayGone
  <2>2. CASE Inner.pool # 0
    <3>0. PICK p : p = Inner.pool
      OBVIOUS
    <3>1. p \in Pools /\ Life(p) = "made"
      BY <1>1, <2>2, <3>0, InnerProperties DEF PoolInv, CallsInv, Frame
    <3>2. pools[p] \in PoolRecord /\ [pools[p] EXCEPT !.life = "deleted"] \in PoolRecord
      BY <3>1 DEF PoolInv, ChainInv, PoolRecord, Lives
    <3>3. pools' = [pools EXCEPT ![p] = [pools[p] EXCEPT !.life = "deleted"]]
      BY <1>1, <2>2, <3>0, <3>1 DEF Deserted, PoolInv, ChainInv
    <3>4. /\ pools' \in [Pools -> PoolRecord] /\ pools'[p].life = "deleted"
          /\ \A q \in Pools \ {p} : pools'[q] = pools[q]
      BY <3>1, <3>2, <3>3 DEF PoolInv, ChainInv, PoolRecord
    <3>5. \A q \in Pools : /\ Life(q)' = "alive" <=> Life(q) = "alive"
                           /\ Life(q) = "alive" => pools'[q] = pools[q]
      BY <3>1, <3>4 DEF Life
    <3>6. ChainInv'
      BY <1>1, <3>4, <3>5, ChainKept DEF PoolInv
    <3>7. StayGone
      BY <3>4 DEF StayGone, Gone, Called
    <3> QED
      BY <3>6, <3>7
  <2> QED
    BY <2>1, <2>2
<1>4. s_pools = 0
  BY DEF PoolInv, ChainInv, BadAlloc
<1> QED
  BY <1>2, <1>3, <1>4, CallsPopped DEF PoolInv

\* The head of the chain is given up, and its callback begins; if a constructor
\* waits, its pool does not lead to the new head.
LEMMA triggerKeeps ==
    ASSUME PoolInv, trigger
    PROVE  calls' \in Seq(Frame) /\ (PoolInv' \/ Dangling')
<1>0. PICK p : p = s_pools
  OBVIOUS
<1>1. /\ Waits /\ ~Fits /\ p # 0 /\ s_pools' = pools[p].m_next /\ handler' = pools[p].m_old
      /\ pools' = [pools EXCEPT ![p].life = "released"] /\ calls' = Append(calls, [n |-> 0, pool |-> p])
  BY <1>0 DEF trigger, Unlinked, Call
<1>2. p \in Alive /\ (\A q \in Alive : q <= p) /\ p \in Pools /\ p \in Nat /\ Alive \subseteq Nat
  BY <1>0, <1>1, AliveFinite DEF PoolInv, ChainInv, Highest
<1>3. /\ pools' \in [Pools -> PoolRecord] /\ pools'[p].life = "released"
      /\ \A q \in Pools \ {p} : pools'[q] = pools[q]
  <2>1. pools[p] \in PoolRecord
    BY <1>2 DEF PoolInv, ChainInv
  <2>2. [pools[p] EXCEPT !.life = "released"] \in PoolRecord
    BY <2>1 DEF PoolRecord, Lives
  <2>3. pools' = [pools EXCEPT ![p] = [pools[p] EXCEPT !.life = "released"]]
    BY <1>1, <1>2 DEF PoolInv, ChainInv
  <2> QED
    BY <1>2, <2>1, <2>2, <2>3 DEF PoolInv, ChainInv, PoolRecord
<1>4. Alive' = Alive \ {p}
  BY <1>2, <1>3 DEF Alive, Life
<1>5. Alive' = Below(p) /\ \A q \in Alive' : Below(q)' = Below(q)
  <2>1. \A x \in Alive : x < p <=> x # p
    BY <1>2
  <2>2. \A q \in Alive', x \in Alive : x < q => x # p
    BY <1>2, <1>4
  <2>3. Alive' = Below(p)
    BY <1>4, <2>1 DEF Below
  <2>4. \A q \in Alive' : Below(q)' = {x \in Alive' : x < q} /\ Below(q) = {x \in Alive : x < q}
    BY DEF Below
  <2>5. \A q \in Alive' : Below(q)' = Below(q)
    BY <1>4, <2>2, <2>4
  <2> QED
    BY <2>3, <2>5
<1>6. Highest(Alive', s_pools') /\ \A q \in Alive' : Highest(Below(q)', pools'[q].m_next)
  <2>1. Highest(Below(p), pools[p].m_next) /\ \A q \in Alive : Highest(Below(q), pools[q].m_next)
    BY <1>2 DEF PoolInv, ChainInv
  <2>2. \A q \in Alive' : q \in Alive /\ pools'[q] = pools[q]
    BY <1>3, <1>4 DEF Alive
  <2> QED
    BY <1>1, <1>5, <2>1, <2>2
<1>7. /\ handler' = IF s_pools' = 0 THEN "none" ELSE "trigger"
      /\ \A q \in Alive' : pools'[q].m_old = IF pools'[q].m_next = 0 THEN "none" ELSE "trigger"
  BY <1>1, <1>2, <1>3, <1>4 DEF PoolInv, ChainInv, Alive
<1>9. s_pools' \in Pools \cup {0}
  BY <1>1, <1>2 DEF PoolInv, ChainInv, PoolRecord
<1>10. ChainInv'
  BY <1>3, <1>6, <1>7, <1>9 DEF ChainInv
<1>11. StayGone /\ Gone(pools'[p].life)
  BY <1>2, <1>3 DEF StayGone, Gone, Alive, Life, Called
<1>12. [n |-> 0, pool |-> p] \in Frame
  BY <1>2 DEF Frame
<1>. calls' \in Seq(Frame)
  BY <1>1, <1>12, AppendProperties DEF PoolInv, CallsInv
<1>13. CASE Inner.pool = 0
  <2>1. CallsInv'
    BY <1>1, <1>2, <1>11, <1>12, <1>13, CallsAppended DEF PoolInv
  <2> QED
    BY <1>10, <2>1 DEF PoolInv
<1>14. CASE Inner.pool # 0
  <2>1. PICK c : c = Inner.pool
    OBVIOUS
  <2>2. c \in Pools /\ Life(c) = "made" /\ pools[c].m_next = p
    BY <1>0, <1>1, <1>14, <2>1, InnerProperties DEF PoolInv, CallsInv, Frame, Waits
  <2>3. pools'[c] = pools[c]
    BY <1>2, <1>3, <2>2 DEF Alive
  <2>4. s_pools' # p
    <3>1. s_pools' = 0 \/ s_pools' \in Alive'
      BY <1>6 DEF Highest
    <3> QED
      BY <1>1, <1>4, <3>1
  <2>5. pools'[c].life = "made" /\ pools'[c].m_next # s_pools'
    BY <2>2, <2>3, <2>4 DEF Life
  <2> QED
    BY <2>2, <2>5 DEF Dangling
<1> QED
  BY <1>13, <1>14

\* A callback returns or throws: its pool was no longer in the chain, and what it
\* was called for was an allocation of the program.
LEMMA CallbackKeeps ==
    ASSUME PoolInv, CallbackReturns \/ CallbackThrows
    PROVE  PoolInv'
<1>0. PICK p : p = Inner.pool
  OBVIOUS
<1>1. InCallback /\ calls # <<>>
  BY DEF CallbackReturns, CallbackThrows, InCallback
<1>2. /\ Len(calls) > 1 /\ p \in Pools /\ Gone(Life(p)) /\ calls[Len(calls) - 1].pool = 0
      /\ Len(calls) \in Nat
  BY <1>0, <1>1, InnerProperties DEF PoolInv
<1>3. /\ UNCHANGED <<s_pools, handler>>
      /\ \E after \in {"deleted", "leaked"} : pools' = [pools EXCEPT ![p].life = after]
      /\ calls' = Front(calls) \/ calls' = Front(Front(calls))
  BY <1>0, <1>2 DEF CallbackReturns, CallbackThrows
<1>4. PICK after \in {"deleted", "leaked"} : pools' = [pools EXCEPT ![p].life = after]
  BY <1>3
<1>5. /\ pools' \in [Pools -> PoolRecord] /\ pools'[p].life = after
      /\ \A q \in Pools \ {p} : pools'[q] = pools[q]
  <2>1. pools[p] \in PoolRecord
    BY <1>2 DEF PoolInv, ChainInv
  <2>2. [pools[p] EXCEPT !.life = after] \in PoolRecord
    BY <2>1 DEF PoolRecord, Lives
  <2>3. pools' = [pools EXCEPT ![p] = [pools[p] EXCEPT !.life = after]]
    BY <1>2, <1>4 DEF PoolInv, ChainInv
  <2> QED
    BY <1>2, <2>1, <2>2, <2>3 DEF PoolInv, ChainInv, PoolRecord
<1>6. Life(p) # "none" /\ Life(p) # "alive"
  BY <1>2 DEF Gone
<1>8. \A q \in Pools : /\ Life(q)' = "alive" <=> Life(q) = "alive"
                       /\ Life(q) = "alive" => pools'[q] = pools[q]
  BY <1>2, <1>5, <1>6 DEF Life
<1>9. ChainInv'
  BY <1>3, <1>5, <1>8, ChainKept DEF PoolInv
<1>10. StayGone
  BY <1>2, <1>5 DEF StayGone, Gone, Called
<1>11. calls' \in Seq(Frame) /\ Len(calls') < Len(calls) /\ \A i \in 1..Len(calls') : calls'[i] = calls[i]
  BY <1>1, <1>2, <1>3, PoppedFrames DEF PoolInv
<1> QED
  BY <1>9, <1>10, <1>11, CallsPopped DEF PoolInv

\* The whole chain goes.
LEMMA resetKeeps ==
    ASSUME PoolInv, reset
    PROVE  PoolInv'
<1>1. Chained = Alive
  BY ChainedIsAlive DEF PoolInv
<1>2. /\ s_pools' = 0 /\ ~Waits /\ UNCHANGED calls
      /\ handler' = "none"
      /\ pools' = [p \in Pools |-> IF p \in Alive THEN [pools[p] EXCEPT !.life = "deleted"] ELSE pools[p]]
  BY <1>1, ChainEnds DEF PoolInv, reset, Runs
<1>3. \A p \in Pools : pools[p] \in PoolRecord /\ [pools[p] EXCEPT !.life = "deleted"] \in PoolRecord
  BY DEF PoolInv, ChainInv, PoolRecord, Lives
<1>4. pools' \in [Pools -> PoolRecord]
  BY <1>2, <1>3
<1>5. \A p \in Pools : Life(p)' = IF p \in Alive THEN "deleted" ELSE Life(p)
  BY <1>2, <1>3 DEF Life, PoolRecord
<1>6. Alive' = {}
  BY <1>5 DEF Alive
<1>8. ChainInv'
  BY <1>2, <1>4, <1>6 DEF ChainInv, Highest
<1>9. StayGone
  BY <1>5 DEF StayGone, Gone, Life, Called
<1> QED
  BY <1>2, <1>8, <1>9, CallsKept DEF PoolInv

\* Until m_next of a pool dangles, and then nothing is claimed.
PoolHolds == calls \in Seq(Frame) /\ (PoolInv \/ Dangling)

LEMMA PoolNextKeeps == PoolHolds /\ [PoolNext]_poolVars => PoolHolds'
<1>0. ASSUME Dangling, calls \in Seq(Frame), [PoolNext]_poolVars PROVE PoolHolds'
  BY <1>0 DEF PoolNext, poolVars, PoolHolds, Dangling
<1> SUFFICES ASSUME PoolInv, [PoolNext]_poolVars PROVE PoolHolds'
  BY <1>0 DEF PoolHolds
<1>1. CASE Served
  BY <1>1, ServedKeeps DEF PoolHolds, PoolInv, CallsInv
<1>2. CASE BadAlloc
  BY <1>2, BadAllocKeeps DEF PoolHolds, PoolInv, CallsInv
<1>3. CASE trigger
  BY <1>3, triggerKeeps DEF PoolHolds
<1>4. CASE CallbackReturns \/ CallbackThrows
  BY <1>4, CallbackKeeps DEF PoolHolds, PoolInv, CallsInv
<1>5. CASE reset
  BY <1>5, resetKeeps DEF PoolHolds, PoolInv, CallsInv
<1>6. ASSUME NEW n \in Sizes, Allocate(n) \/ Free(n)
      PROVE  PoolHolds'
  BY <1>6, AllocateKeeps DEF PoolHolds, PoolInv, CallsInv
<1>7. ASSUME NEW p \in Pools, NEW n \in Sizes, NEW last \in BOOLEAN, add(p, n, last)
      PROVE  PoolHolds'
  BY <1>7, AddKeeps DEF PoolHolds, PoolInv, CallsInv
<1>8. CASE UNCHANGED poolVars
  <2>1. UNCHANGED <<s_pools, pools, handler, calls, free, held>>
    BY <1>8 DEF poolVars
  <2>2. Alive' = Alive /\ \A p \in Alive : Below(p)' = Below(p)
    BY <2>1 DEF Alive, Below, Life
  <2>3. ChainInv'
    BY <2>1, ChainKept DEF PoolInv, ChainInv, Life
  <2>4. CallsInv'
    BY <2>1, <2>2 DEF PoolInv, CallsInv, Waits, Inner, Fits, Life
  <2> QED
    BY <2>3, <2>4 DEF PoolInv, PoolHolds, CallsInv
<1> QED
  BY <1>1, <1>2, <1>3, <1>4, <1>5, <1>6, <1>7, <1>8 DEF PoolNext, Allocation

LEMMA NextIsPool == [Next]_vars => [PoolNext]_poolVars
BY DEF Next, vars, Signalling, Pooling, Naming, Addressing

\* An allocation fails when the chain is empty, or the last pool's callback was told so.
LEMMA FailsWithout ==
    ASSUME PoolHolds, [PoolNext]_poolVars, Fails
    PROVE  s_pools = 0
<1>0. CASE Dangling
  <2>1. calls' = calls /\ Len(calls) \in Nat
    BY <1>0, LenProperties DEF PoolNext, poolVars, PoolHolds
  <2>2. calls # <<>> => Len(Front(calls)) = Len(calls) - 1
    BY FrontProperties DEF PoolHolds
  <2>3. ~BadAlloc
    BY <2>1, <2>2 DEF BadAlloc, Waits
  <2>4. ~(Len(calls') < Len(calls) - 1)
    BY <2>1
  <2> QED
    BY <2>3, <2>4 DEF Fails
<1> SUFFICES ASSUME PoolInv PROVE s_pools = 0
  BY <1>0 DEF PoolHolds
<1>1. CASE BadAlloc
  BY <1>1, BadAllocKeeps
<1>2. CASE CallbackReturns /\ Len(calls') < Len(calls) - 1
  <2>1. InCallback /\ calls # <<>>
    BY <1>2 DEF CallbackReturns, InCallback
  <2>2. Len(calls) \in Nat /\ Len(Front(calls)) = Len(calls) - 1
    BY <2>1, InnerProperties, PoppedFrames DEF PoolInv
  <2>3. calls' # Front(calls)
    BY <1>2, <2>2
  <2> QED
    BY <1>2, <2>3 DEF CallbackReturns, GivesUp
<1> QED
  BY <1>1, <1>2 DEF Fails

LEMMA ServicesInvariant == Spec => [](PoolHolds /\ UUIDInv)
<1>1. Init => PoolHolds /\ UUIDInv
  BY PoolInitKeeps, UUIDInitKeeps DEF Init, PoolHolds, PoolInv, CallsInv
<1>2. PoolHolds /\ UUIDInv /\ [Next]_vars => PoolHolds' /\ UUIDInv'
  BY PoolNextKeeps, NextIsPool, UUIDNextKeeps, NextIsUUID
<1> QED
  BY <1>1, <1>2, PTL DEF Spec

(* The reserves form a chain of just the pools that are alive, with one    *)
(* new handler for all of them, however allocations, callbacks, new pools  *)
(* and resets are nested and whether or not there is memory for a new pool *)
(* - until a pool is given up for the constructor of the next one, which   *)
(* has read s_pools by then (LowMemoryPool.cpp:15).                        *)
THEOREM PoolsCorrect == Spec => []PoolsUnwind
<1>1. PoolHolds => PoolsUnwind
  <2> SUFFICES ASSUME PoolInv PROVE PoolsUnwind
    BY DEF PoolHolds, PoolsUnwind
  <2>1. Chained = Alive
    BY ChainedIsAlive DEF PoolInv
  <2> QED
    BY <2>1 DEF PoolInv, ChainInv, PoolsUnwind, ChainWhole, HandlersUnwind, Alive, Life
<1> QED
  BY <1>1, ServicesInvariant, PTL

(* For any resolution of the clock: no identifier is given twice but from  *)
(* different readings that are closer than the adjustments reach; and no   *)
(* allocation, also one for a new pool, fails before the last reserve is   *)
(* given up (UUID.cpp, LowMemoryPool.cpp).                                 *)
THEOREM GivenCorrect == Spec => GivenAsPromised
<1>1. PoolHolds /\ UUIDInv /\ [Next]_vars => (Fails => s_pools = 0)
  BY FailsWithout, NextIsPool
<1>2. PoolHolds /\ UUIDInv =>
          (generateTime =>
              /\ given' # given
              /\ \A old \in given, new \in given' \ given :
                    old.stamp = new.stamp /\ old.seq = new.seq =>
                        /\ old.time < new.time
                        /\ (new.time - old.time) * Step < (MAX_ADJUSTMENT + 1) * Unit)
  BY GivenDiffer
<1>3. Spec => FailsOnlyWithoutPools
  BY <1>1, ServicesInvariant, PTL DEF FailsOnlyWithoutPools, Spec
<1>4. Spec => IdentifiersDiffer
  BY <1>2, ServicesInvariant, PTL DEF IdentifiersDiffer
<1> QED
  BY <1>3, <1>4 DEF GivenAsPromised

-----------------------------------------------------------------------------
(* Handlers of signals.                                                    *)

Pcs == {"enter", "count", "decide", "hook", "quit", "leave", "return"}
HandlerFrame == [sig : Signals, mask : SUBSET Signals, h : {"quit", "fatal"}, pc : Pcs]

SignalTypes ==
    /\ disposition \in [Signals -> {"default", "quit", "fatal"}]
    /\ blocked \in SUBSET Signals /\ pending \in SUBSET Signals
    /\ frames \in Seq(HandlerFrame)
    /\ s_crashed \in BOOLEAN /\ leaving \in BOOLEAN
    /\ s_fatalOptions \in Options
    /\ disposition[INT] = "fatal" => s_fatalOptions.ON_INT

IsCounted(f) == f.h = "fatal" /\ f.pc \in {"decide", "hook", "quit", "leave"}
Counted == {i \in DOMAIN frames : frames[i].h = "fatal" /\ frames[i].pc \in {"decide", "hook", "quit", "leave"}}

\* What is blocked while handler i is the innermost one.
MaskOf(i) == IF i = Len(frames) THEN blocked ELSE frames[i + 1].mask

\* A fatal handler that has unblocked its signal is through with it when it comes
\* to quit, and main () is returned to only from the outermost one that counts.
FrameOK(i) ==
    /\ frames[i].h = "quit" => frames[i].pc \in {"quit", "leave"}
    /\ frames[i].h = "fatal" =>
           /\ frames[i].pc # "leave"
           /\ frames[i].sig = INT => s_fatalOptions.ON_INT
           /\ frames[i].pc \in {"decide", "hook", "quit", "return"} => s_crashed
           /\ frames[i].pc # "enter" => frames[i].sig \notin MaskOf(i)
    /\ frames[i].pc = "return" => \A j \in 1..i - 1 : ~IsCounted(frames[j])

SignalInv ==
    /\ SignalTypes
    /\ ended = "no" =>
           /\ IF frames = <<>> THEN blocked = {} ELSE frames[1].mask = {}
           /\ \A i \in 1..Len(frames) : FrameOK(i)
           /\ s_inFatal = Cardinality(Counted)
           /\ leaving => \E sig \in pending : disposition[sig] = "default"

LEMMA CountedFinite ==
    ASSUME frames \in Seq(HandlerFrame)
    PROVE  /\ IsFiniteSet(Counted) /\ Cardinality(Counted) \in Nat
           /\ Counted = {i \in 1..Len(frames) : IsCounted(frames[i])}
<1>1. DOMAIN frames = 1..Len(frames) /\ Len(frames) \in Nat
  BY LenProperties
<1>2. IsFiniteSet(1..Len(frames))
  BY <1>1, FS_Interval
<1>3. Counted \subseteq 1..Len(frames)
  BY <1>1 DEF Counted
<1> QED
  BY <1>1, <1>2, <1>3, FS_Subset, FS_CardinalityType DEF Counted, IsCounted

LEMMA SignalInitKeeps == SignalInit => SignalInv
<1> SUFFICES ASSUME SignalInit PROVE SignalInv
  OBVIOUS
<1>1. frames = <<>> /\ frames \in Seq(HandlerFrame) /\ Len(frames) = 0
  BY EmptySeq DEF SignalInit
<1>2. Counted = {}
  BY <1>1, CountedFinite
<1>3. Cardinality(Counted) = 0
  BY <1>2, FS_EmptySet
<1>4. SignalTypes
  <2>1. INT \in Signals
    BY DEF Signals
  <2>2. disposition \in [Signals -> {"default", "quit", "fatal"}] /\ disposition[INT] = "default"
    BY <2>1 DEF SignalInit
  <2>3. s_fatalOptions \in Options
    BY DEF SignalInit, Options
  <2> QED
    BY <1>1, <2>2, <2>3 DEF SignalInit, SignalTypes
<1>5. \A i \in 1..Len(frames) : FrameOK(i)
  BY <1>1
<1>6. blocked = {} /\ s_inFatal = 0 /\ ~leaving
  BY DEF SignalInit
<1> QED
  BY <1>1, <1>3, <1>4, <1>5, <1>6 DEF SignalInv

\* The innermost handler and what it goes on to.
LEMMA TopProperties ==
    ASSUME SignalTypes, frames # <<>>
    PROVE  /\ Len(frames) \in Nat \ {0} /\ Top = frames[Len(frames)] /\ Top \in HandlerFrame
           /\ \A i \in 1..Len(frames) : frames[i] \in HandlerFrame
BY EmptySeq, ElementOfSeq DEF SignalTypes, Top

LEMMA GotoProperties ==
    ASSUME SignalTypes, frames # <<>>, NEW pc \in Pcs, Goto(pc)
    PROVE  /\ frames' \in Seq(HandlerFrame) /\ Len(frames') = Len(frames) /\ frames' # <<>>
           /\ frames'[Len(frames)] = [Top EXCEPT !.pc = pc]
           /\ \A i \in 1..Len(frames) - 1 : frames'[i] = frames[i]
<1> DEFINE new == [Top EXCEPT !.pc = pc]
           n == Len(frames)
<1>1. n \in 1..n /\ n \in Nat /\ new \in HandlerFrame
  BY TopProperties DEF HandlerFrame
<1>2. frames' = [frames EXCEPT ![n] = new]
  BY DEF Goto, Top
<1>3. /\ frames' \in Seq(HandlerFrame) /\ Len(frames') = n
      /\ \A j \in 1..n : frames'[j] = IF j = n THEN new ELSE frames[j]
  <2> HIDE DEF new
  <2> QED
    BY <1>1, <1>2, ExceptSeq DEF SignalTypes
<1>4. frames' # <<>>
  BY <1>1, <1>3, EmptySeq
<1> QED
  BY <1>1, <1>3, <1>4

\* The handlers below one that goes on stay as they are, and it is counted where
\* its new place says so.
LEMMA GotoKeeps ==
    ASSUME SignalInv, ended = "no", frames # <<>>, NEW pc \in Pcs, Goto(pc),
           blocked' = blocked \/ pc = "count", s_fatalOptions' = s_fatalOptions, s_crashed => s_crashed'
    PROVE  /\ frames' # <<>> /\ frames'[1].mask = {}
           /\ \A i \in 1..Len(frames) - 1 : FrameOK(i)'
           /\ IF Top.h = "fatal" /\ pc \in {"decide", "hook", "quit", "leave"}
              THEN Counted' = Counted \cup {Len(frames)} ELSE Counted' = Counted \ {Len(frames)}
<1> DEFINE new == [Top EXCEPT !.pc = pc]
<1>1. SignalTypes /\ frames[1].mask = {} /\ \A i \in 1..Len(frames) : FrameOK(i)
  BY DEF SignalInv
<1>2. PICK n \in Nat \ {0} : n = Len(frames)
  BY <1>1, TopProperties
<1>3. /\ Top = frames[n] /\ Top \in HandlerFrame
      /\ \A i \in 1..n : frames[i] \in HandlerFrame
  BY <1>1, <1>2, TopProperties
<1>4. /\ frames' \in Seq(HandlerFrame) /\ Len(frames') = n /\ frames' # <<>>
      /\ frames'[n] = new
      /\ \A i \in 1..n - 1 : frames'[i] = frames[i]
  BY <1>1, <1>2, GotoProperties
<1>5. new.mask = Top.mask /\ new.h = Top.h /\ new.pc = pc /\ new.sig = Top.sig
  BY <1>3 DEF HandlerFrame
<1>6. \A i \in 1..n : frames'[i].mask = frames[i].mask /\ frames'[i].h = frames[i].h /\ frames'[i].sig = frames[i].sig
  <2> SUFFICES ASSUME NEW i \in 1..n
               PROVE  frames'[i].mask = frames[i].mask /\ frames'[i].h = frames[i].h /\ frames'[i].sig = frames[i].sig
    OBVIOUS
  <2> HIDE DEF new
  <2>1. CASE i = n
    BY <2>1, <1>3, <1>4, <1>5
  <2>2. CASE i # n
    <3>1. i \in 1..n - 1
      BY <2>2
    <3> QED
      BY <3>1, <1>4
  <2> QED
    BY <2>1, <2>2
<1>7. ASSUME NEW i \in 1..n - 1
      PROVE  FrameOK(i)'
  <2>1. MaskOf(i)' = MaskOf(i)
    <3>1. i # n /\ i + 1 \in 1..n
      OBVIOUS
    <3>2. MaskOf(i) = frames[i + 1].mask
      BY <3>1, <1>2 DEF MaskOf
    <3>3. MaskOf(i)' = frames'[i + 1].mask
      BY <3>1, <1>4 DEF MaskOf
    <3> QED
      BY <3>1, <3>2, <3>3, <1>6
  <2>2. frames'[i] = frames[i] /\ \A j \in 1..i - 1 : frames'[j] = frames[j]
    <3>1. \A j \in 1..i - 1 : j \in 1..n - 1
      OBVIOUS
    <3> QED
      BY <3>1, <1>4
  <2>3. FrameOK(i)
    BY <1>1, <1>2
  <2>4. ASSUME frames[i].pc = "return"
        PROVE  \A j \in 1..i - 1 : ~IsCounted(frames'[j])
    BY <2>2, <2>3, <2>4 DEF FrameOK
  <2> QED
    BY <2>1, <2>2, <2>3, <2>4 DEF FrameOK
<1>8. /\ Counted = {i \in 1..n : IsCounted(frames[i])}
      /\ Counted' = {i \in 1..n : IsCounted(frames'[i])}
  <2>1. DOMAIN frames = 1..n
    BY <1>1, <1>2, LenProperties DEF SignalTypes
  <2>2. DOMAIN frames' = 1..n
    BY <1>4, LenProperties
  <2> QED
    BY <2>1, <2>2 DEF Counted, IsCounted
<1>9. IsCounted(frames'[n]) <=> Top.h = "fatal" /\ pc \in {"decide", "hook", "quit", "leave"}
  <2> HIDE DEF new
  <2> QED
    BY <1>4, <1>5 DEF IsCounted
<1>10. \A i \in 1..n : i # n => (IsCounted(frames'[i]) <=> IsCounted(frames[i]))
  <2> SUFFICES ASSUME NEW i \in 1..n, i # n PROVE frames'[i] = frames[i]
    OBVIOUS
  <2>1. i \in 1..n - 1
    OBVIOUS
  <2> QED
    BY <2>1, <1>4
<1>11. n \in 1..n
  OBVIOUS
<1>12. IF Top.h = "fatal" /\ pc \in {"decide", "hook", "quit", "leave"}
       THEN Counted' = Counted \cup {n} ELSE Counted' = Counted \ {n}
  BY <1>8, <1>9, <1>10, <1>11
<1>13. frames'[1].mask = {}
  <2>1. 1 \in 1..n
    OBVIOUS
  <2> QED
    BY <2>1, <1>1, <1>6
<1> QED
  BY <1>2, <1>4, <1>7, <1>12, <1>13

\* To add a handler to those that count, to take one out.
LEMMA CountedChanges ==
    ASSUME SignalTypes, NEW n
    PROVE  /\ n \notin Counted => Cardinality(Counted \cup {n}) = Cardinality(Counted) + 1
           /\ n \in Counted => /\ Counted \cup {n} = Counted
                               /\ Cardinality(Counted \ {n}) = Cardinality(Counted) - 1
                               /\ Cardinality(Counted) <= 1 => Counted = {n}
           /\ n \notin Counted => Counted \ {n} = Counted
<1>1. IsFiniteSet(Counted) /\ Cardinality(Counted) \in Nat
  BY CountedFinite DEF SignalTypes
<1>2. n \notin Counted => Cardinality(Counted \cup {n}) = Cardinality(Counted) + 1
  BY <1>1, FS_AddElement
<1>3. ASSUME n \in Counted
      PROVE  /\ Cardinality(Counted \ {n}) = Cardinality(Counted) - 1
             /\ Cardinality(Counted) <= 1 => Counted = {n}
  <2>1. Cardinality(Counted \ {n}) = Cardinality(Counted) - 1 /\ IsFiniteSet(Counted \ {n})
    BY <1>1, <1>3, FS_RemoveElement
  <2>2. ASSUME Cardinality(Counted) <= 1
        PROVE  Counted \ {n} = {}
    <3>1. Cardinality(Counted \ {n}) \in Nat
      BY <2>1, FS_CardinalityType
    <3>2. Cardinality(Counted \ {n}) = 0
      BY <1>1, <2>1, <2>2, <3>1
    <3> QED
      BY <2>1, <3>2, FS_EmptySet
  <2> QED
    BY <1>3, <2>1, <2>2
<1> QED
  BY <1>2, <1>3

LEMMA UnblockKeeps == SignalInv /\ Unblock => SignalInv'
<1> SUFFICES ASSUME SignalInv, Unblock PROVE SignalInv'
  OBVIOUS
<1>1. SignalTypes /\ ended = "no" /\ frames # <<>> /\ Top.pc = "enter" /\ Goto("count")
  BY DEF SignalInv, Unblock, At
<1>2. PICK n \in Nat \ {0} : n = Len(frames)
  BY <1>1, TopProperties
<1>3. Top = frames[n] /\ Top \in HandlerFrame
  BY <1>1, <1>2, TopProperties
<1>4. FrameOK(n)
  BY <1>1, <1>2 DEF SignalInv
<1>5. Top.h = "fatal"
  BY <1>1, <1>3, <1>4 DEF FrameOK, HandlerFrame
<1>6. /\ frames' # <<>> /\ frames'[1].mask = {}
      /\ \A i \in 1..Len(frames) - 1 : FrameOK(i)'
      /\ Counted' = Counted \ {Len(frames)}
  BY <1>1, GotoKeeps DEF Unblock, Pcs
<1>7. /\ frames' \in Seq(HandlerFrame) /\ Len(frames') = n
      /\ frames'[n] = [Top EXCEPT !.pc = "count"]
  BY <1>1, <1>2, GotoProperties DEF Pcs
<1>8. frames'[n].pc = "count" /\ frames'[n].sig = Top.sig /\ frames'[n].h = "fatal"
  BY <1>3, <1>5, <1>7 DEF HandlerFrame
<1>9. MaskOf(n)' = blocked \ {Top.sig}
  BY <1>7 DEF MaskOf, Unblock
<1>10. FrameOK(n)'
  BY <1>3, <1>4, <1>5, <1>8, <1>9 DEF FrameOK, Unblock
<1>11. \A i \in 1..Len(frames') : FrameOK(i)'
  <2> SUFFICES ASSUME NEW i \in 1..n PROVE FrameOK(i)'
    BY <1>7
  <2>1. i = n \/ i \in 1..n - 1
    OBVIOUS
  <2> QED
    BY <2>1, <1>2, <1>6, <1>10
<1>12. Counted' = Counted
  <2>1. n \notin Counted
    BY <1>1, <1>3 DEF Counted
  <2> QED
    BY <2>1, <1>2, <1>6
<1>13. SignalTypes'
  <2>1. blocked' \in SUBSET Signals
    BY <1>1 DEF Unblock, SignalTypes
  <2> QED
    BY <2>1, <1>1, <1>7 DEF Unblock, SignalTypes
<1> QED
  BY <1>6, <1>11, <1>12, <1>13 DEF SignalInv, Unblock

LEMMA CountKeeps == SignalInv /\ Count => SignalInv'
<1> SUFFICES ASSUME SignalInv, Count PROVE SignalInv'
  OBVIOUS
<1>1. SignalTypes /\ ended = "no" /\ frames # <<>> /\ Top.pc = "count"
  BY DEF SignalInv, Count, At
<1>2. PICK n \in Nat \ {0} : n = Len(frames)
  BY <1>1, TopProperties
<1>3. Top = frames[n] /\ Top \in HandlerFrame /\ Top.sig \in Signals
  BY <1>1, <1>2, TopProperties DEF HandlerFrame
<1>4. FrameOK(n)
  BY <1>1, <1>2 DEF SignalInv
<1>5. Top.h = "fatal"
  BY <1>1, <1>3, <1>4 DEF FrameOK, HandlerFrame
<1>6. CASE TooDeep(s_inFatal')
  <2>1. disposition' = [disposition EXCEPT ![Top.sig] = "default"] /\ ended' = Top.sig
        /\ UNCHANGED <<s_crashed, frames, blocked, pending, s_fatalOptions, leaving>>
    BY <1>6 DEF Count
  <2>2. ended' # "no"
    BY <2>1, <1>3, SignalAssumption
  <2>3. disposition' \in [Signals -> {"default", "quit", "fatal"}]
        /\ (disposition'[INT] = "fatal" => disposition[INT] = "fatal")
    <3>1. INT \in Signals
      BY DEF Signals
    <3> QED
      BY <2>1, <1>1, <1>3, <3>1 DEF SignalTypes
  <2>4. SignalTypes'
    BY <2>1, <2>3, <1>1 DEF SignalTypes
  <2> QED
    BY <2>2, <2>4 DEF SignalInv
<1>7. CASE ~TooDeep(s_inFatal')
  <2>1. /\ Goto("decide") /\ s_crashed' = (s_crashed \/ IsFatal(Top.sig))
        /\ UNCHANGED <<disposition, ended, blocked, pending, s_fatalOptions, leaving>>
    BY <1>7 DEF Count
  <2>2. s_crashed'
    BY <2>1, <1>3, <1>4, <1>5 DEF IsFatal, FrameOK
  <2>3. /\ frames' # <<>> /\ frames'[1].mask = {}
        /\ \A i \in 1..Len(frames) - 1 : FrameOK(i)'
        /\ Counted' = Counted \cup {Len(frames)}
    BY <1>1, <1>5, <2>1, <2>2, GotoKeeps DEF Pcs
  <2>4. /\ frames' \in Seq(HandlerFrame) /\ Len(frames') = n
        /\ frames'[n] = [Top EXCEPT !.pc = "decide"]
    BY <1>1, <1>2, <2>1, GotoProperties DEF Pcs
  <2>5. frames'[n].pc = "decide" /\ frames'[n].sig = Top.sig /\ frames'[n].h = "fatal"
    BY <1>3, <1>5, <2>4 DEF HandlerFrame
  <2>6. MaskOf(n)' = blocked /\ MaskOf(n) = blocked
    BY <1>2, <2>1, <2>4 DEF MaskOf
  <2>7. FrameOK(n)'
    BY <1>1, <1>3, <1>4, <1>5, <2>1, <2>2, <2>5, <2>6 DEF FrameOK
  <2>8. \A i \in 1..Len(frames') : FrameOK(i)'
    <3> SUFFICES ASSUME NEW i \in 1..n PROVE FrameOK(i)'
      BY <2>4
    <3>1. i = n \/ i \in 1..n - 1
      OBVIOUS
    <3> QED
      BY <3>1, <1>2, <2>3, <2>7
  <2>9. s_inFatal' = Cardinality(Counted')
    <3>1. n \notin Counted
      BY <1>1, <1>3 DEF Counted
    <3>2. s_inFatal' = Cardinality(Counted) + 1
      BY <1>1 DEF SignalInv, Count
    <3>3. Counted' = Counted \cup {n}
      BY <1>2, <2>3
    <3> QED
      BY <1>1, <3>1, <3>2, <3>3, CountedChanges
  <2>10. SignalTypes'
    <3>1. s_crashed' \in BOOLEAN
      BY <2>2
    <3> QED
      BY <1>1, <2>1, <2>4, <3>1 DEF SignalTypes
  <2>11. leaving' => \E sig \in pending' : disposition'[sig] = "default"
    BY <1>1, <2>1 DEF SignalInv
  <2> QED
    BY <2>3, <2>8, <2>9, <2>10, <2>11 DEF SignalInv
<1> QED
  BY <1>6, <1>7

LEMMA DecideKeeps == SignalInv /\ Decide => SignalInv'
<1> SUFFICES ASSUME SignalInv, Decide PROVE SignalInv'
  OBVIOUS
<1>1. SignalTypes /\ ended = "no" /\ frames # <<>> /\ Top.pc = "decide"
      /\ UNCHANGED <<disposition, blocked, pending, s_crashed, s_fatalOptions, ended, leaving>>
  BY DEF SignalInv, Decide, At
<1>2. PICK n \in Nat \ {0} : n = Len(frames)
  BY <1>1, TopProperties
<1>3. Top = frames[n] /\ Top \in HandlerFrame
  BY <1>1, <1>2, TopProperties
<1>4. FrameOK(n)
  BY <1>1, <1>2 DEF SignalInv
<1>5. Top.h = "fatal"
  BY <1>1, <1>3, <1>4 DEF FrameOK, HandlerFrame
<1>6. n \in Counted
  <2>1. n \in DOMAIN frames
    BY <1>1, <1>2, LenProperties DEF SignalTypes
  <2> QED
    BY <2>1, <1>1, <1>3, <1>5 DEF Counted
<1>7. s_inFatal = Cardinality(Counted) /\ Cardinality(Counted) \in Nat
  BY <1>1, CountedFinite DEF SignalInv, SignalTypes
<1>8. PICK pc \in {"hook", "return"} :
          /\ Goto(pc)
          /\ pc = "hook" => s_inFatal' = s_inFatal
          /\ pc = "return" => s_inFatal <= 1 /\ s_inFatal' = s_inFatal - 1
  BY <1>7 DEF Decide
<1>9. pc \in Pcs
  BY DEF Pcs
<1>10. /\ frames' # <<>> /\ frames'[1].mask = {}
       /\ \A i \in 1..Len(frames) - 1 : FrameOK(i)'
       /\ IF pc = "hook" THEN Counted' = Counted \cup {n} ELSE Counted' = Counted \ {n}
  BY <1>1, <1>2, <1>5, <1>8, <1>9, GotoKeeps
<1>11. /\ frames' \in Seq(HandlerFrame) /\ Len(frames') = n
       /\ frames'[n] = [Top EXCEPT !.pc = pc]
       /\ \A i \in 1..n - 1 : frames'[i] = frames[i]
  BY <1>1, <1>2, <1>8, <1>9, GotoProperties
<1>12. frames'[n].pc = pc /\ frames'[n].sig = Top.sig /\ frames'[n].h = "fatal"
  BY <1>3, <1>5, <1>9, <1>11 DEF HandlerFrame
<1>13. MaskOf(n)' = blocked /\ MaskOf(n) = blocked
  BY <1>1, <1>2, <1>11 DEF MaskOf
<1>14. pc = "return" => \A j \in 1..n - 1 : ~IsCounted(frames'[j])
  <2> SUFFICES ASSUME pc = "return", NEW j \in 1..n - 1 PROVE ~IsCounted(frames'[j])
    OBVIOUS
  <2>1. Counted = {n}
    BY <1>1, <1>6, <1>7, <1>8, CountedChanges
  <2>2. j # n /\ j \in 1..n
    OBVIOUS
  <2>3. j \notin Counted /\ j \in DOMAIN frames
    BY <2>1, <2>2, <1>1, <1>2, LenProperties DEF SignalTypes
  <2> QED
    BY <2>3, <1>11 DEF Counted, IsCounted
<1>15. FrameOK(n)'
  BY <1>1, <1>3, <1>4, <1>5, <1>12, <1>13, <1>14 DEF FrameOK
<1>16. \A i \in 1..Len(frames') : FrameOK(i)'
  <2> SUFFICES ASSUME NEW i \in 1..n PROVE FrameOK(i)'
    BY <1>11
  <2>1. i = n \/ i \in 1..n - 1
    OBVIOUS
  <2> QED
    BY <2>1, <1>2, <1>10, <1>15
<1>17. s_inFatal' = Cardinality(Counted')
  BY <1>1, <1>6, <1>7, <1>8, <1>10, CountedChanges
<1>18. SignalTypes'
  BY <1>1, <1>11 DEF SignalTypes
<1>19. leaving' => \E sig \in pending' : disposition'[sig] = "default"
  BY <1>1 DEF SignalInv
<1> QED
  BY <1>10, <1>16, <1>17, <1>18, <1>19 DEF SignalInv

LEMMA HookKeeps ==
    ASSUME SignalInv, ~HooksRefuse, NEW answer \in BOOLEAN, Hook(answer)
    PROVE  SignalInv'
<1>1. SignalTypes /\ ended = "no" /\ frames # <<>> /\ Top.pc = "hook" /\ Goto("quit")
      /\ UNCHANGED <<disposition, blocked, pending, s_inFatal, s_crashed, s_fatalOptions, ended, leaving>>
  BY DEF SignalInv, Hook, At
<1>2. PICK n \in Nat \ {0} : n = Len(frames)
  BY <1>1, TopProperties
<1>3. Top = frames[n] /\ Top \in HandlerFrame
  BY <1>1, <1>2, TopProperties
<1>4. FrameOK(n)
  BY <1>1, <1>2 DEF SignalInv
<1>5. Top.h = "fatal"
  BY <1>1, <1>3, <1>4 DEF FrameOK, HandlerFrame
<1>6. n \in Counted
  <2>1. n \in DOMAIN frames
    BY <1>1, <1>2, LenProperties DEF SignalTypes
  <2> QED
    BY <2>1, <1>1, <1>3, <1>5 DEF Counted
<1>7. /\ frames' # <<>> /\ frames'[1].mask = {}
      /\ \A i \in 1..Len(frames) - 1 : FrameOK(i)'
      /\ Counted' = Counted \cup {n}
  BY <1>1, <1>2, <1>5, GotoKeeps DEF Pcs
<1>8. /\ frames' \in Seq(HandlerFrame) /\ Len(frames') = n
      /\ frames'[n] = [Top EXCEPT !.pc = "quit"]
  BY <1>1, <1>2, GotoProperties DEF Pcs
<1>9. frames'[n].pc = "quit" /\ frames'[n].sig = Top.sig /\ frames'[n].h = "fatal"
  BY <1>3, <1>5, <1>8 DEF HandlerFrame
<1>10. MaskOf(n)' = blocked /\ MaskOf(n) = blocked
  BY <1>1, <1>2, <1>8 DEF MaskOf
<1>11. FrameOK(n)'
  BY <1>1, <1>3, <1>4, <1>5, <1>9, <1>10 DEF FrameOK
<1>12. \A i \in 1..Len(frames') : FrameOK(i)'
  <2> SUFFICES ASSUME NEW i \in 1..n PROVE FrameOK(i)'
    BY <1>8
  <2>1. i = n \/ i \in 1..n - 1
    OBVIOUS
  <2> QED
    BY <2>1, <1>2, <1>7, <1>11
<1>13. s_inFatal' = Cardinality(Counted')
  <2>1. Counted' = Counted
    BY <1>6, <1>7
  <2> QED
    BY <2>1, <1>1 DEF SignalInv
<1>14. SignalTypes'
  BY <1>1, <1>8 DEF SignalTypes
<1>15. leaving' => \E sig \in pending' : disposition'[sig] = "default"
  BY <1>1 DEF SignalInv
<1> QED
  BY <1>7, <1>12, <1>13, <1>14, <1>15 DEF SignalInv

LEMMA QuitKeeps ==
    ASSUME SignalInv, ~HooksRefuse, NEW answer \in BOOLEAN, Quit(answer)
    PROVE  SignalInv'
<1>1. SignalTypes /\ ended = "no" /\ frames # <<>> /\ Top.pc = "quit"
      /\ UNCHANGED <<blocked, s_inFatal, s_crashed, s_fatalOptions>>
  BY DEF SignalInv, Quit, At
<1>2. PICK n \in Nat \ {0} : n = Len(frames)
  BY <1>1, TopProperties
<1>3. Top = frames[n] /\ Top \in HandlerFrame /\ Top.sig \in Signals /\ Top.h \in {"quit", "fatal"}
  BY <1>1, <1>2, TopProperties DEF HandlerFrame
<1>4. FrameOK(n) /\ MaskOf(n) = blocked
  BY <1>1, <1>2 DEF SignalInv, MaskOf
<1>5. ~answer => UNCHANGED <<disposition, pending, leaving>>
  BY DEF Quit, SignalInv, SignalTypes
<1>6. answer => /\ disposition' \in [Signals -> {"default", "quit", "fatal"}]
                /\ disposition'[Top.sig] = "default"
                /\ disposition'[INT] = "fatal" => disposition[INT] = "fatal"
                /\ leaving'
  <2>1. INT \in Signals
    BY DEF Signals
  <2> QED
    BY <1>1, <1>3, <2>1 DEF Quit, Reverted, SignalTypes
<1>7. leaving' \in BOOLEAN /\ pending' \in SUBSET Signals
      /\ disposition' \in [Signals -> {"default", "quit", "fatal"}]
      /\ (disposition'[INT] = "fatal" => disposition[INT] = "fatal")
  BY <1>1, <1>3, <1>5, <1>6 DEF Quit, SignalTypes
<1>8. CASE answer /\ Top.sig \notin blocked
  <2>1. ended' = Top.sig /\ frames' = frames
    BY <1>6, <1>8 DEF Quit
  <2>2. ended' # "no"
    BY <2>1, <1>3, SignalAssumption
  <2>3. SignalTypes'
    BY <1>1, <1>7, <2>1 DEF SignalTypes
  <2> QED
    BY <2>2, <2>3 DEF SignalInv
<1>9. CASE ~(answer /\ Top.sig \notin blocked)
  <2>1. Goto("leave") /\ ended' = ended
    BY <1>9 DEF Quit
  <2>2. Top.h = "quit"
    <3>1. Top.h # "fatal"
      BY <1>1, <1>3, <1>4, <1>9 DEF FrameOK, Quit
    <3> QED
      BY <3>1, <1>3
  <2>3. /\ frames' # <<>> /\ frames'[1].mask = {}
        /\ \A i \in 1..Len(frames) - 1 : FrameOK(i)'
        /\ Counted' = Counted \ {n}
    BY <1>1, <1>2, <2>1, <2>2, GotoKeeps DEF Pcs
  <2>4. /\ frames' \in Seq(HandlerFrame) /\ Len(frames') = n
        /\ frames'[n] = [Top EXCEPT !.pc = "leave"]
    BY <1>1, <1>2, <2>1, GotoProperties DEF Pcs
  <2>5. frames'[n].pc = "leave" /\ frames'[n].h = "quit"
    BY <1>3, <2>2, <2>4 DEF HandlerFrame
  <2>6. FrameOK(n)'
    BY <2>5 DEF FrameOK
  <2>7. \A i \in 1..Len(frames') : FrameOK(i)'
    <3> SUFFICES ASSUME NEW i \in 1..n PROVE FrameOK(i)'
      BY <2>4
    <3>1. i = n \/ i \in 1..n - 1
      OBVIOUS
    <3> QED
      BY <3>1, <1>2, <2>3, <2>6
  <2>8. s_inFatal' = Cardinality(Counted')
    <3>1. n \notin Counted
      BY <1>3, <2>2 DEF Counted
    <3>2. Counted' = Counted
      BY <2>3, <3>1
    <3> QED
      BY <3>2, <1>1 DEF SignalInv
  <2>9. leaving' => \E sig \in pending' : disposition'[sig] = "default"
    <3>1. CASE answer
      <4>1. pending' = pending \cup {Top.sig}
        BY <3>1, <1>9 DEF Quit
      <4> QED
        BY <3>1, <4>1, <1>6
    <3>2. CASE ~answer
      BY <3>2, <1>1, <1>5 DEF SignalInv
    <3> QED
      BY <3>1, <3>2
  <2>10. SignalTypes'
    BY <1>1, <1>7, <2>4 DEF SignalTypes
  <2> QED
    BY <2>3, <2>7, <2>8, <2>9, <2>10 DEF SignalInv
<1> QED
  BY <1>8, <1>9

LEMMA LeaveKeeps == SignalInv /\ Leave => SignalInv'
<1> SUFFICES ASSUME SignalInv, Leave PROVE SignalInv'
  OBVIOUS
<1>1. SignalTypes /\ ended = "no" /\ frames # <<>> /\ Top.pc = "leave"
      /\ UNCHANGED <<disposition, pending, s_inFatal, s_crashed, s_fatalOptions, ended, leaving>>
      /\ frames' = Front(frames) /\ blocked' = Top.mask
  BY DEF SignalInv, Leave, At
<1>2. PICK n \in Nat \ {0} : n = Len(frames)
  BY <1>1, TopProperties
<1>3. Top = frames[n] /\ Top \in HandlerFrame /\ Top.mask \in SUBSET Signals
      /\ \A i \in 1..n : frames[i] \in HandlerFrame
  BY <1>1, <1>2, TopProperties DEF HandlerFrame
<1>4. FrameOK(n) /\ Top.h # "fatal" /\ \A i \in 1..n : FrameOK(i)
  BY <1>1, <1>2, <1>3 DEF SignalInv, FrameOK
<1>5. frames' \in Seq(HandlerFrame) /\ Len(frames') = n - 1
      /\ \A i \in 1..n - 1 : frames'[i] = frames[i]
  <2>1. frames \in Seq(HandlerFrame) /\ frames # <<>>
    BY <1>1 DEF SignalTypes
  <2> QED
    BY <2>1, <1>1, <1>2, FrontProperties
<1>6. n # 1 => frames' # <<>> /\ frames'[1].mask = {}
  <2> SUFFICES ASSUME n # 1 PROVE frames' # <<>> /\ frames'[1].mask = {}
    OBVIOUS
  <2>1. 1 \in 1..n - 1 /\ n - 1 # 0
    OBVIOUS
  <2>2. frames' # <<>>
    BY <2>1, <1>5, EmptySeq
  <2>3. frames'[1].mask = {}
    BY <2>1, <1>1, <1>5 DEF SignalInv
  <2> QED
    BY <2>2, <2>3
<1>7. ASSUME NEW i \in 1..n - 1
      PROVE  FrameOK(i)'
  <2>1. MaskOf(i)' = MaskOf(i)
    <3>1. MaskOf(i) = frames[i + 1].mask
      <4>1. i # n
        OBVIOUS
      <4> QED
        BY <4>1, <1>2 DEF MaskOf
    <3>2. CASE i = n - 1
      BY <3>1, <3>2, <1>1, <1>3, <1>5 DEF MaskOf
    <3>3. CASE i # n - 1
      <4>1. i + 1 \in 1..n - 1
        BY <3>3
      <4> QED
        BY <3>1, <3>3, <4>1, <1>5 DEF MaskOf
    <3> QED
      BY <3>2, <3>3
  <2>2. FrameOK(i) /\ frames'[i] = frames[i] /\ \A j \in 1..i - 1 : frames'[j] = frames[j]
    <3>1. i \in 1..n /\ \A j \in 1..i - 1 : j \in 1..n - 1
      OBVIOUS
    <3> QED
      BY <3>1, <1>4, <1>5
  <2> QED
    BY <2>1, <2>2, <1>1 DEF FrameOK
<1>8. s_inFatal' = Cardinality(Counted')
  <2>1. Counted = {i \in 1..n : IsCounted(frames[i])}
    BY <1>1, <1>2, CountedFinite DEF SignalTypes
  <2>2. DOMAIN frames' = 1..n - 1
    BY <1>5, LenProperties
  <2>3. Counted' = {i \in 1..n - 1 : IsCounted(frames'[i])}
    BY <2>2 DEF Counted, IsCounted
  <2>4. ~IsCounted(frames[n])
    BY <1>3, <1>4 DEF IsCounted
  <2>5. \A i \in 1..n : i = n \/ i \in 1..n - 1
    OBVIOUS
  <2>6. \A i \in 1..n - 1 : i \in 1..n
    OBVIOUS
  <2>7. Counted' = Counted
    BY <2>1, <2>3, <2>4, <2>5, <2>6, <1>5
  <2> QED
    BY <2>7, <1>1 DEF SignalInv
<1>9. SignalTypes'
  BY <1>1, <1>3, <1>5 DEF SignalTypes
<1>10. IF frames' = <<>> THEN blocked' = {} ELSE frames'[1].mask = {}
  <2>1. CASE n = 1
    <3>1. frames[1].mask = {}
      BY <1>1 DEF SignalInv
    <3>2. frames' = <<>>
      BY <2>1, <1>5, EmptySeq
    <3> QED
      BY <2>1, <3>1, <3>2, <1>1, <1>3
  <2> QED
    BY <2>1, <1>6
<1>11. \A i \in 1..Len(frames') : FrameOK(i)'
  BY <1>5, <1>7
<1>12. leaving' => \E sig \in pending' : disposition'[sig] = "default"
  BY <1>1 DEF SignalInv
<1> QED
  BY <1>8, <1>9, <1>10, <1>11, <1>12 DEF SignalInv

LEMMA ReturnKeeps == SignalInv /\ Return => SignalInv'
<1> SUFFICES ASSUME SignalInv, Return PROVE SignalInv'
  OBVIOUS
<1>1. SignalTypes /\ ended = "no" /\ frames # <<>> /\ Top.pc = "return"
      /\ UNCHANGED <<disposition, pending, s_inFatal, s_crashed, s_fatalOptions, ended, leaving>>
      /\ frames' = <<>> /\ blocked' = {}
  BY DEF SignalInv, Return, At
<1>2. PICK n \in Nat \ {0} : n = Len(frames)
  BY <1>1, TopProperties
<1>3. Top = frames[n] /\ FrameOK(n)
  BY <1>1, <1>2, TopProperties DEF SignalInv
<1>4. Counted = {}
  <2>1. Counted = {i \in 1..n : IsCounted(frames[i])}
    BY <1>1, <1>2, CountedFinite DEF SignalTypes
  <2>2. ~IsCounted(frames[n]) /\ \A i \in 1..n - 1 : ~IsCounted(frames[i])
    BY <1>1, <1>3 DEF IsCounted, FrameOK
  <2>3. \A i \in 1..n : i = n \/ i \in 1..n - 1
    OBVIOUS
  <2> QED
    BY <2>1, <2>2, <2>3
<1>5. frames' \in Seq(HandlerFrame) /\ Len(frames') = 0
  BY <1>1, EmptySeq
<1>6. Counted' = {}
  <2>1. DOMAIN frames' = 1..0
    BY <1>5, LenProperties
  <2> QED
    BY <2>1 DEF Counted
<1>7. s_inFatal' = Cardinality(Counted')
  BY <1>1, <1>4, <1>6 DEF SignalInv
<1>8. SignalTypes'
  BY <1>1, <1>5 DEF SignalTypes
<1>9. \A i \in 1..Len(frames') : FrameOK(i)'
  BY <1>5
<1> QED
  BY <1>1, <1>7, <1>8, <1>9 DEF SignalInv

\* A handler begins.
LEMMA RunKeeps ==
    ASSUME SignalInv, ended = "no", NEW sig \in Signals, disposition[sig] # "default", Run(sig),
           UNCHANGED <<disposition, s_inFatal, s_crashed, s_fatalOptions, leaving>>,
           pending' \in SUBSET Signals, pending \subseteq pending' \cup {sig}
    PROVE  SignalInv'
<1> DEFINE new == [sig |-> sig, mask |-> blocked, h |-> disposition[sig],
                   pc |-> IF disposition[sig] = "fatal" THEN "enter" ELSE "quit"]
<1>1. SignalTypes /\ frames' = Append(frames, new) /\ blocked' = blocked \cup {sig} /\ ended' = ended
  BY DEF SignalInv, Run
<1>2. disposition[sig] \in {"quit", "fatal"} /\ new \in HandlerFrame
  BY <1>1 DEF SignalTypes, HandlerFrame, Pcs
<1>3. new.h \in {"quit", "fatal"} /\ new.mask = blocked
      /\ (new.h = "quit" => new.pc = "quit")
      /\ (new.h = "fatal" => new.pc = "enter" /\ (new.sig = INT => s_fatalOptions.ON_INT))
  BY <1>1, <1>2 DEF SignalTypes
<1> HIDE DEF new
<1>4. PICK n \in Nat : n = Len(frames)
  BY <1>1, LenProperties DEF SignalTypes
<1>5. frames' \in Seq(HandlerFrame) /\ Len(frames') = n + 1 /\ frames'[n + 1] = new
      /\ \A i \in 1..n : frames'[i] = frames[i]
  BY <1>1, <1>2, <1>4, AppendProperties DEF SignalTypes
<1>6. frames' # <<>> /\ frames'[1].mask = {}
  <2>1. frames' # <<>>
    BY <1>5, EmptySeq
  <2>2. CASE n = 0
    <3>1. frames = <<>>
      BY <2>2, <1>1, <1>4, EmptySeq DEF SignalTypes
    <3>2. blocked = {}
      BY <3>1 DEF SignalInv
    <3> QED
      BY <2>1, <2>2, <3>2, <1>3, <1>5
  <2>3. CASE n # 0
    <3>1. 1 \in 1..n /\ frames # <<>>
      BY <2>3, <1>4, EmptySeq
    <3> QED
      BY <2>1, <3>1, <1>5 DEF SignalInv
  <2> QED
    BY <2>2, <2>3
<1>7. ASSUME NEW i \in 1..n
      PROVE  FrameOK(i)'
  <2>1. MaskOf(i)' = MaskOf(i)
    <3>1. CASE i = n
      BY <3>1, <1>3, <1>4, <1>5 DEF MaskOf
    <3>2. CASE i # n
      <4>1. i + 1 \in 1..n /\ i # n + 1
        BY <3>2
      <4> QED
        BY <3>2, <4>1, <1>4, <1>5 DEF MaskOf
    <3> QED
      BY <3>1, <3>2
  <2>2. FrameOK(i) /\ frames'[i] = frames[i] /\ \A j \in 1..i - 1 : frames'[j] = frames[j]
    <3>1. \A j \in 1..i - 1 : j \in 1..n
      OBVIOUS
    <3> QED
      BY <3>1, <1>4, <1>5 DEF SignalInv
  <2> QED
    BY <2>1, <2>2 DEF FrameOK
<1>8. FrameOK(n + 1)'
  BY <1>3, <1>5 DEF FrameOK
<1>9. \A i \in 1..Len(frames') : FrameOK(i)'
  <2> SUFFICES ASSUME NEW i \in 1..n + 1 PROVE FrameOK(i)'
    BY <1>5
  <2>1. i = n + 1 \/ i \in 1..n
    OBVIOUS
  <2> QED
    BY <2>1, <1>7, <1>8
<1>10. s_inFatal' = Cardinality(Counted')
  <2>1. Counted = {i \in 1..n : IsCounted(frames[i])}
    BY <1>1, <1>4, CountedFinite DEF SignalTypes
  <2>2. Counted' = {i \in 1..n + 1 : IsCounted(frames'[i])}
    <3>1. DOMAIN frames' = 1..n + 1
      BY <1>5, LenProperties
    <3> QED
      BY <3>1 DEF Counted, IsCounted
  <2>3. ~IsCounted(frames'[n + 1])
    BY <1>3, <1>5 DEF IsCounted
  <2>4. \A i \in 1..n + 1 : i = n + 1 \/ i \in 1..n
    OBVIOUS
  <2>5. \A i \in 1..n : i \in 1..n + 1
    OBVIOUS
  <2>6. Counted' = Counted
    BY <2>1, <2>2, <2>3, <2>4, <2>5, <1>5
  <2> QED
    BY <2>6 DEF SignalInv
<1>11. SignalTypes'
  BY <1>1, <1>5 DEF SignalTypes
<1>12. leaving' => \E s \in pending' : disposition'[s] = "default"
  BY DEF SignalInv
<1> QED
  BY <1>6, <1>9, <1>10, <1>11, <1>12 DEF SignalInv

LEMMA DeliverKeeps ==
    ASSUME SignalInv, NEW sig \in Signals, Deliver(sig)
    PROVE  SignalInv'
<1>1. SignalTypes /\ ended = "no" /\ sig \in pending /\ pending' = pending \ {sig}
      /\ UNCHANGED <<disposition, s_inFatal, s_crashed, s_fatalOptions, leaving>>
      /\ disposition[sig] \in {"default", "quit", "fatal"}
  BY DEF SignalInv, SignalTypes, Deliver, Deliverable
<1>2. CASE disposition[sig] = "default"
  <2>1. ended' = sig /\ UNCHANGED <<frames, blocked>>
    BY <1>2 DEF Deliver
  <2>2. ended' # "no"
    BY <2>1, SignalAssumption
  <2>3. SignalTypes'
    BY <1>1, <2>1 DEF SignalTypes
  <2> QED
    BY <2>2, <2>3 DEF SignalInv
<1>3. CASE disposition[sig] # "default"
  <2>1. Run(sig)
    BY <1>1, <1>3 DEF Deliver
  <2>2. pending' \in SUBSET Signals /\ pending \subseteq pending' \cup {sig}
    BY <1>1 DEF SignalTypes
  <2> QED
    BY <1>1, <1>3, <2>1, <2>2, RunKeeps
<1> QED
  BY <1>2, <1>3

LEMMA FaultKeeps ==
    ASSUME SignalInv, NEW sig \in Signals, Fault(sig)
    PROVE  SignalInv'
<1>1. SignalTypes /\ ended = "no"
      /\ UNCHANGED <<disposition, pending, s_inFatal, s_crashed, s_fatalOptions, leaving>>
  BY DEF SignalInv, Fault, InCode, InMain, At
<1>2. CASE sig \in blocked \/ disposition[sig] = "default"
  <2>1. ended' = sig /\ UNCHANGED <<frames, blocked>>
    BY <1>2 DEF Fault
  <2>2. ended' # "no"
    BY <2>1, SignalAssumption
  <2>3. SignalTypes'
    BY <1>1, <2>1 DEF SignalTypes
  <2> QED
    BY <2>2, <2>3 DEF SignalInv
<1>3. CASE ~(sig \in blocked \/ disposition[sig] = "default")
  <2>1. Run(sig) /\ disposition[sig] # "default"
    BY <1>3 DEF Fault
  <2>2. pending' \in SUBSET Signals /\ pending \subseteq pending' \cup {sig}
    BY <1>1 DEF SignalTypes
  <2> QED
    BY <1>1, <2>1, <2>2, RunKeeps
<1> QED
  BY <1>2, <1>3

\* What leaves the handlers that run alone keeps what is said of them.
LEMMA FramesKept ==
    ASSUME SignalInv, UNCHANGED <<frames, blocked, s_inFatal, s_crashed, ended>>,
           s_fatalOptions.ON_INT => s_fatalOptions'.ON_INT
    PROVE  ended' = "no" =>
               /\ IF frames' = <<>> THEN blocked' = {} ELSE frames'[1].mask = {}
               /\ \A i \in 1..Len(frames') : FrameOK(i)'
               /\ s_inFatal' = Cardinality(Counted')
<1> SUFFICES ASSUME ended = "no"
             PROVE  /\ IF frames' = <<>> THEN blocked' = {} ELSE frames'[1].mask = {}
                    /\ \A i \in 1..Len(frames') : FrameOK(i)'
                    /\ s_inFatal' = Cardinality(Counted')
  OBVIOUS
<1>1. Counted' = Counted
  BY DEF Counted
<1>2. ASSUME NEW i \in 1..Len(frames)
      PROVE  FrameOK(i)'
  <2>1. FrameOK(i) /\ MaskOf(i)' = MaskOf(i)
    BY DEF SignalInv, MaskOf
  <2> QED
    BY <2>1 DEF FrameOK
<1> QED
  BY <1>1, <1>2 DEF SignalInv

LEMMA handleQuitKeeps == SignalInv /\ handleQuit => SignalInv'
<1> SUFFICES ASSUME SignalInv, handleQuit PROVE SignalInv'
  OBVIOUS
<1>1. SignalTypes /\ ended = "no" /\ frames = <<>> /\ Deliverable = {}
      /\ disposition' = [sig \in Signals |-> IF sig \in Quits THEN "quit" ELSE disposition[sig]]
      /\ UNCHANGED <<blocked, pending, frames, s_inFatal, s_crashed, s_fatalOptions, ended, leaving>>
  BY DEF SignalInv, handleQuit, InMain
<1>2. ~leaving
  BY <1>1 DEF SignalInv, Deliverable
<1>3. INT \in Signals /\ INT \notin Quits
  BY SignalAssumption DEF Signals
<1>4. disposition' \in [Signals -> {"default", "quit", "fatal"}] /\ disposition'[INT] = disposition[INT]
  BY <1>1, <1>3 DEF SignalTypes
<1>5. SignalTypes'
  BY <1>1, <1>4 DEF SignalTypes
<1> QED
  BY <1>1, <1>2, <1>5, FramesKept DEF SignalInv

LEMMA handleFatalKeeps == SignalInv /\ handleFatal => SignalInv'
<1> SUFFICES ASSUME SignalInv, handleFatal PROVE SignalInv'
  OBVIOUS
<1>1. SignalTypes /\ ended = "no" /\ frames = <<>> /\ Deliverable = {}
      /\ s_fatalOptions' \in Options /\ (s_fatalOptions.ON_INT => s_fatalOptions'.ON_INT)
      /\ UNCHANGED <<blocked, pending, frames, s_inFatal, s_crashed, ended, leaving>>
  BY DEF SignalInv, handleFatal, InMain
<1>2. ~leaving
  BY <1>1 DEF SignalInv, Deliverable
<1>3. INT \in Signals /\ INT \notin Fatals \cup Quits
  BY SignalAssumption DEF Signals
<1>4. /\ disposition' \in [Signals -> {"default", "quit", "fatal"}]
      /\ disposition'[INT] = "fatal" => s_fatalOptions'.ON_INT
  BY <1>1, <1>3 DEF SignalTypes, handleFatal
<1>5. SignalTypes'
  BY <1>1, <1>4 DEF SignalTypes
<1> QED
  BY <1>1, <1>2, <1>5, FramesKept DEF SignalInv

LEMMA SendKeeps ==
    ASSUME SignalInv, NEW sig \in Signals, Send(sig)
    PROVE  SignalInv'
<1>1. SignalTypes /\ pending' = pending \cup {sig}
      /\ UNCHANGED <<disposition, blocked, frames, s_inFatal, s_crashed, s_fatalOptions, ended, leaving>>
  BY DEF SignalInv, Send
<1>2. SignalTypes'
  BY <1>1 DEF SignalTypes
<1>3. ended' = "no" /\ leaving' => \E s \in pending' : disposition'[s] = "default"
  BY <1>1 DEF SignalInv
<1> QED
  BY <1>1, <1>2, <1>3, FramesKept DEF SignalInv

LEMMA SignalNextKeeps == ~HooksRefuse /\ SignalInv /\ [SignalNext]_signalVars => SignalInv'
<1> SUFFICES ASSUME ~HooksRefuse, SignalInv, [SignalNext]_signalVars PROVE SignalInv'
  OBVIOUS
<1>1. CASE UNCHANGED signalVars
  <2>1. UNCHANGED <<disposition, blocked, pending, frames, s_inFatal, s_crashed, s_fatalOptions, ended, leaving>>
    BY <1>1 DEF signalVars
  <2>2. SignalTypes'
    BY <2>1 DEF SignalInv, SignalTypes
  <2> QED
    BY <2>1, <2>2, FramesKept DEF SignalInv
<1>2. CASE Handler
  BY <1>2, UnblockKeeps, CountKeeps, DecideKeeps, ReturnKeeps, LeaveKeeps, HookKeeps, QuitKeeps DEF Handler
<1> QED
  BY <1>1, <1>2, handleQuitKeeps, handleFatalKeeps, SendKeeps, DeliverKeeps, FaultKeeps DEF SignalNext

LEMMA NextIsSignal == [Next]_vars => [SignalNext]_signalVars
BY DEF Next, vars, Signalling, Pooling, Naming, Addressing

(* fatalLevel () is the number of fatal handlers that run, and a program   *)
(* that quit () has let go has its end on the way when the handlers are    *)
(* through, however deep they were nested - if no hook declines to end a   *)
(* crashed program (Signal.cpp fatal, quit).                               *)
THEOREM HandlersCorrect == ASSUME ~HooksRefuse PROVE Spec => []HandlersNest
<1>1. Init => SignalInv
  BY SignalInitKeeps DEF Init
<1>2. SignalInv /\ [Next]_vars => SignalInv'
  BY SignalNextKeeps, NextIsSignal
<1>3. SignalInv => HandlersNest
  BY DEF SignalInv, HandlersNest, LevelIsDepth, OnceQuitAlwaysQuit, Counted, Deliverable
<1> QED
  BY <1>1, <1>2, <1>3, PTL DEF Spec
=============================================================================
