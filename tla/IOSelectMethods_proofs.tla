----------------------- MODULE IOSelectMethods_proofs -----------------------
(***************************************************************************)
(* What Methods_rules checks on small instances, for any descriptors and   *)
(* kinds: that the tables of the methods follow the masks of the client.   *)
(*                                                                         *)
(* The methods have nothing to do with each other: PollInv is the          *)
(* inductive invariant of the first, KqueueInv of the second, SigInv of    *)
(* the third.                                                              *)
(***************************************************************************)
EXTENDS MCIOSelectMethods, TLAPS, NaturalsInduction, SequenceTheorems, FiniteSetTheorems

PollMap == INSTANCE IOSelectFdMap_proofs WITH
    Fds <- PollFds, Channels <- PollFds, Kinds <- PollKinds

KqueueMap == INSTANCE IOSelectFdMap_proofs WITH
    Fds <- KqueueFds, Channels <- KqueueFds, Kinds <- KqueueKinds

-----------------------------------------------------------------------------
(* Least and largest numbers.  Where a fact holds for every number up to a *)
(* bound, there would else be a least one for which it does not.           *)

LEMMA Lowest ==
    ASSUME NEW S \in SUBSET Nat, S # {}
    PROVE  \E x \in S : \A y \in S : x <= y
<1>1. PICK x \in S : \A y \in S : ~(<<y, x>> \in OpToRel(<, Nat))
  BY NatLessThanWellFounded, WFMin
<1>2. \A y \in S : ~(y < x)
  BY <1>1 DEF OpToRel
<1> QED
  BY <1>2

LEMMA Highest ==
    ASSUME NEW n \in Nat, NEW S \in SUBSET (0..n), S # {}
    PROVE  \E x \in S : \A y \in S : y <= x
<1> DEFINE above == {m \in 0..n : \A y \in S : y <= m}
<1>1. above \in SUBSET Nat /\ n \in above
  OBVIOUS
<1>2. PICK m \in above : \A k \in above : m <= k
  BY <1>1, Lowest
<1>3. m \in S
  <2> SUFFICES ASSUME m \notin S PROVE FALSE
    OBVIOUS
  <2>1. \A y \in S : y \in 0..n /\ y <= m /\ y # m
    OBVIOUS
  <2>2. m \in 0..n /\ \A y \in S : y <= m - 1
    BY <2>1
  <2>3. m - 1 \in 0..n
    <3>1. PICK y \in S : TRUE
      OBVIOUS
    <3>2. y \in 0..n /\ y <= m - 1 /\ m \in 0..n
      BY <2>1, <2>2
    <3> QED
      BY <3>2
  <2>4. m - 1 \in above
    BY <2>2, <2>3
  <2> QED
    BY <1>2, <2>2, <2>4
<1> QED
  BY <1>3

-----------------------------------------------------------------------------
(* IOSelectPoll.                                                           *)

\* The lemmas about the table speak of the table that IOSelectPoll inherits.
LEMMA PollMapIsMap ==
    /\ PollFds \subseteq Nat
    /\ Poll!MapTypeOK <=> PollMap!MapTypeOK
    /\ Poll!MapTypeOK' <=> PollMap!MapTypeOK'
    /\ Poll!MapInv <=> PollMap!MapInv
    /\ Poll!MapInv' <=> PollMap!MapInv'
    /\ Poll!MapInit <=> PollMap!MapInit
    /\ Poll!MapClear <=> PollMap!MapClear
    /\ \A fd \in PollFds : Poll!Registered(fd) <=> PollMap!Registered(fd)
    /\ \A fd \in PollFds : Poll!RemoveRequest(fd) => PollMap!RemoveRequest(fd)
    /\ \A fd \in PollFds : Poll!FdMapAsserts(fd) => PollMap!FdMapAsserts(fd)
    /\ \A req \in Poll!Request : req \in PollMap!Request /\ (Poll!AddRequest(req) => PollMap!AddRequest(req))
    /\ \A fd \in PollFds, mask \in SUBSET PollKinds : Poll!AssignMask(fd, mask) => PollMap!AssignMask(fd, mask)
<1>1. Poll!Unused = PollMap!Unused /\ Poll!Request = PollMap!Request
  BY DEF Poll!Unused, PollMap!Unused, Poll!Request, PollMap!Request
<1>2. /\ Poll!MapTypeOK <=> PollMap!MapTypeOK
      /\ Poll!MapTypeOK' <=> PollMap!MapTypeOK'
      /\ Poll!MapInv <=> PollMap!MapInv
      /\ Poll!MapInv' <=> PollMap!MapInv'
  BY <1>1 DEF Poll!MapTypeOK, PollMap!MapTypeOK, Poll!MapInv, PollMap!MapInv
<1>3. /\ Poll!MapInit <=> PollMap!MapInit
      /\ Poll!MapClear <=> PollMap!MapClear
  BY <1>1 DEF Poll!MapInit, PollMap!MapInit, Poll!MapClear, PollMap!MapClear, Poll!EmptyMap, PollMap!EmptyMap,
              Poll!EmptyRequests, PollMap!EmptyRequests
<1>4. /\ \A fd \in PollFds : Poll!Registered(fd) <=> PollMap!Registered(fd)
      /\ \A fd \in PollFds : Poll!FdMapAsserts(fd) => PollMap!FdMapAsserts(fd)
  BY <1>1 DEF Poll!Registered, PollMap!Registered, Poll!FdMapAsserts, PollMap!FdMapAsserts
<1>5. \A fd \in PollFds : Poll!RemoveRequest(fd) => PollMap!RemoveRequest(fd)
  BY <1>1 DEF Poll!RemoveRequest, PollMap!RemoveRequest, Poll!FdClear, PollMap!FdClear, Poll!RemoveAt, PollMap!RemoveAt
<1>6. \A req \in Poll!Request : req \in PollMap!Request /\ (Poll!AddRequest(req) => PollMap!AddRequest(req))
  BY <1>1 DEF Poll!AddRequest, PollMap!AddRequest
<1>7. \A fd \in PollFds, mask \in SUBSET PollKinds : Poll!AssignMask(fd, mask) => PollMap!AssignMask(fd, mask)
  BY DEF Poll!AssignMask, PollMap!AssignMask
<1> QED
  BY <1>2, <1>3, <1>4, <1>5, <1>6, <1>7, MethodsAssumption

PollInv == Poll!TypeOK /\ Poll!MapInv /\ Poll!PollsInv

\* The parts of PollInv that an action may be said to keep.
PollTypes ==
    /\ polls \in Seq(Poll!PollFd)
    /\ current \in 0..SizeMax
    /\ nready \in Nat \cup {-1}
    /\ walk \in {"idle", "next", "handler", "failed"}
    /\ event \in [source : PollFds, events : SUBSET PollKinds] \cup {Poll!NoEvent}

LEMMA PollInvParts ==
    /\ PollInv <=> Poll!MapTypeOK /\ Poll!MapInv /\ PollTypes /\ Poll!PollsInv
    /\ PollInv' <=> Poll!MapTypeOK' /\ Poll!MapInv' /\ PollTypes' /\ Poll!PollsInv'
<1>1. PollInv <=> Poll!MapTypeOK /\ Poll!MapInv /\ PollTypes /\ Poll!PollsInv
  BY DEF PollInv, PollTypes, Poll!TypeOK
<1>2. PollInv' <=> Poll!MapTypeOK' /\ Poll!MapInv' /\ PollTypes' /\ Poll!PollsInv'
  BY DEF PollInv, PollTypes, Poll!TypeOK
<1> QED
  BY <1>1, <1>2

\* No more requests than descriptors, so that positions fit into a size_t.
LEMMA PollsFit ==
    ASSUME PollInv
    PROVE  /\ Len(requests) \in Nat /\ Len(requests) <= SizeMax
           /\ Len(polls) = Len(requests) /\ DOMAIN polls = DOMAIN requests /\ DOMAIN polls = 1..Len(requests)
           /\ \A i \in 1..Len(requests) : requests[i] \in Poll!Request /\ polls[i] \in Poll!PollFd
<1>1. requests \in Seq(Poll!Request) /\ polls \in Seq(Poll!PollFd) /\ Poll!MapInv /\ Len(polls) = Len(requests)
  BY DEF PollInv, Poll!TypeOK, Poll!MapTypeOK, Poll!PollsInv
<1>2. /\ Len(requests) \in Nat /\ DOMAIN requests = 1..Len(requests) /\ DOMAIN polls = 1..Len(polls)
      /\ \A i \in 1..Len(requests) : requests[i] \in Poll!Request
      /\ \A i \in 1..Len(polls) : polls[i] \in Poll!PollFd
  BY <1>1, LenProperties, ElementOfSeq
<1> DEFINE of == [i \in 1..Len(requests) |-> requests[i].fd]
<1>3. \A i \in 1..Len(requests) : requests[i].fd \in PollFds /\ fd2req[requests[i].fd] = i
  BY <1>1, <1>2 DEF Poll!MapInv, Poll!Request
<1>4. of \in Injection(1..Len(requests), PollFds)
  BY <1>3 DEF Injection, IsInjective
<1>5. IsFiniteSet(PollFds) /\ Cardinality(PollFds) <= SizeMax /\ SizeMax \in Nat
  BY MethodsAssumption
<1>6. Cardinality(1..Len(requests)) <= Cardinality(PollFds)
  BY <1>4, <1>5, FS_Injection
<1>7. Cardinality(1..Len(requests)) = Len(requests)
  <2>1. 1 \in Int /\ Len(requests) \in Int
    BY <1>2
  <2>2. Cardinality(1..Len(requests)) = IF 1 > Len(requests) THEN 0 ELSE Len(requests) - 1 + 1
    BY <2>1, FS_Interval
  <2> QED
    BY <1>2, <2>2
<1>8. Cardinality(PollFds) \in Nat
  BY <1>5, FS_CardinalityType
<1> QED
  BY <1>1, <1>2, <1>5, <1>6, <1>7, <1>8

\* A failed ASSERT stops the program as it is.
LEMMA PollAbort == ASSUME PollInv, Poll!Abort PROVE PollInv'
<1>1. walk' = "failed" /\ UNCHANGED <<requests, fd2req, fds, polls, current, nready, event>>
  BY DEF Poll!Abort, Poll!mapVars, Poll!pollVars
<1>2. Poll!MapTypeOK' /\ Poll!MapInv'
  BY <1>1 DEF PollInv, Poll!TypeOK, Poll!MapTypeOK, Poll!MapInv
<1>3. PollTypes' /\ Poll!PollsInv'
  BY <1>1, PollInvParts DEF PollTypes, Poll!PollsInv
<1> QED
  BY <1>2, <1>3, PollInvParts

LEMMA PollAttach ==
    ASSUME PollInv, NEW fd \in PollFds, NEW mask \in SUBSET PollKinds, Poll!Attach(fd, mask)
    PROVE  PollInv'
<1> DEFINE req == [fd |-> fd, channel |-> fd, mask |-> mask]
           p == [fd |-> fd, events |-> mask, revents |-> {}]
<1>1. CASE /\ Poll!FdMapAsserts(fd) /\ polls' = Append(polls, p) /\ Poll!AddRequest(req)
           /\ UNCHANGED <<current, nready, walk, event>>
  <2>1. req \in Poll!Request /\ p \in Poll!PollFd /\ req.fd = fd
    BY DEF Poll!Request, Poll!PollFd
  <2>2. Poll!MapTypeOK' /\ Poll!MapInv'
    BY <1>1, <2>1, PollMapIsMap, PollInvParts, PollMap!AddRequestProperties
  <2>3. requests \in Seq(Poll!Request) /\ polls \in Seq(Poll!PollFd) /\ Len(polls) = Len(requests) /\ Len(requests) \in Nat
    BY PollsFit, PollInvParts DEF Poll!MapTypeOK, PollTypes
  <2>4. requests' = Append(requests, req)
    BY <1>1 DEF Poll!AddRequest
  <2> HIDE DEF req, p
  <2>5. /\ Len(requests') = Len(requests) + 1 /\ Len(polls') = Len(polls) + 1 /\ polls' \in Seq(Poll!PollFd)
        /\ \A i \in 1..Len(requests) : requests'[i] = requests[i] /\ polls'[i] = polls[i]
        /\ requests'[Len(requests) + 1] = req /\ polls'[Len(requests) + 1] = p
    BY <1>1, <2>1, <2>3, <2>4, AppendProperties
  <2>6. DOMAIN polls' = 1..Len(requests) + 1
    BY <2>3, <2>5, LenProperties
  <2>7. req.fd = p.fd /\ req.mask = p.events
    BY DEF req, p
  <2>8. \A i \in DOMAIN polls' : polls'[i].fd = requests'[i].fd /\ polls'[i].events = requests'[i].mask
    <3> SUFFICES ASSUME NEW i \in 1..Len(requests) + 1
                 PROVE  polls'[i].fd = requests'[i].fd /\ polls'[i].events = requests'[i].mask
      BY <2>6
    <3>1. CASE i = Len(requests) + 1
      BY <2>5, <2>7, <3>1
    <3>2. CASE i \in 1..Len(requests)
      BY <2>3, <2>5, <3>2, PollsFit, PollInvParts DEF Poll!PollsInv
    <3> QED
      BY <2>3, <3>1, <3>2
  <2>9. Poll!PollsInv'
    BY <2>3, <2>5, <2>8 DEF Poll!PollsInv
  <2>10. PollTypes'
    BY <1>1, <2>5, PollInvParts DEF PollTypes
  <2> QED
    BY <2>2, <2>9, <2>10, PollInvParts
<1>2. CASE Poll!Abort
  BY <1>2, PollAbort
<1> QED
  BY <1>1, <1>2 DEF Poll!Attach, Poll!AttachAsserts

LEMMA PollDetach ==
    ASSUME PollInv, NEW fd \in PollFds, Poll!Detach(fd)
    PROVE  PollInv'
<1> DEFINE at == fd2req[fd]
<1>1. CASE /\ polls' = Poll!RemoveAt(polls, at) /\ Poll!RemoveRequest(fd)
           /\ current' = IF current >= at - 1 THEN Poll!Decremented(current) ELSE current
           /\ UNCHANGED <<nready, walk, event>>
  <2>0. Poll!Registered(fd)
    BY DEF Poll!Detach
  <2>1. Poll!MapTypeOK' /\ Poll!MapInv'
    BY <1>1, <2>0, PollMapIsMap, PollInvParts, PollMap!RemoveRequestProperties
  <2>2. /\ requests \in Seq(Poll!Request) /\ polls \in Seq(Poll!PollFd) /\ Len(polls) = Len(requests) /\ Len(requests) \in Nat
        /\ at \in DOMAIN requests /\ at \in DOMAIN polls /\ DOMAIN requests = 1..Len(requests)
    BY <2>0, PollsFit, PollInvParts DEF Poll!MapTypeOK, PollTypes, Poll!Registered
  <2>3. requests' = PollMap!RemoveAt(requests, at) /\ polls' = PollMap!RemoveAt(polls, at)
    BY <1>1 DEF Poll!RemoveRequest, Poll!RemoveAt, PollMap!RemoveAt
  <2> HIDE DEF at
  <2>4. /\ Len(requests') = Len(requests) - 1
        /\ \A j \in 1..Len(requests) - 1 : requests'[j] = IF j < at THEN requests[j] ELSE requests[j + 1]
    BY <2>2, <2>3, PollMap!RemoveAtProperties, PollMapIsMap
  <2>5. /\ Len(polls') = Len(polls) - 1 /\ polls' \in Seq(Poll!PollFd) /\ DOMAIN polls' = 1..Len(polls) - 1
        /\ \A j \in 1..Len(polls) - 1 : polls'[j] = IF j < at THEN polls[j] ELSE polls[j + 1]
    BY <2>2, <2>3, PollMap!RemoveAtProperties, PollMapIsMap
  <2>6. \A j \in 1..Len(polls) : polls[j].fd = requests[j].fd /\ polls[j].events = requests[j].mask
    BY <2>2, PollsFit, PollInvParts DEF Poll!PollsInv
  <2>7. Poll!PollsInv'
    <3>1. \A j \in 1..Len(polls) - 1 : polls'[j].fd = requests'[j].fd /\ polls'[j].events = requests'[j].mask
      <4> TAKE j \in 1..Len(polls) - 1
      <4>1. j \in 1..Len(polls) /\ j + 1 \in 1..Len(polls)
        BY <2>2
      <4> QED
        BY <2>2, <2>4, <2>5, <2>6, <4>1
    <3> QED
      BY <2>2, <2>4, <2>5, <3>1 DEF Poll!PollsInv
  <2>8. current' \in 0..SizeMax
    <3>1. SizeMax \in Nat /\ current \in 0..SizeMax
      BY MethodsAssumption, PollInvParts DEF PollTypes
    <3>2. (current + SizeMax) % (SizeMax + 1) \in 0..SizeMax
      BY <3>1
    <3> QED
      BY <1>1, <3>1, <3>2 DEF Poll!Decremented
  <2>9. PollTypes'
    BY <1>1, <2>5, <2>8, PollInvParts DEF PollTypes
  <2> QED
    BY <2>1, <2>7, <2>9, PollInvParts
<1>2. CASE Poll!Abort
  BY <1>2, PollAbort
<1> QED
  BY <1>1, <1>2 DEF Poll!Detach

LEMMA PollClear == ASSUME PollInv, Poll!Clear PROVE PollInv'
<1>1. Poll!MapClear /\ polls' = <<>> /\ current' = 0 /\ nready' = -1 /\ UNCHANGED <<walk, event>>
  BY DEF Poll!Clear
<1>2. Poll!MapTypeOK' /\ Poll!MapInv'
  BY <1>1, PollMapIsMap, PollMap!EmptyMapProperties
<1>3. requests' = <<>>
  BY <1>1 DEF Poll!MapClear, Poll!EmptyRequests
<1>4. SizeMax \in Nat
  BY MethodsAssumption
<1>5. Poll!PollsInv'
  BY <1>1, <1>3 DEF Poll!PollsInv
<1>6. PollTypes'
  BY <1>1, <1>4, PollInvParts DEF PollTypes
<1> QED
  BY <1>2, <1>5, <1>6, PollInvParts

LEMMA PollSetMaskTo ==
    ASSUME PollInv, NEW fd \in PollFds, NEW mask \in SUBSET PollKinds, Poll!SetMaskTo(fd, mask)
    PROVE  PollInv'
<1> DEFINE at == fd2req[fd]
<1>1. CASE /\ Poll!MaskAsserts(fd) /\ Poll!AssignMask(fd, mask) /\ polls' = [polls EXCEPT ![at].events = mask]
           /\ UNCHANGED <<current, nready, walk, event>>
  <2>0. Poll!Registered(fd)
    BY <1>1 DEF Poll!MaskAsserts
  <2>1. Poll!MapTypeOK' /\ Poll!MapInv'
    BY <1>1, <2>0, PollMapIsMap, PollInvParts, PollMap!AssignMaskProperties
  <2>2. /\ requests \in [1..Len(requests) -> Poll!Request] /\ polls \in [1..Len(requests) -> Poll!PollFd]
        /\ Len(polls) = Len(requests) /\ Len(requests) \in Nat /\ at \in 1..Len(requests)
    BY <2>0, PollsFit, PollInvParts, LenProperties DEF Poll!MapTypeOK, PollTypes, Poll!Registered
  <2>3. requests' = [requests EXCEPT ![at] = [requests[at] EXCEPT !.mask = mask]]
    BY <1>1 DEF Poll!AssignMask
  <2>4. polls' = [polls EXCEPT ![at] = [polls[at] EXCEPT !.events = mask]]
    BY <1>1
  <2> HIDE DEF at
  <2>5. PICK r : r = [requests[at] EXCEPT !.mask = mask]
    OBVIOUS
  <2>6. PICK p : p = [polls[at] EXCEPT !.events = mask]
    OBVIOUS
  <2>7. requests[at] \in Poll!Request /\ polls[at] \in Poll!PollFd
    BY <2>2
  <2>8. r.fd = requests[at].fd /\ r.mask = mask /\ p \in Poll!PollFd /\ p.fd = polls[at].fd /\ p.events = mask
    BY <2>5, <2>6, <2>7 DEF Poll!Request, Poll!PollFd
  <2>9. requests' = [requests EXCEPT ![at] = r] /\ polls' = [polls EXCEPT ![at] = p]
    BY <2>3, <2>4, <2>5, <2>6
  <2>10. /\ polls' \in [1..Len(requests) -> Poll!PollFd]
         /\ \A i \in 1..Len(requests) : requests'[i] = (IF i = at THEN r ELSE requests[i])
                                     /\ polls'[i] = (IF i = at THEN p ELSE polls[i])
         /\ DOMAIN requests' = 1..Len(requests)
    BY <2>2, <2>8, <2>9
  <2>11. polls' \in Seq(Poll!PollFd) /\ Len(polls') = Len(requests) /\ Len(requests') = Len(requests)
    <3>1. requests' \in Seq(Poll!Request)
      BY <2>1 DEF Poll!MapTypeOK
    <3>2. polls' \in Seq(Poll!PollFd)
      BY <2>2, <2>10, IsASeq
    <3> QED
      BY <2>2, <2>10, <3>1, <3>2, LenProperties
  <2>12. \A i \in 1..Len(requests) : polls[i].fd = requests[i].fd /\ polls[i].events = requests[i].mask
    BY <2>2, PollInvParts DEF Poll!PollsInv
  <2>13. Poll!PollsInv'
    BY <2>2, <2>8, <2>10, <2>11, <2>12 DEF Poll!PollsInv
  <2>14. PollTypes'
    BY <1>1, <2>11, PollInvParts DEF PollTypes
  <2> QED
    BY <2>1, <2>13, <2>14, PollInvParts
<1>2. CASE Poll!Abort
  BY <1>2, PollAbort
<1> QED
  BY <1>1, <1>2 DEF Poll!SetMaskTo

\* What the system puts into revents leaves the rest of the vector alone.
LEMMA PollWait == ASSUME PollInv, Poll!Wait PROVE PollInv'
<1>0. /\ Len(requests) \in Nat /\ Len(requests) <= SizeMax /\ DOMAIN polls = 1..Len(requests) /\ Len(polls) = Len(requests)
      /\ \A i \in 1..Len(requests) : polls[i] \in Poll!PollFd
  BY PollsFit
<1>1. PICK ready \in [DOMAIN polls -> SUBSET (PollKinds \cup {Poll!Hangup})] :
          /\ polls' = [i \in DOMAIN polls |-> [polls[i] EXCEPT !.revents = ready[i]]]
          /\ nready' = Poll!Cardinality({i \in DOMAIN polls : ready[i] # {}})
  BY DEF Poll!Wait
<1>2. /\ current' = Len(polls) /\ walk' = (IF nready' > 0 THEN "next" ELSE "idle")
      /\ UNCHANGED <<requests, fd2req, fds, event>>
  BY DEF Poll!Wait, Poll!mapVars
<1>3. \A i \in 1..Len(requests) :
          /\ polls'[i] \in Poll!PollFd
          /\ polls'[i].fd = polls[i].fd /\ polls'[i].events = polls[i].events
  <2> TAKE i \in 1..Len(requests)
  <2>1. polls'[i] = [polls[i] EXCEPT !.revents = ready[i]] /\ ready[i] \in SUBSET (PollKinds \cup {Poll!Hangup})
    BY <1>0, <1>1
  <2>2. polls[i] \in Poll!PollFd
    BY <1>0
  <2> QED
    BY <2>1, <2>2 DEF Poll!PollFd
<1>4. polls' \in [1..Len(requests) -> Poll!PollFd]
  BY <1>0, <1>1, <1>3
<1>5. polls' \in Seq(Poll!PollFd) /\ Len(polls') = Len(requests)
  <2>1. polls' \in Seq(Poll!PollFd)
    BY <1>0, <1>4, IsASeq
  <2> QED
    BY <1>0, <1>4, <2>1, LenProperties
<1>6. nready' \in Nat
  <2>1. IsFiniteSet(1..Len(requests))
    BY <1>0, FS_Interval
  <2>2. {i \in DOMAIN polls : ready[i] # {}} \in SUBSET (1..Len(requests))
    BY <1>0
  <2>3. Cardinality({i \in DOMAIN polls : ready[i] # {}}) \in Nat
    BY <2>1, <2>2, FS_Subset, FS_CardinalityType
  <2> QED
    BY <1>1, <2>3 DEF Poll!Cardinality, Cardinality
<1>7. Poll!PollsInv'
  <2>1. Poll!PollsInv
    BY PollInvParts
  <2> QED
    BY <1>0, <1>2, <1>3, <1>4, <1>5, <2>1 DEF Poll!PollsInv
<1>8. PollTypes'
  BY <1>0, <1>2, <1>5, <1>6, PollInvParts, MethodsAssumption DEF PollTypes
<1>9. Poll!MapTypeOK' /\ Poll!MapInv'
  BY <1>2 DEF PollInv, Poll!TypeOK, Poll!MapTypeOK, Poll!MapInv
<1> QED
  BY <1>7, <1>8, <1>9, PollInvParts

\* The loop of next () stays inside the vector.
LEMMA PollStop ==
    ASSUME PollInv
    PROVE  Poll!Stop \in 0..current /\ (Poll!Stop > 0 => Poll!Stop \in DOMAIN polls)
<1> DEFINE below == {i \in Poll!ReadyPositions(polls) : i <= current}
<1>1. current \in Nat /\ DOMAIN polls = 1..Len(requests) /\ Len(requests) \in Nat
  BY PollInvParts, PollsFit, MethodsAssumption DEF PollTypes
<1>2. below \subseteq DOMAIN polls /\ below \cup {0} \in SUBSET (0..current)
  BY <1>1 DEF Poll!ReadyPositions
<1>3. PICK x \in below \cup {0} : \A y \in below \cup {0} : y <= x
  BY <1>1, <1>2, Highest
<1>4. Poll!Stop = CHOOSE n \in below \cup {0} : \A i \in below : i <= n
  BY DEF Poll!Stop
<1> HIDE DEF below
<1>5. Poll!Stop \in below \cup {0}
  BY <1>3, <1>4
<1> QED
  BY <1>1, <1>2, <1>5

LEMMA PollNext == ASSUME PollInv, Poll!NextFound \/ Poll!NextNone \/ Poll!WaitThrows \/ Poll!HandlerReturns PROVE PollInv'
<1>0. current \in 0..SizeMax /\ SizeMax \in Nat /\ Poll!Stop \in 0..current
  BY PollStop, PollInvParts, MethodsAssumption DEF PollTypes
<1> DEFINE kept == UNCHANGED <<requests, fd2req, fds, polls>>
<1>1. ASSUME kept, PollTypes' PROVE PollInv'
  <2>1. Poll!MapTypeOK' /\ Poll!MapInv'
    BY <1>1 DEF PollInv, Poll!TypeOK, Poll!MapTypeOK, Poll!MapInv
  <2>2. Poll!PollsInv'
    BY <1>1, PollInvParts DEF Poll!PollsInv
  <2> QED
    BY <1>1, <2>1, <2>2, PollInvParts
<1>2. CASE /\ Poll!Stop > 0 /\ Poll!NextAsserts /\ kept /\ current' = Poll!Stop /\ walk' = "handler" /\ UNCHANGED nready
           /\ event' = [source |-> polls[Poll!Stop + 1].fd,
                        events |-> requests[Poll!Stop + 1].mask \cap polls[Poll!Stop].revents]
  <2>1. Poll!Stop \in 1..Len(requests) /\ Poll!Stop < Len(requests) /\ Len(requests) \in Nat
    BY <1>2, PollStop, PollsFit DEF Poll!NextAsserts
  <2>2. polls[Poll!Stop + 1] \in Poll!PollFd /\ requests[Poll!Stop + 1] \in Poll!Request
    BY <2>1, PollsFit
  <2>3. event' \in [source : PollFds, events : SUBSET PollKinds]
    BY <1>2, <2>2 DEF Poll!PollFd, Poll!Request
  <2>4. PollTypes'
    BY <1>0, <1>2, <2>3, PollInvParts DEF PollTypes
  <2> QED
    BY <1>1, <1>2, <2>4
<1>3. CASE Poll!Abort
  BY <1>3, PollAbort
<1>4. CASE Poll!NextNone \/ Poll!WaitThrows \/ Poll!HandlerReturns
  <2>1. kept /\ current' \in {current, 0} /\ nready' \in {nready, -1} /\ walk' \in {walk, "idle", "next"} /\ UNCHANGED event
    BY <1>4 DEF Poll!NextNone, Poll!WaitThrows, Poll!HandlerReturns, Poll!mapVars, Poll!pollVars
  <2>2. PollTypes'
    BY <1>0, <2>1, PollInvParts DEF PollTypes
  <2> QED
    BY <1>1, <2>1, <2>2
<1>5. Poll!NextFound => \/ /\ Poll!Stop > 0 /\ Poll!NextAsserts /\ kept /\ current' = Poll!Stop /\ walk' = "handler" /\ UNCHANGED nready
                           /\ event' = [source |-> polls[Poll!Stop + 1].fd,
                                        events |-> requests[Poll!Stop + 1].mask \cap polls[Poll!Stop].revents]
                        \/ Poll!Abort
  BY DEF Poll!NextFound, Poll!mapVars
<1> QED
  BY <1>2, <1>3, <1>4, <1>5

\* The vector of poll () follows the requests through every step.
LEMMA PollKeeps == ASSUME PollInv, Poll!Next PROVE PollInv'
<1>1. ASSUME NEW fd \in PollFds, Poll!Registered(fd) PROVE requests[fd2req[fd]].mask \in SUBSET PollKinds
  <2>1. fd2req[fd] \in 1..Len(requests)
    BY <1>1, PollsFit DEF Poll!Registered
  <2> QED
    BY <2>1, PollsFit DEF Poll!Request
<1>2. CASE Poll!Changes
  <2>1. ASSUME NEW fd \in PollFds, NEW mask \in SUBSET PollKinds,
               Poll!SetMask(fd, mask) \/ Poll!AndMask(fd, mask) \/ Poll!OrMask(fd, mask)
        PROVE  PollInv'
    <3>1. \E new \in SUBSET PollKinds : Poll!SetMaskTo(fd, new)
      BY <1>1, <2>1 DEF Poll!SetMask, Poll!AndMask, Poll!OrMask
    <3> QED
      BY <3>1, PollSetMaskTo
  <2> QED
    BY <1>2, <2>1, PollAttach, PollDetach, PollClear DEF Poll!Changes
<1> QED
  BY <1>2, PollWait, PollNext DEF Poll!Next, Poll!NextCalls

LEMMA PollStarts == Poll!Init => PollInv
<1>1. Poll!Init => Poll!MapTypeOK /\ Poll!MapInv
  BY PollMapIsMap, PollMap!EmptyMapProperties DEF Poll!Init
<1>2. Poll!Init => requests = <<>>
  BY DEF Poll!Init, Poll!MapInit, Poll!EmptyRequests
<1>3. Poll!Init => Poll!PollsInv
  BY <1>2 DEF Poll!Init, Poll!PollsInv
<1>4. Poll!Init => PollTypes
  BY MethodsAssumption DEF Poll!Init, PollTypes
<1> QED
  BY <1>1, <1>3, <1>4, PollInvParts

-----------------------------------------------------------------------------
(* IOSelectKqueue.                                                         *)

\* The lemmas about the table speak of the table that IOSelectKqueue inherits.
LEMMA KqueueMapIsMap ==
    /\ KqueueFds \subseteq Nat
    /\ Kqueue!MapTypeOK <=> KqueueMap!MapTypeOK
    /\ Kqueue!MapTypeOK' <=> KqueueMap!MapTypeOK'
    /\ Kqueue!MapInv <=> KqueueMap!MapInv
    /\ Kqueue!MapInv' <=> KqueueMap!MapInv'
    /\ Kqueue!MapInit <=> KqueueMap!MapInit
    /\ Kqueue!MapClear <=> KqueueMap!MapClear
    /\ \A fd \in KqueueFds : Kqueue!Registered(fd) <=> KqueueMap!Registered(fd)
    /\ \A fd \in KqueueFds : Kqueue!RemoveRequest(fd) => KqueueMap!RemoveRequest(fd)
    /\ \A fd \in KqueueFds : Kqueue!FdMapAsserts(fd) => KqueueMap!FdMapAsserts(fd)
    /\ \A req \in Kqueue!Request : req \in KqueueMap!Request /\ (Kqueue!AddRequest(req) => KqueueMap!AddRequest(req))
    /\ \A fd \in KqueueFds, mask \in SUBSET KqueueKinds : Kqueue!AssignMask(fd, mask) => KqueueMap!AssignMask(fd, mask)
<1>1. Kqueue!Unused = KqueueMap!Unused /\ Kqueue!Request = KqueueMap!Request
  BY DEF Kqueue!Unused, KqueueMap!Unused, Kqueue!Request, KqueueMap!Request
<1>2. /\ Kqueue!MapTypeOK <=> KqueueMap!MapTypeOK
      /\ Kqueue!MapTypeOK' <=> KqueueMap!MapTypeOK'
      /\ Kqueue!MapInv <=> KqueueMap!MapInv
      /\ Kqueue!MapInv' <=> KqueueMap!MapInv'
  BY <1>1 DEF Kqueue!MapTypeOK, KqueueMap!MapTypeOK, Kqueue!MapInv, KqueueMap!MapInv
<1>3. /\ Kqueue!MapInit <=> KqueueMap!MapInit
      /\ Kqueue!MapClear <=> KqueueMap!MapClear
  BY <1>1 DEF Kqueue!MapInit, KqueueMap!MapInit, Kqueue!MapClear, KqueueMap!MapClear, Kqueue!EmptyMap, KqueueMap!EmptyMap,
              Kqueue!EmptyRequests, KqueueMap!EmptyRequests
<1>4. /\ \A fd \in KqueueFds : Kqueue!Registered(fd) <=> KqueueMap!Registered(fd)
      /\ \A fd \in KqueueFds : Kqueue!FdMapAsserts(fd) => KqueueMap!FdMapAsserts(fd)
  BY <1>1 DEF Kqueue!Registered, KqueueMap!Registered, Kqueue!FdMapAsserts, KqueueMap!FdMapAsserts
<1>5. \A fd \in KqueueFds : Kqueue!RemoveRequest(fd) => KqueueMap!RemoveRequest(fd)
  BY <1>1 DEF Kqueue!RemoveRequest, KqueueMap!RemoveRequest, Kqueue!FdClear, KqueueMap!FdClear, Kqueue!RemoveAt, KqueueMap!RemoveAt
<1>6. \A req \in Kqueue!Request : req \in KqueueMap!Request /\ (Kqueue!AddRequest(req) => KqueueMap!AddRequest(req))
  BY <1>1 DEF Kqueue!AddRequest, KqueueMap!AddRequest
<1>7. \A fd \in KqueueFds, mask \in SUBSET KqueueKinds : Kqueue!AssignMask(fd, mask) => KqueueMap!AssignMask(fd, mask)
  BY DEF Kqueue!AssignMask, KqueueMap!AssignMask
<1> QED
  BY <1>2, <1>3, <1>4, <1>5, <1>6, <1>7, MethodsAssumption

NothingApplied == [kernel |-> kernel, errors |-> <<>>, fails |-> FALSE]
AppliesFrom(g, m) ==
    g = [n \in 0..m |-> IF n = 0 THEN NothingApplied ELSE Kqueue!ApplyChange(g[n - 1], changes[n])]

\* The kernel takes the changes one after the other.
LEMMA AppliedInTurn ==
    ASSUME Len(changes) \in Nat
    PROVE  /\ Kqueue!AppliedTo[0] = NothingApplied
           /\ \A n \in 1..Len(changes) :
                  Kqueue!AppliedTo[n] = Kqueue!ApplyChange(Kqueue!AppliedTo[n - 1], changes[n])
<1> DEFINE bad == {m \in 0..Len(changes) : ~(\E g : AppliesFrom(g, m))}
<1>1. bad = {}
  <2> SUFFICES ASSUME bad # {} PROVE FALSE
    OBVIOUS
  <2>1. bad \in SUBSET Nat
    OBVIOUS
  <2>2. PICK m \in bad : \A k \in bad : m <= k
    BY <2>1, Lowest
  <2>3. m # 0
    <3>1. AppliesFrom([n \in 0..0 |-> NothingApplied], 0)
      BY DEF AppliesFrom
    <3> QED
      BY <3>1
  <2>4. m - 1 \in 0..Len(changes) /\ m - 1 \notin bad /\ m \in 1..Len(changes)
    BY <2>2, <2>3
  <2>5. PICK g : AppliesFrom(g, m - 1)
    BY <2>4
  <2> DEFINE h == [n \in 0..m |-> IF n = m THEN Kqueue!ApplyChange(g[m - 1], changes[m]) ELSE g[n]]
  <2>6. \A n \in 0..m : h[n] = IF n = 0 THEN NothingApplied ELSE Kqueue!ApplyChange(h[n - 1], changes[n])
    <3> SUFFICES ASSUME NEW n \in 0..m
                 PROVE  h[n] = IF n = 0 THEN NothingApplied ELSE Kqueue!ApplyChange(h[n - 1], changes[n])
      OBVIOUS
    <3>1. CASE n = m
      <4>1. h[n] = Kqueue!ApplyChange(g[m - 1], changes[m]) /\ h[m - 1] = g[m - 1]
        BY <2>4, <3>1
      <4> QED
        BY <2>3, <3>1, <4>1
    <3>2. CASE n # m
      <4>1. n \in 0..m - 1 /\ h[n] = g[n]
        BY <2>4, <3>2
      <4>2. g[n] = IF n = 0 THEN NothingApplied ELSE Kqueue!ApplyChange(g[n - 1], changes[n])
        BY <2>5, <4>1 DEF AppliesFrom
      <4>3. n # 0 => h[n - 1] = g[n - 1]
        BY <2>4, <4>1
      <4> QED
        BY <4>1, <4>2, <4>3
    <3> QED
      BY <3>1, <3>2
  <2>7. h = [n \in 0..m |-> h[n]]
    OBVIOUS
  <2>8. AppliesFrom(h, m)
    BY <2>6, <2>7, Zenon DEF AppliesFrom
  <2> QED
    BY <2>2, <2>8
<1>2. \E g : AppliesFrom(g, Len(changes))
  BY <1>1
<1>3. Kqueue!AppliedTo = CHOOSE g : AppliesFrom(g, Len(changes))
  BY DEF Kqueue!AppliedTo, AppliesFrom, NothingApplied
<1>4. AppliesFrom(Kqueue!AppliedTo, Len(changes))
  BY <1>2, <1>3
<1> QED
  BY <1>4 DEF AppliesFrom

\* What n of the changes c leave of a filter that the kernel has in s: the last
\* change about it decides.
About(c, fd, kind) == c.ident = fd /\ c.filter = kind
Brings(c, n, s, fd, kind) ==
    \/ \E i \in 1..n : About(c[i], fd, kind) /\ c[i].add /\ \A j \in i + 1..n : ~About(c[j], fd, kind)
    \/ <<fd, kind>> \in s /\ \A j \in 1..n : ~About(c[j], fd, kind)

LEMMA BringsOneMore ==
    ASSUME NEW c, NEW n \in Nat, NEW s, NEW fd, NEW kind
    PROVE  Brings(c, n + 1, s, fd, kind) <=>
               IF About(c[n + 1], fd, kind) THEN c[n + 1].add ELSE Brings(c, n, s, fd, kind)
<1>1. CASE About(c[n + 1], fd, kind)
  <2>1. \A i \in 1..n : n + 1 \in i + 1..n + 1
    OBVIOUS
  <2>2. n + 1 \in 1..n + 1 /\ \A j \in n + 1 + 1..n + 1 : FALSE
    OBVIOUS
  <2>3. \A i \in 1..n + 1 : i # n + 1 => i \in 1..n
    OBVIOUS
  <2> QED
    BY <1>1, <2>1, <2>2, <2>3 DEF Brings
<1>2. CASE ~About(c[n + 1], fd, kind)
  <2>1. \A i \in 1..n + 1 : About(c[i], fd, kind) => i \in 1..n
    BY <1>2
  <2>2. \A i \in 1..n : i \in 1..n + 1
    OBVIOUS
  <2>3. \A i \in 1..n : \A j \in i + 1..n + 1 : About(c[j], fd, kind) => j \in i + 1..n
    BY <1>2
  <2>4. \A i \in 1..n : \A j \in i + 1..n : j \in i + 1..n + 1
    OBVIOUS
  <2>5. Brings(c, n + 1, s, fd, kind) => Brings(c, n, s, fd, kind)
    BY <2>1, <2>2, <2>4 DEF Brings
  <2>6. Brings(c, n, s, fd, kind) => Brings(c, n + 1, s, fd, kind)
    BY <2>1, <2>2, <2>3 DEF Brings
  <2> QED
    BY <1>2, <2>5, <2>6
<1> QED
  BY <1>1, <1>2

\* What wait () will hand over is what the kernel will listen to.
LEMMA ListeningBrings ==
    ASSUME changes \in Seq(Kqueue!Change), NEW fd, NEW kind
    PROVE  Kqueue!Listening(fd, kind) <=> Brings(changes, Len(changes), kernel, fd, kind)
<1> DEFINE about == {i \in DOMAIN changes : changes[i].ident = fd /\ changes[i].filter = kind}
<1>1. Len(changes) \in Nat /\ DOMAIN changes = 1..Len(changes)
  BY LenProperties
<1>2. CASE about = {}
  <2>1. \A j \in 1..Len(changes) : ~About(changes[j], fd, kind)
    BY <1>1, <1>2 DEF About
  <2> QED
    BY <1>2, <2>1 DEF Kqueue!Listening, Brings
<1>3. CASE about # {}
  <2>1. about \in SUBSET (0..Len(changes))
    BY <1>1
  <2>2. PICK x \in about : \A y \in about : y <= x
    BY <1>1, <1>3, <2>1, Highest
  <2>3. Kqueue!Max(about) = CHOOSE z \in about : \A y \in about : z >= y
    BY DEF Kqueue!Max
  <2>4. \A y \in about : x >= y /\ y \in Nat
    BY <1>1, <2>2
  <2>5. Kqueue!Max(about) \in about /\ \A y \in about : Kqueue!Max(about) >= y
    BY <2>2, <2>3, <2>4
  <2>6. PICK m : m = Kqueue!Max(about)
    OBVIOUS
  <2>7. m \in 1..Len(changes) /\ About(changes[m], fd, kind) /\ \A j \in m + 1..Len(changes) : ~About(changes[j], fd, kind)
    <3>1. m \in about /\ \A y \in about : m >= y
      BY <2>5, <2>6
    <3>2. \A j \in m + 1..Len(changes) : ~(m >= j) /\ j \in 1..Len(changes)
      BY <1>1, <3>1
    <3>3. \A j \in m + 1..Len(changes) : j \notin about
      BY <3>1, <3>2
    <3> QED
      BY <1>1, <3>1, <3>2, <3>3 DEF About
  <2>8. Brings(changes, Len(changes), kernel, fd, kind) <=> changes[m].add
    <3>1. \A i \in 1..Len(changes) : i = m \/ i < m \/ i \in m + 1..Len(changes)
      BY <1>1, <2>7
    <3>2. \A i \in 1..Len(changes) : i < m => m \in i + 1..Len(changes)
      BY <1>1, <2>7
    <3> QED
      BY <2>7, <3>1, <3>2 DEF Brings
  <2>9. Kqueue!Listening(fd, kind) <=> changes[m].add
    BY <1>3, <2>6 DEF Kqueue!Listening
  <2> QED
    BY <2>8, <2>9
<1> QED
  BY <1>2, <1>3

\* Changes d about a descriptor that add some filters and delete others.
Tells(d, of, adds, deletes) ==
    /\ d \in Seq(Kqueue!Change)
    /\ \A i \in 1..Len(d) : /\ d[i].ident = of
                            /\ IF d[i].add THEN d[i].filter \in adds ELSE d[i].filter \in deletes
    /\ \A k \in adds \cup deletes : \E i \in 1..Len(d) : d[i].filter = k

LEMMA TellsBrings ==
    ASSUME NEW c \in Seq(Kqueue!Change), NEW d, NEW of, NEW adds, NEW deletes, Tells(d, of, adds, deletes),
           adds \cap deletes = {}, NEW s, NEW fd, NEW kind
    PROVE  /\ c \o d \in Seq(Kqueue!Change)
           /\ Brings(c \o d, Len(c \o d), s, fd, kind) <=>
                  IF fd = of /\ kind \in adds THEN TRUE
                  ELSE IF fd = of /\ kind \in deletes THEN FALSE
                  ELSE Brings(c, Len(c), s, fd, kind)
<1> DEFINE n == Len(c)
           m == Len(d)
           e == c \o d
<1>1. /\ n \in Nat /\ m \in Nat /\ e \in Seq(Kqueue!Change) /\ Len(e) = n + m
      /\ \A i \in 1..n : e[i] = c[i]
      /\ \A i \in 1..m : e[n + i] = d[i]
  <2>1. d \in Seq(Kqueue!Change) /\ n \in Nat /\ m \in Nat
    BY LenProperties DEF Tells
  <2>2. e \in Seq(Kqueue!Change) /\ Len(e) = n + m
        /\ \A i \in 1..n + m : e[i] = IF i <= n THEN c[i] ELSE d[i - n]
    BY <2>1, ConcatProperties
  <2>3. \A i \in 1..n : e[i] = c[i]
    BY <2>1, <2>2
  <2>4. \A i \in 1..m : e[n + i] = d[i]
    <3> TAKE i \in 1..m
    <3>1. n + i \in 1..n + m /\ ~(n + i <= n) /\ n + i - n = i
      BY <2>1
    <3> QED
      BY <2>2, <3>1
  <2> QED
    BY <2>1, <2>2, <2>3, <2>4
<1> HIDE DEF n, m, e
<1>2. CASE fd = of /\ kind \in adds \cup deletes
  <2> DEFINE last == {i \in 1..m : About(d[i], fd, kind)}
  <2>1. last # {} /\ last \in SUBSET (0..m)
    <3>1. PICK i \in 1..m : d[i].filter = kind
      BY <1>2 DEF Tells, m
    <3>2. i \in last
      BY <1>2, <3>1 DEF Tells, About, m
    <3>3. last \subseteq 1..m /\ 1..m \subseteq 0..m
      BY <1>1
    <3> QED
      BY <3>2, <3>3
  <2>2. PICK x \in last : \A y \in last : y <= x
    BY <1>1, <2>1, Highest
  <2>3. x \in 1..m /\ About(d[x], fd, kind) /\ (d[x].add <=> kind \in adds)
    BY <1>2, <2>2 DEF Tells, About, m
  <2>4. n + x \in 1..n + m /\ About(e[n + x], fd, kind) /\ (e[n + x].add <=> kind \in adds)
    BY <1>1, <2>3
  <2>5. \A j \in n + x + 1..n + m : ~About(e[j], fd, kind)
    <3> TAKE j \in n + x + 1..n + m
    <3>1. j - n \in 1..m /\ ~(j - n <= x) /\ n + (j - n) = j
      BY <1>1, <2>3
    <3> QED
      BY <1>1, <2>2, <3>1
  <2>6. \A i \in 1..n + m : i = n + x \/ n + x \in i + 1..n + m \/ i \in n + x + 1..n + m
    BY <1>1, <2>4
  <2>7. Brings(e, n + m, s, fd, kind) <=> kind \in adds
    BY <2>4, <2>5, <2>6 DEF Brings
  <2> QED
    BY <1>1, <1>2, <2>7 DEF e
<1>3. CASE ~(fd = of /\ kind \in adds \cup deletes)
  <2>1. \A i \in 1..m : ~About(d[i], fd, kind)
    BY <1>3 DEF Tells, About, m
  <2>2. \A j \in n + 1..n + m : ~About(e[j], fd, kind)
    <3> TAKE j \in n + 1..n + m
    <3>1. j - n \in 1..m /\ n + (j - n) = j
      BY <1>1
    <3> QED
      BY <1>1, <2>1, <3>1
  <2>3. \A i \in 1..n + m : About(e[i], fd, kind) => i \in 1..n
    BY <1>1, <2>2
  <2>4. \A i \in 1..n : i \in 1..n + m /\ e[i] = c[i]
    BY <1>1
  <2>5. \A i \in 1..n : \A j \in i + 1..n + m : About(e[j], fd, kind) => j \in i + 1..n
    BY <1>1, <2>3
  <2>6. \A i \in 1..n : \A j \in i + 1..n : j \in i + 1..n + m /\ j \in 1..n
    BY <1>1
  <2>7. Brings(e, n + m, s, fd, kind) => Brings(c, n, s, fd, kind)
    BY <2>3, <2>4, <2>6 DEF Brings
  <2>8. Brings(c, n, s, fd, kind) => Brings(e, n + m, s, fd, kind)
    BY <2>3, <2>4, <2>5, <2>6 DEF Brings
  <2> QED
    BY <1>1, <1>3, <2>7, <2>8 DEF e, n
<1> QED
  BY <1>2, <1>3

\* SetToSeq lists every element of a finite set.
LEMMA SetToSeqOf ==
    ASSUME NEW S, IsFiniteSet(S)
    PROVE  /\ Cardinality(S) \in Nat
           /\ Kqueue!SetToSeq(S) \in [1..Cardinality(S) -> S]
           /\ \A x \in S : \E i \in 1..Cardinality(S) : Kqueue!SetToSeq(S)[i] = x
<1> DEFINE n == Cardinality(S)
<1>1. n \in Nat /\ ExistsBijection(1..n, S)
  BY FS_CardinalityType
<1>2. PICK g \in [1..n -> S] : IsInjective(g)
  BY <1>1 DEF ExistsBijection, Bijection, Injection
<1>3. Kqueue!SetToSeq(S) = CHOOSE f \in [1..n -> S] : IsInjective(f)
  BY DEF Kqueue!SetToSeq, Kqueue!Cardinality, Cardinality, Kqueue!IsInjective, IsInjective
<1>4. PICK f : f = Kqueue!SetToSeq(S)
  OBVIOUS
<1> HIDE DEF n
<1>5. f \in [1..n -> S] /\ IsInjective(f)
  BY <1>2, <1>3, <1>4
<1>6. f \in Injection(1..n, S)
  BY <1>5 DEF Injection
<1>7. IsFiniteSet(1..n) /\ Cardinality(1..n) = n
  <2>1. 1 \in Int /\ n \in Int
    BY <1>1
  <2>2. IsFiniteSet(1..n) /\ Cardinality(1..n) = IF 1 > n THEN 0 ELSE n - 1 + 1
    BY <2>1, FS_Interval
  <2> QED
    BY <1>1, <2>2
<1>8. f \in Surjection(1..n, S)
  <2>1. Cardinality(1..n) = Cardinality(S) <=> f \in Surjection(1..n, S)
    BY <1>6, FS_Injection
  <2> QED
    BY <1>7, <2>1 DEF n
<1>9. \A x \in S : \E i \in 1..n : f[i] = x
  BY <1>8 DEF Surjection
<1> QED
  BY <1>1, <1>4, <1>5, <1>9 DEF n

\* attach, detach and the masks queue one change for each kind.
LEMMA ChangesTell ==
    ASSUME NEW fd \in KqueueFds, NEW kinds \in SUBSET KqueueKinds, NEW add \in BOOLEAN
    PROVE  Tells(Kqueue!ChangesTo(fd, kinds, add), fd, IF add THEN kinds ELSE {}, IF add THEN {} ELSE kinds)
<1>1. IsFiniteSet(kinds)
  BY MethodsAssumption, FS_Subset
<1> DEFINE n == Cardinality(kinds)
<1>2. PICK f : f = Kqueue!SetToSeq(kinds)
  OBVIOUS
<1>3. n \in Nat /\ f \in [1..n -> kinds] /\ \A x \in kinds : \E i \in 1..n : f[i] = x
  BY <1>1, <1>2, SetToSeqOf
<1> HIDE DEF n
<1>4. Kqueue!ChangesTo(fd, kinds, add) = [i \in 1..n |-> [ident |-> fd, filter |-> f[i], add |-> add]]
  BY <1>2, <1>3 DEF Kqueue!ChangesTo
<1>5. PICK d : d = Kqueue!ChangesTo(fd, kinds, add)
  OBVIOUS
<1>6. /\ d \in [1..n -> Kqueue!Change]
      /\ \A i \in 1..n : d[i].ident = fd /\ d[i].filter = f[i] /\ d[i].add = add
  BY <1>3, <1>4, <1>5 DEF Kqueue!Change
<1>7. d \in Seq(Kqueue!Change) /\ Len(d) = n
  <2>1. d \in Seq(Kqueue!Change)
    BY <1>3, <1>6, IsASeq
  <2> QED
    BY <1>3, <1>6, <2>1, LenProperties
<1>8. \A i \in 1..n : f[i] \in kinds
  BY <1>3
<1>9. CASE add
  <2>1. Tells(d, fd, kinds, {})
    <3>1. \A i \in 1..Len(d) : d[i].ident = fd /\ d[i].filter \in kinds
      BY <1>6, <1>7, <1>8
    <3>2. \A i \in 1..Len(d) : d[i].add
      BY <1>6, <1>7, <1>9
    <3>3. \A k \in kinds : \E i \in 1..Len(d) : d[i].filter = k
      BY <1>3, <1>6, <1>7
    <3> QED
      BY <1>7, <3>1, <3>2, <3>3 DEF Tells
  <2> QED
    BY <1>5, <1>9, <2>1
<1>10. CASE ~add
  <2>1. Tells(d, fd, {}, kinds)
    <3>1. \A i \in 1..Len(d) : d[i].ident = fd /\ d[i].filter \in kinds
      BY <1>6, <1>7, <1>8
    <3>2. \A i \in 1..Len(d) : ~d[i].add
      BY <1>6, <1>7, <1>10
    <3>3. \A k \in kinds : \E i \in 1..Len(d) : d[i].filter = k
      BY <1>3, <1>6, <1>7
    <3> QED
      BY <1>7, <3>1, <3>2, <3>3 DEF Tells
  <2> QED
    BY <1>5, <1>10, <2>1
<1> QED
  BY <1>9, <1>10

LEMMA AddsTell ==
    ASSUME NEW fd \in KqueueFds, NEW kinds \in SUBSET KqueueKinds
    PROVE  Tells(Kqueue!Adds(fd, kinds), fd, kinds, {}) /\ Tells(Kqueue!Deletes(fd, kinds), fd, {}, kinds)
<1>1. Tells(Kqueue!ChangesTo(fd, kinds, TRUE), fd, IF TRUE THEN kinds ELSE {}, IF TRUE THEN {} ELSE kinds)
  BY ChangesTell
<1>2. Tells(Kqueue!ChangesTo(fd, kinds, FALSE), fd, IF FALSE THEN kinds ELSE {}, IF FALSE THEN {} ELSE kinds)
  BY ChangesTell
<1> QED
  BY <1>1, <1>2 DEF Kqueue!Adds, Kqueue!Deletes

\* setMask queues both.
LEMMA BothTell ==
    ASSUME NEW fd \in KqueueFds, NEW some, NEW others, NEW a, NEW b,
           Tells(a, fd, some, {}), Tells(b, fd, {}, others)
    PROVE  Tells(a \o b, fd, some, others)
<1>1. a \in Seq(Kqueue!Change) /\ b \in Seq(Kqueue!Change) /\ Len(a) \in Nat /\ Len(b) \in Nat
  BY LenProperties DEF Tells
<1>2. /\ a \o b \in Seq(Kqueue!Change) /\ Len(a \o b) = Len(a) + Len(b)
      /\ \A i \in 1..Len(a) + Len(b) : (a \o b)[i] = IF i <= Len(a) THEN a[i] ELSE b[i - Len(a)]
  BY <1>1, ConcatProperties
<1>3. PICK c : c = a \o b
  OBVIOUS
<1>4. \A i \in 1..Len(a) : i \in 1..Len(a) + Len(b) /\ c[i] = a[i]
  BY <1>1, <1>2, <1>3
<1>5. \A i \in 1..Len(b) : i + Len(a) \in 1..Len(a) + Len(b) /\ c[i + Len(a)] = b[i]
  <2> TAKE i \in 1..Len(b)
  <2>1. i + Len(a) \in 1..Len(a) + Len(b) /\ ~(i + Len(a) <= Len(a)) /\ i + Len(a) - Len(a) = i
    BY <1>1
  <2> QED
    BY <1>2, <1>3, <2>1
<1>6. \A i \in 1..Len(a) + Len(b) : \/ i \in 1..Len(a) /\ c[i] = a[i]
                                    \/ i - Len(a) \in 1..Len(b) /\ c[i] = b[i - Len(a)]
  BY <1>1, <1>2, <1>3
<1>7. \A i \in 1..Len(a) : a[i].ident = fd /\ a[i].add /\ a[i].filter \in some
  BY DEF Tells
<1>8. \A i \in 1..Len(b) : b[i].ident = fd /\ ~b[i].add /\ b[i].filter \in others
  BY DEF Tells
<1>9. \A i \in 1..Len(a) + Len(b) : /\ c[i].ident = fd
                                    /\ IF c[i].add THEN c[i].filter \in some ELSE c[i].filter \in others
  BY <1>6, <1>7, <1>8
<1>10. \A k \in some \cup others : \E i \in 1..Len(a) + Len(b) : c[i].filter = k
  <2> TAKE k \in some \cup others
  <2>1. CASE k \in some
    BY <1>4, <2>1 DEF Tells
  <2>2. CASE k \in others
    <3>1. PICK i \in 1..Len(b) : b[i].filter = k
      BY <2>2 DEF Tells
    <3> QED
      BY <1>5, <3>1
  <2> QED
    BY <2>1, <2>2
<1> QED
  BY <1>2, <1>3, <1>9, <1>10 DEF Tells

-----------------------------------------------------------------------------
\* What the client wants of a filter of a descriptor.
Wants(fd, kind) == Kqueue!Registered(fd) /\ kind \in Kqueue!Mask(fd)

KqueueError == [ident : KqueueFds, filter : KqueueKinds]

KqueueTypes ==
    /\ changes \in Seq(Kqueue!Change)
    /\ DOMAIN unread \subseteq Nat
    /\ kernel \in SUBSET (open \X KqueueKinds)
    /\ open \subseteq KqueueFds
    /\ walk \in {"idle", "next", "handler", "failed"}
    /\ event \in [source : KqueueFds, events : SUBSET KqueueKinds] \cup {Kqueue!NoEvent}
    /\ reported \subseteq KqueueFds \X KqueueKinds
    /\ lost \in BOOLEAN

\* Only open descriptors are attached, and the queue brings the kernel to what the
\* client wants of every descriptor, a closed one too.
KqueueQueueInv ==
    /\ \A fd \in KqueueFds : Kqueue!Registered(fd) => fd \in open
    /\ ~lost => \A fd \in KqueueFds, kind \in KqueueKinds :
                    Brings(changes, Len(changes), kernel, fd, kind) <=> Wants(fd, kind)

\* Every result names a descriptor and a filter, and what was found ready and not
\* handed out is among them.
KqueueResultsInv ==
    /\ \A i \in DOMAIN unread : unread[i] \in KqueueError
    /\ walk \in {"next", "handler"} =>
           \A b \in reported : /\ Kqueue!Registered(b[1])
                               /\ \E i \in DOMAIN unread : unread[i].ident = b[1] /\ unread[i].filter = b[2]

KqueueInv == Kqueue!MapTypeOK /\ Kqueue!MapInv /\ KqueueTypes /\ KqueueQueueInv /\ KqueueResultsInv

LEMMA KqueueInvSays == KqueueInv => Kqueue!TypeOK /\ Kqueue!MasksArrive
<1> SUFFICES ASSUME KqueueInv PROVE Kqueue!TypeOK /\ Kqueue!MasksArrive
  OBVIOUS
<1>1. Kqueue!Range(unread) \subseteq Kqueue!Result
  <2>1. \A i \in DOMAIN unread : unread[i] \in Kqueue!Result
    BY DEF KqueueInv, KqueueResultsInv, KqueueError, Kqueue!Result
  <2> QED
    BY <2>1 DEF Kqueue!Range
<1>2. Kqueue!TypeOK
  BY <1>1 DEF KqueueInv, KqueueTypes, Kqueue!TypeOK
<1>3. ASSUME ~lost, NEW fd \in open, NEW kind \in KqueueKinds
      PROVE  Kqueue!Listening(fd, kind) <=> Wants(fd, kind)
  <2>1. changes \in Seq(Kqueue!Change) /\ fd \in KqueueFds
    BY DEF KqueueInv, KqueueTypes
  <2>2. Brings(changes, Len(changes), kernel, fd, kind) <=> Wants(fd, kind)
    BY <1>3, <2>1 DEF KqueueInv, KqueueQueueInv
  <2> QED
    BY <2>1, <2>2, ListeningBrings
<1> QED
  BY <1>2, <1>3 DEF Kqueue!MasksArrive, Wants

-----------------------------------------------------------------------------
(* kevent ().                                                              *)

AppliedState == [kernel : SUBSET (open \X KqueueKinds), errors : Seq(KqueueError), fails : BOOLEAN]

\* Where the kernel is after n changes.
AppliesTo(s, n) ==
    /\ s \in AppliedState
    /\ ~s.fails => \A fd \in KqueueFds, kind \in KqueueKinds :
                       <<fd, kind>> \in s.kernel <=> fd \in open /\ Brings(changes, n, kernel, fd, kind)

LEMMA AppliesOneMore ==
    ASSUME NEW n \in Nat, NEW s, AppliesTo(s, n), changes[n + 1] \in Kqueue!Change
    PROVE  AppliesTo(Kqueue!ApplyChange(s, changes[n + 1]), n + 1)
<1>1. PICK c : c = changes[n + 1]
  OBVIOUS
<1>2. c \in Kqueue!Change /\ c.ident \in KqueueFds /\ c.filter \in KqueueKinds /\ c.add \in BOOLEAN
  BY <1>1 DEF Kqueue!Change
<1>3. s \in AppliedState
  BY DEF AppliesTo
<1> DEFINE pair == <<c.ident, c.filter>>
           error == [ident |-> c.ident, filter |-> c.filter]
           t == Kqueue!ApplyChange(s, c)
<1>4. \A fd \in KqueueFds, kind \in KqueueKinds :
          Brings(changes, n + 1, kernel, fd, kind) <=>
              IF fd = c.ident /\ kind = c.filter THEN c.add ELSE Brings(changes, n, kernel, fd, kind)
  BY <1>1, BringsOneMore DEF About
<1>5. CASE s.fails
  <2>1. t = s
    BY <1>5 DEF Kqueue!ApplyChange
  <2> QED
    BY <1>1, <1>3, <1>5, <2>1 DEF AppliesTo
<1>6. CASE ~s.fails /\ Kqueue!Applies(s, c)
  <2>1. PICK k : k = IF c.add THEN s.kernel \cup {pair} ELSE s.kernel \ {pair}
    OBVIOUS
  <2>2. t = [s EXCEPT !.kernel = k]
    BY <1>6, <2>1 DEF Kqueue!ApplyChange
  <2>3. s.kernel \in SUBSET (open \X KqueueKinds)
    BY <1>3 DEF AppliedState
  <2>4. k \in SUBSET (open \X KqueueKinds)
    BY <1>2, <1>6, <2>1, <2>3 DEF Kqueue!Applies
  <2>5. t \in AppliedState /\ t.kernel = k /\ t.fails = s.fails
    BY <1>3, <2>2, <2>4 DEF AppliedState
  <2>6. ASSUME NEW fd \in KqueueFds, NEW kind \in KqueueKinds
        PROVE  <<fd, kind>> \in k <=> fd \in open /\ Brings(changes, n + 1, kernel, fd, kind)
    <3>1. <<fd, kind>> \in s.kernel <=> fd \in open /\ Brings(changes, n, kernel, fd, kind)
      BY <1>6 DEF AppliesTo
    <3>2. <<fd, kind>> = pair <=> fd = c.ident /\ kind = c.filter
      OBVIOUS
    <3>3. c.add => c.ident \in open
      BY <1>6 DEF Kqueue!Applies
    <3>4. CASE <<fd, kind>> = pair
      BY <1>2, <1>4, <2>1, <3>2, <3>3, <3>4
    <3>5. CASE <<fd, kind>> # pair
      BY <1>4, <2>1, <3>1, <3>2, <3>5
    <3> QED
      BY <3>4, <3>5
  <2> QED
    BY <1>1, <2>5, <2>6 DEF AppliesTo
<1>7. CASE ~s.fails /\ ~Kqueue!Applies(s, c)
  <2>1. t = IF Len(s.errors) < Kqueue!Slots THEN [s EXCEPT !.errors = Append(@, error)] ELSE [s EXCEPT !.fails = TRUE]
    BY <1>7 DEF Kqueue!ApplyChange
  <2>2. PICK e : e = Append(s.errors, error)
    OBVIOUS
  <2>3. e \in Seq(KqueueError)
    <3>1. s.errors \in Seq(KqueueError) /\ error \in KqueueError
      BY <1>2, <1>3 DEF AppliedState, KqueueError
    <3> QED
      BY <2>2, <3>1, AppendProperties
  <2>4. t = [s EXCEPT !.errors = e] \/ t = [s EXCEPT !.fails = TRUE]
    BY <2>1, <2>2
  <2>5. t \in AppliedState /\ t.kernel = s.kernel
    BY <1>3, <2>3, <2>4 DEF AppliedState
  <2>6. ASSUME NEW fd \in KqueueFds, NEW kind \in KqueueKinds
        PROVE  <<fd, kind>> \in s.kernel <=> fd \in open /\ Brings(changes, n + 1, kernel, fd, kind)
    <3>1. <<fd, kind>> \in s.kernel <=> fd \in open /\ Brings(changes, n, kernel, fd, kind)
      BY <1>7 DEF AppliesTo
    <3>2. CASE fd = c.ident /\ kind = c.filter /\ c.add
      <4>1. fd \notin open
        BY <1>7, <3>2 DEF Kqueue!Applies
      <4> QED
        BY <3>1, <4>1
    <3>3. CASE fd = c.ident /\ kind = c.filter /\ ~c.add
      <4>1. <<fd, kind>> \notin s.kernel
        BY <1>7, <3>3 DEF Kqueue!Applies
      <4> QED
        BY <1>4, <3>3, <4>1
    <3>4. CASE ~(fd = c.ident /\ kind = c.filter)
      BY <1>4, <3>1, <3>4
    <3> QED
      BY <1>2, <3>2, <3>3, <3>4
  <2> QED
    BY <1>1, <2>5, <2>6 DEF AppliesTo
<1> QED
  BY <1>3, <1>5, <1>6, <1>7 DEF AppliedState

\* The kernel ends up with what the changes bring, on the descriptors that are open.
LEMMA AppliedBrings == ASSUME KqueueTypes PROVE AppliesTo(Kqueue!Applied, Len(changes))
<1>1. Len(changes) \in Nat /\ \A i \in 1..Len(changes) : changes[i] \in Kqueue!Change
  BY LenProperties, ElementOfSeq DEF KqueueTypes
<1> DEFINE bad == {n \in 0..Len(changes) : ~AppliesTo(Kqueue!AppliedTo[n], n)}
<1>2. bad = {}
  <2> SUFFICES ASSUME bad # {} PROVE FALSE
    OBVIOUS
  <2>1. bad \in SUBSET Nat
    OBVIOUS
  <2>2. PICK n \in bad : \A k \in bad : n <= k
    BY <2>1, Lowest
  <2>3. n # 0
    <3>1. NothingApplied \in AppliedState /\ NothingApplied.kernel = kernel
      <4>1. <<>> \in Seq(KqueueError)
        OBVIOUS
      <4> QED
        BY <4>1 DEF NothingApplied, AppliedState, KqueueTypes
    <3>2. \A fd \in KqueueFds, kind \in KqueueKinds : Brings(changes, 0, kernel, fd, kind) <=> <<fd, kind>> \in kernel
      BY DEF Brings
    <3>3. \A fd \in KqueueFds, kind \in KqueueKinds : <<fd, kind>> \in kernel => fd \in open
      BY DEF KqueueTypes
    <3>4. AppliesTo(NothingApplied, 0)
      BY <3>1, <3>2, <3>3 DEF AppliesTo
    <3> QED
      BY <1>1, <3>4, AppliedInTurn
  <2>4. n - 1 \in Nat /\ n - 1 \in 0..Len(changes) /\ n - 1 \notin bad /\ n \in 1..Len(changes) /\ n - 1 + 1 = n
    BY <1>1, <2>2, <2>3
  <2>5. AppliesTo(Kqueue!AppliedTo[n - 1], n - 1)
    BY <2>4
  <2>6. AppliesTo(Kqueue!ApplyChange(Kqueue!AppliedTo[n - 1], changes[n]), n)
    BY <1>1, <2>4, <2>5, AppliesOneMore
  <2> QED
    BY <1>1, <2>2, <2>4, <2>6, AppliedInTurn
<1>3. Len(changes) \in 0..Len(changes)
  BY <1>1
<1> QED
  BY <1>2, <1>3 DEF Kqueue!Applied

-----------------------------------------------------------------------------
(* What the operations on the table do to what the client wants.           *)

LEMMA WantsAfterAdd ==
    ASSUME Kqueue!MapTypeOK, Kqueue!MapInv, NEW fd \in KqueueFds, NEW mask \in SUBSET KqueueKinds,
           Kqueue!FdMapAsserts(fd), Kqueue!AddRequest([fd |-> fd, channel |-> fd, mask |-> mask])
    PROVE  /\ Kqueue!MapTypeOK' /\ Kqueue!MapInv'
           /\ \A f \in KqueueFds : Kqueue!Registered(f)' <=> Kqueue!Registered(f) \/ f = fd
           /\ \A f \in KqueueFds, kind \in KqueueKinds :
                  Wants(f, kind)' <=> IF f = fd THEN kind \in mask ELSE Wants(f, kind)
<1>1. PICK req : req = [fd |-> fd, channel |-> fd, mask |-> mask]
  OBVIOUS
<1>2. req \in Kqueue!Request /\ req.fd = fd /\ req.mask = mask
  BY <1>1 DEF Kqueue!Request
<1>3. /\ KqueueFds \subseteq Nat /\ KqueueMap!MapTypeOK /\ KqueueMap!MapInv /\ req \in KqueueMap!Request
      /\ KqueueMap!FdMapAsserts(req.fd) /\ KqueueMap!AddRequest(req)
  BY <1>1, <1>2, KqueueMapIsMap
<1>4. /\ KqueueMap!MapTypeOK' /\ KqueueMap!MapInv'
      /\ \A f \in KqueueFds : KqueueMap!Registered(f)' <=> KqueueMap!Registered(f) \/ f = req.fd
      /\ \A f \in KqueueFds : KqueueMap!Registered(f)' =>
             requests'[fd2req'[f]] = IF f = req.fd THEN req ELSE requests[fd2req[f]]
  BY <1>3, KqueueMap!AddRequestProperties
<1>5. \A f \in KqueueFds : Kqueue!Registered(f)' <=> Kqueue!Registered(f) \/ f = fd
  BY <1>2, <1>4 DEF Kqueue!Registered, KqueueMap!Registered
<1>6. \A f \in KqueueFds : Kqueue!Registered(f)' =>
          requests'[fd2req'[f]] = IF f = fd THEN req ELSE requests[fd2req[f]]
  BY <1>2, <1>4 DEF Kqueue!Registered, KqueueMap!Registered
<1>7. ASSUME NEW f \in KqueueFds, NEW kind \in KqueueKinds
      PROVE  Wants(f, kind)' <=> IF f = fd THEN kind \in mask ELSE Wants(f, kind)
  <2>1. CASE f = fd
    BY <1>2, <1>5, <1>6, <2>1 DEF Wants, Kqueue!Mask
  <2>2. CASE f # fd
    BY <1>5, <1>6, <2>2 DEF Wants, Kqueue!Mask
  <2> QED
    BY <2>1, <2>2
<1> QED
  BY <1>4, <1>5, <1>7, KqueueMapIsMap

LEMMA WantsAfterRemove ==
    ASSUME Kqueue!MapTypeOK, Kqueue!MapInv, NEW fd \in KqueueFds, Kqueue!Registered(fd), Kqueue!RemoveRequest(fd)
    PROVE  /\ Kqueue!MapTypeOK' /\ Kqueue!MapInv'
           /\ \A f \in KqueueFds : Kqueue!Registered(f)' <=> Kqueue!Registered(f) /\ f # fd
           /\ \A f \in KqueueFds, kind \in KqueueKinds : Wants(f, kind)' <=> Wants(f, kind) /\ f # fd
<1>1. /\ KqueueFds \subseteq Nat /\ KqueueMap!MapTypeOK /\ KqueueMap!MapInv
      /\ KqueueMap!Registered(fd) /\ KqueueMap!RemoveRequest(fd)
  BY KqueueMapIsMap
<1>2. /\ KqueueMap!MapTypeOK' /\ KqueueMap!MapInv'
      /\ \A f \in KqueueFds : KqueueMap!Registered(f)' <=> KqueueMap!Registered(f) /\ f # fd
      /\ \A f \in KqueueFds : KqueueMap!Registered(f)' => requests'[fd2req'[f]] = requests[fd2req[f]]
  BY <1>1, KqueueMap!RemoveRequestProperties
<1>3. /\ \A f \in KqueueFds : Kqueue!Registered(f)' <=> Kqueue!Registered(f) /\ f # fd
      /\ \A f \in KqueueFds : Kqueue!Registered(f)' => requests'[fd2req'[f]] = requests[fd2req[f]]
  BY <1>2 DEF Kqueue!Registered, KqueueMap!Registered
<1>4. ASSUME NEW f \in KqueueFds, NEW kind \in KqueueKinds PROVE Wants(f, kind)' <=> Wants(f, kind) /\ f # fd
  BY <1>3 DEF Wants, Kqueue!Mask
<1> QED
  BY <1>2, <1>3, <1>4, KqueueMapIsMap

LEMMA WantsAfterAssign ==
    ASSUME Kqueue!MapTypeOK, Kqueue!MapInv, NEW fd \in KqueueFds, NEW mask \in SUBSET KqueueKinds,
           Kqueue!Registered(fd), Kqueue!AssignMask(fd, mask)
    PROVE  /\ Kqueue!MapTypeOK' /\ Kqueue!MapInv'
           /\ \A f \in KqueueFds : Kqueue!Registered(f)' <=> Kqueue!Registered(f)
           /\ \A f \in KqueueFds, kind \in KqueueKinds :
                  Wants(f, kind)' <=> IF f = fd THEN kind \in mask ELSE Wants(f, kind)
<1>1. /\ KqueueFds \subseteq Nat /\ KqueueMap!MapTypeOK /\ KqueueMap!MapInv
      /\ KqueueMap!Registered(fd) /\ KqueueMap!AssignMask(fd, mask)
  BY KqueueMapIsMap
<1>2. /\ KqueueMap!MapTypeOK' /\ KqueueMap!MapInv'
      /\ \A f \in KqueueFds : KqueueMap!Registered(f)' <=> KqueueMap!Registered(f)
      /\ \A f \in KqueueFds : KqueueMap!Registered(f)' =>
             requests'[fd2req'[f]] = IF f = fd THEN [requests[fd2req[fd]] EXCEPT !.mask = mask]
                                     ELSE requests[fd2req[f]]
  BY <1>1, KqueueMap!AssignMaskProperties
<1>3. PICK req : req = [requests[fd2req[fd]] EXCEPT !.mask = mask]
  OBVIOUS
<1>4. req.mask = mask
  <2>1. requests[fd2req[fd]] \in Kqueue!Request
    <3>1. fd2req[fd] \in 1..Len(requests)
      BY LenProperties DEF Kqueue!Registered, Kqueue!MapTypeOK
    <3> QED
      BY <3>1, ElementOfSeq DEF Kqueue!MapTypeOK
  <2> QED
    BY <1>3, <2>1 DEF Kqueue!Request
<1>5. /\ \A f \in KqueueFds : Kqueue!Registered(f)' <=> Kqueue!Registered(f)
      /\ \A f \in KqueueFds : Kqueue!Registered(f)' =>
             requests'[fd2req'[f]] = IF f = fd THEN req ELSE requests[fd2req[f]]
  BY <1>2, <1>3 DEF Kqueue!Registered, KqueueMap!Registered
<1>6. ASSUME NEW f \in KqueueFds, NEW kind \in KqueueKinds
      PROVE  Wants(f, kind)' <=> IF f = fd THEN kind \in mask ELSE Wants(f, kind)
  <2>1. CASE f = fd
    BY <1>4, <1>5, <2>1 DEF Wants, Kqueue!Mask
  <2>2. CASE f # fd
    BY <1>5, <2>2 DEF Wants, Kqueue!Mask
  <2> QED
    BY <2>1, <2>2
<1> QED
  BY <1>2, <1>5, <1>6, KqueueMapIsMap

LEMMA WantsKept ==
    ASSUME Kqueue!MapTypeOK, Kqueue!MapInv, UNCHANGED <<requests, fd2req, fds>>
    PROVE  /\ Kqueue!MapTypeOK' /\ Kqueue!MapInv'
           /\ \A f \in KqueueFds : Kqueue!Registered(f)' <=> Kqueue!Registered(f)
           /\ \A f \in KqueueFds, kind \in KqueueKinds : Wants(f, kind)' <=> Wants(f, kind)
  BY DEF Kqueue!MapTypeOK, Kqueue!MapInv, Kqueue!Registered, Wants, Kqueue!Mask

\* What is queued for one descriptor brings the kernel to what is wanted of it then.
LEMMA QueueFollows ==
    ASSUME KqueueInv, NEW fd \in KqueueFds, NEW d, NEW adds, NEW deletes, Tells(d, fd, adds, deletes),
           adds \cap deletes = {}, changes' = changes \o d,
           UNCHANGED <<kernel, open, lost>>,
           \A f \in KqueueFds : Kqueue!Registered(f)' => f \in open,
           \A f \in KqueueFds, kind \in KqueueKinds :
               Wants(f, kind)' <=> IF f = fd /\ kind \in adds THEN TRUE
                                   ELSE IF f = fd /\ kind \in deletes THEN FALSE ELSE Wants(f, kind)
    PROVE  changes' \in Seq(Kqueue!Change) /\ KqueueQueueInv'
<1>1. changes \in Seq(Kqueue!Change)
  BY DEF KqueueInv, KqueueTypes
<1>2. changes' \in Seq(Kqueue!Change)
      /\ \A f, kind : Brings(changes', Len(changes'), kernel, f, kind) <=>
                          IF f = fd /\ kind \in adds THEN TRUE
                          ELSE IF f = fd /\ kind \in deletes THEN FALSE
                          ELSE Brings(changes, Len(changes), kernel, f, kind)
  BY <1>1, TellsBrings
<1>3. ASSUME ~lost', NEW f \in KqueueFds, NEW kind \in KqueueKinds
      PROVE  Brings(changes', Len(changes'), kernel', f, kind) <=> Wants(f, kind)'
  <2>1. Brings(changes, Len(changes), kernel, f, kind) <=> Wants(f, kind)
    BY <1>3 DEF KqueueInv, KqueueQueueInv
  <2>2. kernel' = kernel
    OBVIOUS
  <2> QED
    BY <1>2, <2>1, <2>2
<1>4. \A f \in KqueueFds : Kqueue!Registered(f)' => f \in open'
  OBVIOUS
<1> QED
  BY <1>2, <1>3, <1>4 DEF KqueueQueueInv

-----------------------------------------------------------------------------
(* The operations of IOSelectKqueue.                                       *)

LEMMA KqueueStarts == Kqueue!Init => KqueueInv
<1> SUFFICES ASSUME Kqueue!Init PROVE KqueueInv
  OBVIOUS
<1>1. Kqueue!MapTypeOK /\ Kqueue!MapInv /\ \A fd \in KqueueFds : ~Kqueue!Registered(fd)
  BY KqueueMapIsMap, KqueueMap!EmptyMapProperties DEF Kqueue!Init
<1>2. changes = <<>> /\ unread = <<>> /\ kernel = {} /\ open = {} /\ walk = "idle" /\ event = Kqueue!NoEvent
      /\ reported = {} /\ lost = FALSE
  BY DEF Kqueue!Init, Kqueue!NoResults
<1>3. KqueueTypes
  <2>1. changes \in Seq(Kqueue!Change) /\ DOMAIN unread \subseteq Nat
    BY <1>2
  <2>2. kernel \in SUBSET (open \X KqueueKinds) /\ open \subseteq KqueueFds /\ reported \subseteq KqueueFds \X KqueueKinds
    BY <1>2
  <2> QED
    BY <1>2, <2>1, <2>2 DEF KqueueTypes
<1>4. KqueueQueueInv
  <2>1. \A fd \in KqueueFds, kind \in KqueueKinds : ~Brings(<<>>, 0, {}, fd, kind)
    BY DEF Brings
  <2>2. Len(changes) = 0
    BY <1>2
  <2> QED
    BY <1>1, <1>2, <2>1, <2>2 DEF KqueueQueueInv, Wants
<1>5. KqueueResultsInv
  BY <1>2 DEF KqueueResultsInv
<1> QED
  BY <1>1, <1>3, <1>4, <1>5 DEF KqueueInv

\* What was found ready stays among the results while descriptors stay attached.
LEMMA ResultsKept ==
    ASSUME KqueueInv, UNCHANGED <<unread, walk>>, reported' \subseteq reported,
           \A b \in reported' : Kqueue!Registered(b[1]) => Kqueue!Registered(b[1])'
    PROVE  KqueueResultsInv'
<1>1. KqueueResultsInv
  BY DEF KqueueInv
<1> QED
  BY <1>1 DEF KqueueResultsInv

LEMMA KqueueAbort == ASSUME KqueueInv, Kqueue!Abort PROVE KqueueInv'
<1>1. /\ walk' = "failed"
      /\ UNCHANGED <<requests, fd2req, fds, changes, unread, kernel, open, reported, lost, event>>
  BY DEF Kqueue!Abort, Kqueue!mapVars, Kqueue!kqueueVars, Kqueue!externalVars
<1>2. Kqueue!MapTypeOK' /\ Kqueue!MapInv'
      /\ (\A f \in KqueueFds : Kqueue!Registered(f)' <=> Kqueue!Registered(f))
      /\ \A f \in KqueueFds, kind \in KqueueKinds : Wants(f, kind)' <=> Wants(f, kind)
  BY <1>1, WantsKept DEF KqueueInv
<1>3. KqueueTypes'
  BY <1>1 DEF KqueueInv, KqueueTypes
<1>4. KqueueQueueInv'
  BY <1>1, <1>2 DEF KqueueInv, KqueueQueueInv
<1>5. KqueueResultsInv'
  BY <1>1 DEF KqueueInv, KqueueResultsInv
<1> QED
  BY <1>2, <1>3, <1>4, <1>5 DEF KqueueInv

LEMMA KqueueOpens ==
    ASSUME KqueueInv, NEW fd \in KqueueFds, Kqueue!Open(fd) \/ Kqueue!Close(fd)
    PROVE  KqueueInv'
<1>1. UNCHANGED <<requests, fd2req, fds, changes, unread, walk, event, reported, lost>>
  BY DEF Kqueue!Open, Kqueue!Close, Kqueue!mapVars, Kqueue!kqueueVars
<1>2. Kqueue!MapTypeOK' /\ Kqueue!MapInv'
      /\ (\A f \in KqueueFds : Kqueue!Registered(f)' <=> Kqueue!Registered(f))
      /\ \A f \in KqueueFds, kind \in KqueueKinds : Wants(f, kind)' <=> Wants(f, kind)
  BY <1>1, WantsKept DEF KqueueInv
<1>3. KqueueResultsInv'
  <2>1. \A b \in reported : b[1] \in KqueueFds
    BY DEF KqueueInv, KqueueTypes
  <2> QED
    BY <1>1, <1>2, <2>1, ResultsKept
<1>4. CASE Kqueue!Open(fd)
  <2>1. open' = open \cup {fd} /\ kernel' = kernel
    BY <1>4 DEF Kqueue!Open
  <2>2. KqueueTypes'
    BY <1>1, <2>1 DEF KqueueInv, KqueueTypes
  <2>3. KqueueQueueInv'
    BY <1>1, <1>2, <2>1 DEF KqueueInv, KqueueQueueInv
  <2> QED
    BY <1>2, <1>3, <2>2, <2>3 DEF KqueueInv
<1>5. CASE Kqueue!Close(fd)
  <2>1. open' = open \ {fd} /\ kernel' = kernel \ ({fd} \X KqueueKinds) /\ ~Kqueue!Registered(fd)
    BY <1>5 DEF Kqueue!Close, Kqueue!Of
  <2>2. kernel \in SUBSET (open \X KqueueKinds)
    BY DEF KqueueInv, KqueueTypes
  <2>3. kernel' \in SUBSET (open' \X KqueueKinds)
    BY <2>1, <2>2
  <2>4. KqueueTypes'
    BY <1>1, <2>1, <2>3 DEF KqueueInv, KqueueTypes
  <2>5. ASSUME ~lost, NEW f \in KqueueFds, NEW kind \in KqueueKinds
        PROVE  Brings(changes, Len(changes), kernel', f, kind) <=> Wants(f, kind)
    <3>1. Brings(changes, Len(changes), kernel, f, kind) <=> Wants(f, kind)
      BY <2>5 DEF KqueueInv, KqueueQueueInv
    <3>2. CASE f = fd
      <4>1. ~Wants(f, kind)
        BY <2>1, <3>2 DEF Wants
      <4>2. <<f, kind>> \in kernel' => <<f, kind>> \in kernel
        BY <2>1
      <4> QED
        BY <3>1, <4>1, <4>2 DEF Brings
    <3>3. CASE f # fd
      <4>1. <<f, kind>> \in kernel' <=> <<f, kind>> \in kernel
        BY <2>1, <3>3
      <4> QED
        BY <3>1, <4>1 DEF Brings
    <3> QED
      BY <3>2, <3>3
  <2>6. KqueueQueueInv'
    BY <1>1, <1>2, <2>1, <2>5 DEF KqueueInv, KqueueQueueInv
  <2> QED
    BY <1>2, <1>3, <2>4, <2>6 DEF KqueueInv
<1> QED
  BY <1>4, <1>5

LEMMA KqueueAttach ==
    ASSUME KqueueInv, NEW fd \in KqueueFds, NEW mask \in SUBSET KqueueKinds, Kqueue!Attach(fd, mask)
    PROVE  KqueueInv'
<1>1. CASE Kqueue!Abort
  BY <1>1, KqueueAbort
<1>2. CASE ~Kqueue!Abort
  <2>1. /\ fd \in open /\ ~Kqueue!Registered(fd) /\ unread = Kqueue!NoResults /\ Kqueue!FdMapAsserts(fd)
        /\ Kqueue!AddRequest([fd |-> fd, channel |-> fd, mask |-> mask])
        /\ Kqueue!Queue(Kqueue!Adds(fd, mask)) /\ unread' = Kqueue!Grown
        /\ UNCHANGED <<kernel, open, reported, lost, walk, event>>
    BY <1>2 DEF Kqueue!Attach, Kqueue!externalVars
  <2>2. /\ Kqueue!MapTypeOK' /\ Kqueue!MapInv'
        /\ \A f \in KqueueFds : Kqueue!Registered(f)' <=> Kqueue!Registered(f) \/ f = fd
        /\ \A f \in KqueueFds, kind \in KqueueKinds :
               Wants(f, kind)' <=> IF f = fd THEN kind \in mask ELSE Wants(f, kind)
    BY <2>1, WantsAfterAdd DEF KqueueInv
  <2>3. PICK d : d = Kqueue!Adds(fd, mask)
    OBVIOUS
  <2>4. Tells(d, fd, mask, {}) /\ changes' = changes \o d
    BY <2>1, <2>3, AddsTell DEF Kqueue!Queue
  <2>5. \A f \in KqueueFds : Kqueue!Registered(f)' => f \in open
    BY <2>1, <2>2 DEF KqueueInv, KqueueQueueInv
  <2>6. \A f \in KqueueFds, kind \in KqueueKinds : f = fd => ~Wants(f, kind)
    BY <2>1 DEF Wants
  <2>7. changes' \in Seq(Kqueue!Change) /\ KqueueQueueInv'
    BY <2>1, <2>2, <2>4, <2>5, <2>6, QueueFollows
  <2>8. DOMAIN unread' = {} /\ DOMAIN unread = {}
    <3>1. DOMAIN unread = {}
      BY <2>1 DEF Kqueue!NoResults
    <3> QED
      BY <2>1, <3>1 DEF Kqueue!Grown
  <2>9. KqueueTypes'
    BY <2>1, <2>7, <2>8 DEF KqueueInv, KqueueTypes
  <2>10. KqueueResultsInv'
    <3>1. KqueueResultsInv
      BY DEF KqueueInv
    <3>2. walk \in {"next", "handler"} => reported = {}
      BY <2>8, <3>1 DEF KqueueResultsInv
    <3> QED
      BY <2>1, <2>8, <3>2 DEF KqueueResultsInv
  <2> QED
    BY <2>2, <2>7, <2>9, <2>10 DEF KqueueInv
<1> QED
  BY <1>1, <1>2

LEMMA KqueueDetach ==
    ASSUME KqueueInv, NEW fd \in KqueueFds, Kqueue!Detach(fd)
    PROVE  KqueueInv'
<1>1. CASE Kqueue!Abort
  BY <1>1, KqueueAbort
<1>2. CASE ~Kqueue!Abort
  <2>1. /\ Kqueue!Registered(fd) /\ Kqueue!RemoveRequest(fd) /\ Kqueue!Queue(Kqueue!Deletes(fd, Kqueue!Mask(fd)))
        /\ reported' = reported \ ({fd} \X KqueueKinds)
        /\ UNCHANGED <<unread, kernel, open, lost, walk, event>>
    BY <1>2 DEF Kqueue!Detach, Kqueue!Of
  <2>2. /\ Kqueue!MapTypeOK' /\ Kqueue!MapInv'
        /\ \A f \in KqueueFds : Kqueue!Registered(f)' <=> Kqueue!Registered(f) /\ f # fd
        /\ \A f \in KqueueFds, kind \in KqueueKinds : Wants(f, kind)' <=> Wants(f, kind) /\ f # fd
    BY <2>1, WantsAfterRemove DEF KqueueInv
  <2>3. Kqueue!Mask(fd) \in SUBSET KqueueKinds
    <3>1. fd2req[fd] \in 1..Len(requests) /\ requests \in Seq(Kqueue!Request)
      BY <2>1, LenProperties DEF Kqueue!Registered, KqueueInv, Kqueue!MapTypeOK
    <3>2. requests[fd2req[fd]] \in Kqueue!Request
      BY <3>1, ElementOfSeq
    <3> QED
      BY <3>2 DEF Kqueue!Mask, Kqueue!Request
  <2>4. PICK d : d = Kqueue!Deletes(fd, Kqueue!Mask(fd))
    OBVIOUS
  <2>5. Tells(d, fd, {}, Kqueue!Mask(fd)) /\ changes' = changes \o d
    BY <2>1, <2>3, <2>4, AddsTell DEF Kqueue!Queue
  <2>6. \A f \in KqueueFds : Kqueue!Registered(f)' => f \in open
    BY <2>2 DEF KqueueInv, KqueueQueueInv
  <2>7. \A kind \in KqueueKinds : Wants(fd, kind) <=> kind \in Kqueue!Mask(fd)
    BY <2>1 DEF Wants
  <2>8. changes' \in Seq(Kqueue!Change) /\ KqueueQueueInv'
    BY <2>1, <2>2, <2>5, <2>6, <2>7, QueueFollows
  <2>9. KqueueTypes'
    BY <2>1, <2>8 DEF KqueueInv, KqueueTypes
  <2>10. KqueueResultsInv'
    <3>1. reported \subseteq KqueueFds \X KqueueKinds
      BY DEF KqueueInv, KqueueTypes
    <3>2. \A b \in reported' : b \in reported /\ b[1] \in KqueueFds /\ b[1] # fd
      BY <2>1, <3>1
    <3> QED
      BY <2>1, <2>2, <3>2, ResultsKept
  <2> QED
    BY <2>2, <2>8, <2>9, <2>10 DEF KqueueInv
<1> QED
  BY <1>1, <1>2

LEMMA KqueueClear == ASSUME KqueueInv, Kqueue!Clear PROVE KqueueInv'
<1>1. /\ Kqueue!MapClear /\ changes' = <<>> /\ unread' = Kqueue!NoResults /\ reported' = {} /\ lost' = (kernel # {})
      /\ UNCHANGED <<kernel, open, walk, event>>
  BY DEF Kqueue!Clear
<1>2. Kqueue!MapTypeOK' /\ Kqueue!MapInv' /\ \A fd \in KqueueFds : ~Kqueue!Registered(fd)'
  <2>1. KqueueMap!MapTypeOK' /\ KqueueMap!MapInv' /\ \A fd \in KqueueFds : ~KqueueMap!Registered(fd)'
    BY <1>1, KqueueMapIsMap, KqueueMap!EmptyMapProperties
  <2> QED
    BY <2>1, KqueueMapIsMap DEF Kqueue!Registered, KqueueMap!Registered
<1>3. DOMAIN unread' = {}
  BY <1>1 DEF Kqueue!NoResults
<1>4. KqueueTypes'
  BY <1>1, <1>3 DEF KqueueInv, KqueueTypes
<1>5. KqueueQueueInv'
  <2>1. \A fd \in KqueueFds, kind \in KqueueKinds : ~Brings(<<>>, 0, {}, fd, kind)
    BY DEF Brings
  <2>2. Len(changes') = 0 /\ (~lost' => kernel' = {})
    BY <1>1
  <2>3. \A fd \in KqueueFds, kind \in KqueueKinds : ~Wants(fd, kind)'
    BY <1>2 DEF Wants
  <2> QED
    BY <1>1, <1>2, <2>1, <2>2, <2>3 DEF KqueueQueueInv
<1>6. KqueueResultsInv'
  BY <1>1, <1>3 DEF KqueueResultsInv
<1> QED
  BY <1>2, <1>4, <1>5, <1>6 DEF KqueueInv

LEMMA KqueueMasks ==
    ASSUME KqueueInv, NEW fd \in KqueueFds, NEW value \in SUBSET KqueueKinds,
           Kqueue!SetMask(fd, value) \/ Kqueue!AndMask(fd, value) \/ Kqueue!OrMask(fd, value)
    PROVE  KqueueInv'
<1>1. Kqueue!Registered(fd) /\ UNCHANGED <<unread, kernel, open, reported, lost, walk, event>>
  BY DEF Kqueue!SetMask, Kqueue!AndMask, Kqueue!OrMask, Kqueue!externalVars
<1>2. Kqueue!Mask(fd) \in SUBSET KqueueKinds
  <2>1. fd2req[fd] \in 1..Len(requests) /\ requests \in Seq(Kqueue!Request)
    BY <1>1, LenProperties DEF Kqueue!Registered, KqueueInv, Kqueue!MapTypeOK
  <2>2. requests[fd2req[fd]] \in Kqueue!Request
    BY <2>1, ElementOfSeq
  <2> QED
    BY <2>2 DEF Kqueue!Mask, Kqueue!Request
<1>3. \A kind \in KqueueKinds : Wants(fd, kind) <=> kind \in Kqueue!Mask(fd)
  BY <1>1 DEF Wants
<1>4. \A f \in KqueueFds : Kqueue!Registered(f) => f \in open
  BY DEF KqueueInv, KqueueQueueInv
<1>5. ASSUME NEW mask \in SUBSET KqueueKinds, Kqueue!AssignMask(fd, mask),
             NEW d, NEW adds, NEW deletes, Tells(d, fd, adds, deletes), adds \cap deletes = {}, changes' = changes \o d,
             \A kind \in KqueueKinds : kind \in mask <=> kind \in adds \/ (kind \in Kqueue!Mask(fd) /\ kind \notin deletes)
      PROVE  KqueueInv'
  <2>1. /\ Kqueue!MapTypeOK' /\ Kqueue!MapInv'
        /\ \A f \in KqueueFds : Kqueue!Registered(f)' <=> Kqueue!Registered(f)
        /\ \A f \in KqueueFds, kind \in KqueueKinds :
               Wants(f, kind)' <=> IF f = fd THEN kind \in mask ELSE Wants(f, kind)
    BY <1>1, <1>5, WantsAfterAssign DEF KqueueInv
  <2>2. \A f \in KqueueFds, kind \in KqueueKinds :
            Wants(f, kind)' <=> IF f = fd /\ kind \in adds THEN TRUE
                                ELSE IF f = fd /\ kind \in deletes THEN FALSE ELSE Wants(f, kind)
    BY <1>3, <1>5, <2>1
  <2>3. changes' \in Seq(Kqueue!Change) /\ KqueueQueueInv'
    <3>1. \A f \in KqueueFds : Kqueue!Registered(f)' => f \in open
      BY <1>4, <2>1
    <3> QED
      BY <1>1, <1>5, <2>2, <3>1, QueueFollows
  <2>4. KqueueTypes'
    BY <1>1, <2>3 DEF KqueueInv, KqueueTypes
  <2>5. KqueueResultsInv'
    <3>1. \A b \in reported : b[1] \in KqueueFds
      BY DEF KqueueInv, KqueueTypes
    <3> QED
      BY <1>1, <2>1, <3>1, ResultsKept
  <2> QED
    BY <2>1, <2>3, <2>4, <2>5 DEF KqueueInv
<1>6. CASE Kqueue!SetMask(fd, value)
  <2>1. PICK a : a = Kqueue!Adds(fd, value)
    OBVIOUS
  <2>2. PICK b : b = Kqueue!Deletes(fd, KqueueKinds \ value)
    OBVIOUS
  <2>3. Tells(a, fd, value, {}) /\ Tells(b, fd, {}, KqueueKinds \ value)
    <3>1. KqueueKinds \ value \in SUBSET KqueueKinds
      OBVIOUS
    <3> QED
      BY <2>1, <2>2, <3>1, AddsTell
  <2>4. Tells(a \o b, fd, value, KqueueKinds \ value)
    BY <2>3, BothTell
  <2>5. changes' = changes \o (a \o b) /\ Kqueue!AssignMask(fd, value)
    BY <1>6, <2>1, <2>2 DEF Kqueue!SetMask, Kqueue!Queue
  <2>6. value \cap (KqueueKinds \ value) = {}
    OBVIOUS
  <2>7. \A kind \in KqueueKinds :
            kind \in value <=> kind \in value \/ (kind \in Kqueue!Mask(fd) /\ kind \notin KqueueKinds \ value)
    OBVIOUS
  <2> QED
    BY <1>5, <2>4, <2>5, <2>6, <2>7
<1>7. CASE Kqueue!AndMask(fd, value)
  <2>1. PICK b : b = Kqueue!Deletes(fd, KqueueKinds \ value)
    OBVIOUS
  <2>2. Tells(b, fd, {}, KqueueKinds \ value)
    <3>1. KqueueKinds \ value \in SUBSET KqueueKinds
      OBVIOUS
    <3> QED
      BY <2>1, <3>1, AddsTell
  <2>3. changes' = changes \o b /\ Kqueue!AssignMask(fd, Kqueue!Mask(fd) \cap value)
    BY <1>7, <2>1 DEF Kqueue!AndMask, Kqueue!Queue
  <2>4. PICK mask : mask = Kqueue!Mask(fd) \cap value
    OBVIOUS
  <2>5. mask \in SUBSET KqueueKinds
    BY <1>2, <2>4
  <2>6. \A kind \in KqueueKinds :
            kind \in mask <=> kind \in {} \/ (kind \in Kqueue!Mask(fd) /\ kind \notin KqueueKinds \ value)
    BY <2>4
  <2> QED
    BY <1>5, <2>2, <2>3, <2>4, <2>5, <2>6
<1>8. CASE Kqueue!OrMask(fd, value)
  <2>1. PICK a : a = Kqueue!Adds(fd, value)
    OBVIOUS
  <2>2. Tells(a, fd, value, {})
    BY <2>1, AddsTell
  <2>3. changes' = changes \o a /\ Kqueue!AssignMask(fd, Kqueue!Mask(fd) \cup value)
    BY <1>8, <2>1 DEF Kqueue!OrMask, Kqueue!Queue
  <2>4. PICK mask : mask = Kqueue!Mask(fd) \cup value
    OBVIOUS
  <2>5. mask \in SUBSET KqueueKinds
    BY <1>2, <2>4
  <2>6. \A kind \in KqueueKinds :
            kind \in mask <=> kind \in value \/ (kind \in Kqueue!Mask(fd) /\ kind \notin {})
    BY <2>4
  <2> QED
    BY <1>5, <2>2, <2>3, <2>4, <2>5, <2>6
<1> QED
  BY <1>6, <1>7, <1>8

\* Whatever kevent () did, it took the queue.
LEMMA KqueueWaits == ASSUME KqueueInv, Kqueue!Wait \/ Kqueue!WaitThrows PROVE KqueueInv'
<1>1. PICK s : s = Kqueue!Applied
  OBVIOUS
<1>2. AppliesTo(s, Len(changes)) /\ s \in AppliedState
  BY <1>1, AppliedBrings DEF KqueueInv, AppliesTo
<1>3. walk = "idle" /\ kernel' = s.kernel /\ changes' = <<>> /\ UNCHANGED <<requests, fd2req, fds, open, event>>
  <2>1. Kqueue!Handed
    BY DEF Kqueue!Wait, Kqueue!WaitThrows
  <2> QED
    BY <1>1, <2>1 DEF Kqueue!Handed, Kqueue!mapVars
<1>3a. lost' \in BOOLEAN /\ (s.fails => lost') /\ (lost => lost')
  <2>1. lost \in BOOLEAN /\ s.fails \in BOOLEAN
    BY <1>2 DEF KqueueInv, KqueueTypes, AppliedState
  <2>2. CASE Kqueue!Wait
    <3>1. ~s.fails /\ lost' = lost
      BY <1>1, <2>2 DEF Kqueue!Wait
    <3> QED
      BY <2>1, <3>1
  <2>3. CASE Kqueue!WaitThrows
    <3>1. lost' = (lost \/ s.fails)
      BY <1>1, <2>3 DEF Kqueue!WaitThrows
    <3> QED
      BY <2>1, <3>1
  <2> QED
    BY <2>2, <2>3
<1>4. Kqueue!MapTypeOK' /\ Kqueue!MapInv'
      /\ (\A f \in KqueueFds : Kqueue!Registered(f)' <=> Kqueue!Registered(f))
      /\ \A f \in KqueueFds, kind \in KqueueKinds : Wants(f, kind)' <=> Wants(f, kind)
  BY <1>3, WantsKept DEF KqueueInv
<1>5. kernel' \in SUBSET (open \X KqueueKinds)
  BY <1>2, <1>3 DEF AppliedState
<1>7. KqueueQueueInv'
  <2>1. ASSUME ~lost', NEW fd \in KqueueFds, NEW kind \in KqueueKinds
        PROVE  Brings(changes', Len(changes'), kernel', fd, kind) <=> Wants(fd, kind)'
    <3>1. <<fd, kind>> \in kernel' <=> fd \in open /\ Brings(changes, Len(changes), kernel, fd, kind)
      BY <1>2, <1>3, <1>3a, <2>1 DEF AppliesTo
    <3>2. Brings(changes, Len(changes), kernel, fd, kind) <=> Wants(fd, kind)
      BY <1>3a, <2>1 DEF KqueueInv, KqueueQueueInv
    <3>3. Wants(fd, kind) => fd \in open
      BY DEF KqueueInv, KqueueQueueInv, Wants
    <3>4. Len(changes') = 0
      BY <1>3
    <3>5. Brings(changes', 0, kernel', fd, kind) <=> <<fd, kind>> \in kernel'
      BY DEF Brings
    <3> QED
      BY <1>4, <3>1, <3>2, <3>3, <3>4, <3>5
  <2>2. \A fd \in KqueueFds : Kqueue!Registered(fd)' => fd \in open'
    BY <1>3, <1>4 DEF KqueueInv, KqueueQueueInv
  <2> QED
    BY <2>1, <2>2 DEF KqueueQueueInv
<1>8. ASSUME walk' \in {"idle", "next"}, DOMAIN unread' \subseteq Nat, reported' \subseteq KqueueFds \X KqueueKinds, KqueueResultsInv'
      PROVE  KqueueInv'
  <2>1. KqueueTypes'
    BY <1>3, <1>3a, <1>5, <1>8 DEF KqueueInv, KqueueTypes
  <2> QED
    BY <1>4, <1>7, <1>8, <2>1 DEF KqueueInv
<1>9. CASE Kqueue!WaitThrows
  <2>1. unread' = <<>> /\ reported' = {} /\ walk' = walk
    BY <1>9 DEF Kqueue!WaitThrows, Kqueue!NoResults
  <2>2. DOMAIN unread' = {}
    BY <2>1
  <2>3. KqueueResultsInv'
    BY <2>1, <2>2 DEF KqueueResultsInv
  <2> QED
    BY <1>3, <1>8, <2>1, <2>2, <2>3
<1>10. CASE Kqueue!Wait
  <2>1. walk' \in {"idle", "next"}
    BY <1>10 DEF Kqueue!Wait
  <2>2. CASE unread' = s.errors /\ reported' = {}
    <3>1. s.errors \in Seq(KqueueError)
      BY <1>2 DEF AppliedState
    <3>2. DOMAIN unread' \subseteq Nat /\ \A i \in DOMAIN unread' : unread'[i] \in KqueueError
      BY <2>2, <3>1, LenProperties, ElementOfSeq
    <3>3. KqueueResultsInv'
      BY <2>2, <3>2 DEF KqueueResultsInv
    <3> QED
      BY <1>8, <2>1, <2>2, <3>2, <3>3
  <2>3. ASSUME NEW ready \in SUBSET s.kernel, NEW r \in Kqueue!SetToSeqs(ready),
               unread' = [i \in DOMAIN r |-> [ident |-> r[i][1], filter |-> r[i][2]]],
               reported' = {b \in ready : Kqueue!Registered(b[1])}
        PROVE  KqueueInv'
    <3>1. ready \subseteq open \X KqueueKinds /\ open \subseteq KqueueFds
      BY <1>2 DEF AppliedState, KqueueInv, KqueueTypes
    <3>2. IsFiniteSet(ready)
      <4>1. IsFiniteSet(open)
        BY <3>1, MethodsAssumption, FS_Subset
      <4>2. IsFiniteSet(open \X KqueueKinds)
        BY <4>1, MethodsAssumption, FS_Product
      <4> QED
        BY <3>1, <4>2, FS_Subset
    <3>3. r \in [1..Cardinality(ready) -> ready]
          /\ \A i, j \in 1..Cardinality(ready) : i # j => r[i] # r[j]
      BY <2>3 DEF Kqueue!SetToSeqs, Kqueue!Cardinality, Cardinality
    <3>4. \A b \in ready : \E i \in DOMAIN r : r[i] = b
      <4> DEFINE n == Cardinality(ready)
      <4>1. n \in Nat
        BY <3>2, FS_CardinalityType
      <4> HIDE DEF n
      <4>2. r \in Injection(1..n, ready)
        BY <3>3 DEF Injection, IsInjective, n
      <4>3. IsFiniteSet(1..n) /\ Cardinality(1..n) = n
        <5>1. 1 \in Int /\ n \in Int
          BY <4>1
        <5>2. IsFiniteSet(1..n) /\ Cardinality(1..n) = IF 1 > n THEN 0 ELSE n - 1 + 1
          BY <5>1, FS_Interval
        <5> QED
          BY <4>1, <5>2
      <4>4. Cardinality(1..n) = Cardinality(ready) <=> r \in Surjection(1..n, ready)
        BY <3>2, <4>2, <4>3, FS_Injection
      <4> QED
        BY <4>3, <4>4 DEF Surjection, n
    <3>5. \A i \in DOMAIN r : r[i] \in KqueueFds \X KqueueKinds
      BY <3>1, <3>3
    <3>6. DOMAIN unread' = DOMAIN r /\ DOMAIN r \subseteq Nat
          /\ \A i \in DOMAIN r : unread'[i] = [ident |-> r[i][1], filter |-> r[i][2]]
      BY <2>3, <3>3
    <3>7. \A i \in DOMAIN unread' : unread'[i] \in KqueueError
      BY <3>5, <3>6 DEF KqueueError
    <3>8. reported' \subseteq KqueueFds \X KqueueKinds
      BY <2>3, <3>1
    <3>9. \A b \in reported' : /\ Kqueue!Registered(b[1])'
                               /\ \E i \in DOMAIN unread' : unread'[i].ident = b[1] /\ unread'[i].filter = b[2]
      <4> TAKE b \in reported'
      <4>1. b \in ready /\ Kqueue!Registered(b[1]) /\ b[1] \in KqueueFds
        BY <2>3, <3>8
      <4>2. PICK i \in DOMAIN r : r[i] = b
        BY <3>4, <4>1
      <4> QED
        BY <1>4, <3>6, <4>1, <4>2
    <3>10. KqueueResultsInv'
      BY <3>7, <3>9 DEF KqueueResultsInv
    <3> QED
      BY <1>8, <2>1, <3>6, <3>8, <3>10
  <2> QED
    BY <1>1, <1>10, <2>2, <2>3 DEF Kqueue!Wait
<1> QED
  BY <1>9, <1>10

\* The results are read from the first on, those of detached descriptors skipped.
LEMMA KqueueNext ==
    ASSUME KqueueInv, Kqueue!NextFound \/ Kqueue!NextNone \/ Kqueue!HandlerReturns
    PROVE  KqueueInv' /\ (walk = "next" /\ walk' = "idle" => reported' = {})
<1>0. ASSUME UNCHANGED <<requests, fd2req, fds, changes, kernel, open, lost>>,
             DOMAIN unread' \subseteq Nat, walk' \in {"idle", "next", "handler"}, KqueueResultsInv',
             event' \in [source : KqueueFds, events : SUBSET KqueueKinds] \cup {Kqueue!NoEvent},
             reported' \subseteq reported
      PROVE  KqueueInv'
  <2>1. Kqueue!MapTypeOK' /\ Kqueue!MapInv'
        /\ (\A f \in KqueueFds : Kqueue!Registered(f)' <=> Kqueue!Registered(f))
        /\ \A f \in KqueueFds, kind \in KqueueKinds : Wants(f, kind)' <=> Wants(f, kind)
    BY <1>0, WantsKept DEF KqueueInv
  <2>2. KqueueTypes'
    BY <1>0 DEF KqueueInv, KqueueTypes
  <2>3. KqueueQueueInv'
    BY <1>0, <2>1 DEF KqueueInv, KqueueQueueInv
  <2> QED
    BY <1>0, <2>1, <2>2, <2>3 DEF KqueueInv
<1>1. /\ DOMAIN unread \subseteq Nat /\ reported \subseteq KqueueFds \X KqueueKinds
      /\ \A i \in DOMAIN unread : unread[i] \in KqueueError
      /\ event \in [source : KqueueFds, events : SUBSET KqueueKinds] \cup {Kqueue!NoEvent}
  BY DEF KqueueInv, KqueueTypes, KqueueResultsInv
<1>2. ASSUME walk = "next", NEW b \in reported
      PROVE  \E i \in Kqueue!Pending : unread[i].ident = b[1] /\ unread[i].filter = b[2]
  <2>1. Kqueue!Registered(b[1]) /\ b[1] \in KqueueFds
    BY <1>1, <1>2 DEF KqueueInv, KqueueResultsInv
  <2>2. PICK i \in DOMAIN unread : unread[i].ident = b[1] /\ unread[i].filter = b[2]
    BY <1>2 DEF KqueueInv, KqueueResultsInv
  <2>3. fd2req[b[1]] # Kqueue!Unused
    BY <2>1, LenProperties DEF Kqueue!Registered, Kqueue!Unused, KqueueInv, Kqueue!MapTypeOK
  <2> QED
    BY <2>1, <2>2, <2>3 DEF Kqueue!Pending, Kqueue!Attached
<1>3. CASE Kqueue!HandlerReturns
  <2>1. walk = "handler" /\ walk' = "next" /\ event' = Kqueue!NoEvent
        /\ UNCHANGED <<requests, fd2req, fds, changes, unread, kernel, open, reported, lost>>
    BY <1>3 DEF Kqueue!HandlerReturns, Kqueue!mapVars, Kqueue!kqueueVars, Kqueue!externalVars
  <2>2. \A f \in KqueueFds : Kqueue!Registered(f)' <=> Kqueue!Registered(f)
    BY <2>1 DEF Kqueue!Registered
  <2>3. KqueueResultsInv'
    <3>1. KqueueResultsInv
      BY DEF KqueueInv
    <3> QED
      BY <1>1, <2>1, <2>2, <3>1 DEF KqueueResultsInv
  <2> QED
    BY <1>0, <1>1, <2>1, <2>3
<1>4. CASE Kqueue!NextNone
  <2>1. walk = "next" /\ walk' = "idle" /\ Kqueue!Pending = {} /\ unread' = <<>>
        /\ UNCHANGED <<requests, fd2req, fds, changes, kernel, open, reported, lost, event>>
    BY <1>4 DEF Kqueue!NextNone, Kqueue!mapVars, Kqueue!externalVars, Kqueue!NoResults
  <2>2. reported = {}
    BY <1>2, <2>1
  <2>3. DOMAIN unread' = {}
    BY <2>1
  <2>4. KqueueResultsInv'
    BY <2>1, <2>3 DEF KqueueResultsInv
  <2> QED
    BY <1>0, <1>1, <2>1, <2>2, <2>3, <2>4
<1>5. CASE Kqueue!Abort /\ walk = "next"
  BY <1>5, KqueueAbort DEF Kqueue!Abort
<1>6. CASE Kqueue!NextFound /\ ~Kqueue!Abort
  <2>1. walk = "next" /\ Kqueue!Pending # {}
    BY <1>6 DEF Kqueue!NextFound
  <2>2. PICK i : i = Kqueue!Min(Kqueue!Pending)
    OBVIOUS
  <2>3. i \in Kqueue!Pending /\ \A j \in Kqueue!Pending : i <= j
    <3>1. Kqueue!Pending \in SUBSET Nat
      BY <1>1 DEF Kqueue!Pending
    <3>2. \E m \in Kqueue!Pending : \A j \in Kqueue!Pending : m <= j
      BY <2>1, <3>1, Lowest
    <3> QED
      BY <2>2, <3>2 DEF Kqueue!Min
  <2>4. i \in DOMAIN unread /\ unread[i] \in KqueueError /\ unread[i].ident \in KqueueFds /\ unread[i].filter \in KqueueKinds
    BY <1>1, <2>3 DEF Kqueue!Pending, KqueueError
  <2>5. /\ event' = [source |-> unread[i].ident, events |-> {unread[i].filter}]
        /\ reported' = reported \ {<<unread[i].ident, unread[i].filter>>}
        /\ walk' = "handler"
        /\ unread' = [j \in {k \in DOMAIN unread : k > i} |-> unread[j]]
        /\ UNCHANGED <<requests, fd2req, fds, changes, kernel, open, lost>>
    BY <1>6, <2>2, <2>4 DEF Kqueue!NextFound, Kqueue!mapVars
  <2>6. event' \in [source : KqueueFds, events : SUBSET KqueueKinds]
    BY <2>4, <2>5
  <2>7. /\ DOMAIN unread' = {k \in DOMAIN unread : k > i}
        /\ \A j \in DOMAIN unread' : j \in DOMAIN unread /\ unread'[j] = unread[j]
    BY <2>5
  <2>8. ASSUME NEW b \in reported'
        PROVE  /\ Kqueue!Registered(b[1])'
               /\ \E j \in DOMAIN unread' : unread'[j].ident = b[1] /\ unread'[j].filter = b[2]
    <3>1. b \in reported /\ b # <<unread[i].ident, unread[i].filter>> /\ b = <<b[1], b[2]>>
      BY <1>1, <2>5, <2>8
    <3>2. PICK j \in Kqueue!Pending : unread[j].ident = b[1] /\ unread[j].filter = b[2]
      BY <1>2, <2>1, <3>1
    <3>3. j # i
      BY <3>1, <3>2
    <3>4. j > i /\ j \in DOMAIN unread
      BY <1>1, <2>3, <2>4, <3>2, <3>3 DEF Kqueue!Pending
    <3>5. Kqueue!Registered(b[1])'
      BY <2>1, <2>5, <3>1 DEF KqueueInv, KqueueResultsInv, Kqueue!Registered
    <3> QED
      BY <2>7, <3>2, <3>4, <3>5
  <2>9. KqueueResultsInv'
    BY <1>1, <2>7, <2>8 DEF KqueueResultsInv
  <2> QED
    BY <1>0, <1>1, <2>5, <2>6, <2>7, <2>9
<1>7. Kqueue!NextFound => walk = "next"
  BY DEF Kqueue!NextFound
<1> QED
  BY <1>3, <1>4, <1>5, <1>6, <1>7

\* The kernel follows the masks through every step, and no walk ends early.
LEMMA KqueueKeeps == ASSUME KqueueInv, Kqueue!Next PROVE KqueueInv' /\ (walk = "next" /\ walk' = "idle" => reported' = {})
<1>1. CASE Kqueue!ClientStep
  <2>1. KqueueInv'
    BY <1>1, KqueueOpens, KqueueAttach, KqueueDetach, KqueueMasks, KqueueClear DEF Kqueue!ClientStep
  <2>2. walk # "next"
    BY <1>1 DEF Kqueue!ClientStep, Kqueue!Open, Kqueue!Close, Kqueue!Detach, Kqueue!Attach, Kqueue!SetMask, Kqueue!AndMask,
                Kqueue!OrMask, Kqueue!Clear, Kqueue!Running
  <2> QED
    BY <2>1, <2>2
<1>2. CASE Kqueue!Wait \/ Kqueue!WaitThrows
  <2>1. walk # "next"
    BY <1>2 DEF Kqueue!Wait, Kqueue!WaitThrows, Kqueue!Handed
  <2> QED
    BY <1>2, <2>1, KqueueWaits
<1> QED
  BY <1>1, <1>2, KqueueNext DEF Kqueue!Next

-----------------------------------------------------------------------------
(* IOSelectSig: the ready list.                                            *)

SigItem == [m_next : Int, m_prev : Int, m_mask : SUBSET SigKinds, m_ready : SUBSET SigKinds, m_index : Nat]
SigTable == [fds : [SigFds -> SigItem], readylist : Int, nready : Nat, failed : BOOLEAN]

\* The list of table t goes through the descriptors of c, in this order and back.
Follows(c, i) == IF i = Len(c) THEN c[1] ELSE c[i + 1]
Precedes(c, i) == IF i = 1 THEN c[Len(c)] ELSE c[i - 1]
Ring(t, c) ==
    /\ c \in Seq(SigFds) /\ Len(c) = t.nready
    /\ \A i, j \in 1..Len(c) : c[i] = c[j] => i = j
    /\ t.readylist = IF Len(c) = 0 THEN -1 ELSE c[1]
    /\ \A i \in 1..Len(c) : /\ t.fds[c[i]].m_next = Follows(c, i)
                            /\ t.fds[c[i]].m_prev = Precedes(c, i)
    /\ \A f \in SigFds : (\A i \in 1..Len(c) : c[i] # f) => t.fds[f].m_next < 0 /\ t.fds[f].m_prev < 0

\* Setting one link leaves the rest.
SameItem(i, j) == i.m_mask = j.m_mask /\ i.m_ready = j.m_ready /\ i.m_index = j.m_index
PutNext(G, F, f, x) ==
    /\ G \in [SigFds -> SigItem]
    /\ \A g \in SigFds : /\ G[g].m_next = IF g = f THEN x ELSE F[g].m_next
                         /\ G[g].m_prev = F[g].m_prev
                         /\ SameItem(G[g], F[g])
PutPrev(G, F, f, x) ==
    /\ G \in [SigFds -> SigItem]
    /\ \A g \in SigFds : /\ G[g].m_prev = IF g = f THEN x ELSE F[g].m_prev
                         /\ G[g].m_next = F[g].m_next
                         /\ SameItem(G[g], F[g])

LEMMA LinkSet ==
    ASSUME NEW F \in [SigFds -> SigItem], NEW f \in SigFds, NEW x \in Int
    PROVE  PutNext([F EXCEPT ![f].m_next = x], F, f, x) /\ PutPrev([F EXCEPT ![f].m_prev = x], F, f, x)
<1>1. PutNext([F EXCEPT ![f].m_next = x], F, f, x)
  <2>1. PICK i : i = [F[f] EXCEPT !.m_next = x]
    OBVIOUS
  <2>2. i \in SigItem /\ i.m_next = x /\ i.m_prev = F[f].m_prev /\ SameItem(i, F[f])
    BY <2>1 DEF SigItem, SameItem
  <2>3. PICK G : G = [F EXCEPT ![f] = i]
    OBVIOUS
  <2>4. G \in [SigFds -> SigItem] /\ \A g \in SigFds : G[g] = IF g = f THEN i ELSE F[g]
    BY <2>2, <2>3
  <2>5. PutNext(G, F, f, x)
    BY <2>2, <2>4 DEF PutNext, SameItem
  <2>6. G = [F EXCEPT ![f].m_next = x]
    BY <2>1, <2>3
  <2> QED
    BY <2>5, <2>6
<1>2. PutPrev([F EXCEPT ![f].m_prev = x], F, f, x)
  <2>1. PICK i : i = [F[f] EXCEPT !.m_prev = x]
    OBVIOUS
  <2>2. i \in SigItem /\ i.m_prev = x /\ i.m_next = F[f].m_next /\ SameItem(i, F[f])
    BY <2>1 DEF SigItem, SameItem
  <2>3. PICK G : G = [F EXCEPT ![f] = i]
    OBVIOUS
  <2>4. G \in [SigFds -> SigItem] /\ \A g \in SigFds : G[g] = IF g = f THEN i ELSE F[g]
    BY <2>2, <2>3
  <2>5. PutPrev(G, F, f, x)
    BY <2>2, <2>4 DEF PutPrev, SameItem
  <2>6. G = [F EXCEPT ![f].m_prev = x]
    BY <2>1, <2>3
  <2> QED
    BY <2>5, <2>6
<1> QED
  BY <1>1, <1>2

TheOnly(t, fd) ==
    [t EXCEPT !.nready = 1, !.readylist = fd, !.fds[fd].m_next = fd, !.fds[fd].m_prev = fd]

LEMMA LinkedAlone ==
    ASSUME NEW t \in SigTable, NEW fd \in SigFds, fd \in Int,
           NEW u, u = TheOnly(t, fd)
    PROVE  /\ u \in SigTable /\ u.nready = 1 /\ u.readylist = fd /\ u.failed = t.failed
           /\ \A g \in SigFds : /\ SameItem(u.fds[g], t.fds[g])
                                /\ u.fds[g].m_next = IF g = fd THEN fd ELSE t.fds[g].m_next
                                /\ u.fds[g].m_prev = IF g = fd THEN fd ELSE t.fds[g].m_prev
<1>1. t.fds \in [SigFds -> SigItem]
  BY DEF SigTable
<1>2. PICK A : A = [t.fds EXCEPT ![fd].m_next = fd]
  OBVIOUS
<1>3. PICK B : B = [A EXCEPT ![fd].m_prev = fd]
  OBVIOUS
<1>4. u.fds = B
  BY <1>2, <1>3 DEF SigTable, TheOnly
<1>5. u = [fds |-> B, readylist |-> fd, nready |-> 1, failed |-> t.failed]
  BY <1>4 DEF SigTable, TheOnly
<1>6. PutNext(A, t.fds, fd, fd) /\ A \in [SigFds -> SigItem]
  <2>1. PutNext(A, t.fds, fd, fd)
    BY <1>1, <1>2, LinkSet
  <2> QED
    BY <2>1 DEF PutNext
<1>7. PutPrev(B, A, fd, fd) /\ B \in [SigFds -> SigItem]
  <2>1. PutPrev(B, A, fd, fd)
    BY <1>3, <1>6, LinkSet
  <2> QED
    BY <2>1 DEF PutPrev
<1>8. u \in SigTable /\ u.nready = 1 /\ u.readylist = fd /\ u.failed = t.failed
  BY <1>5, <1>7 DEF SigTable
<1>9. \A g \in SigFds : SameItem(B[g], t.fds[g])
  BY <1>6, <1>7 DEF SameItem, PutNext, PutPrev
<1>10. \A g \in SigFds : /\ B[g].m_next = IF g = fd THEN fd ELSE t.fds[g].m_next
                         /\ B[g].m_prev = IF g = fd THEN fd ELSE t.fds[g].m_prev
  BY <1>6, <1>7 DEF PutNext, PutPrev
<1> QED
  BY <1>4, <1>8, <1>9, <1>10

EndLinks(u, t, fd, first, last) ==
    \A g \in SigFds : /\ SameItem(u.fds[g], t.fds[g])
                      /\ u.fds[g].m_next = IF g = fd THEN first ELSE IF g = last THEN fd ELSE t.fds[g].m_next
                      /\ u.fds[g].m_prev = IF g = fd THEN last ELSE IF g = first THEN fd ELSE t.fds[g].m_prev
AtTheEnd(t, fd, first, last) ==
    [t EXCEPT !.nready = @ + 1, !.fds[fd].m_prev = last, !.fds[fd].m_next = first,
        !.fds[last].m_next = fd, !.fds[first].m_prev = fd]

LEMMA LinkedLast ==
    ASSUME NEW t \in SigTable, NEW fd \in SigFds, NEW first \in SigFds, NEW last \in SigFds, fd # first, fd # last, fd \in Int, first \in Int, last \in Int,
      NEW u, u = AtTheEnd(t, fd, first, last)
    PROVE /\ u \in SigTable /\ u.nready = t.nready + 1 /\ u.readylist = t.readylist /\ u.failed = t.failed
          /\ EndLinks(u, t, fd, first, last)
<1>1. t.fds \in [SigFds -> SigItem] /\ t.nready \in Nat
  BY DEF SigTable
<1>2. PICK A : A = [t.fds EXCEPT ![fd].m_prev = last]
  OBVIOUS
<1>3. PICK B : B = [A EXCEPT ![fd].m_next = first]
  OBVIOUS
<1>4. PICK C : C = [B EXCEPT ![last].m_next = fd]
  OBVIOUS
<1>5. PICK D : D = [C EXCEPT ![first].m_prev = fd]
  OBVIOUS
<1>6. u.fds = D
  BY <1>2, <1>3, <1>4, <1>5 DEF SigTable, AtTheEnd
<1>7. u = [fds |-> D, readylist |-> t.readylist, nready |-> t.nready + 1, failed |-> t.failed]
  BY <1>6 DEF SigTable, AtTheEnd
<1>8. PutPrev(A, t.fds, fd, last) /\ A \in [SigFds -> SigItem]
  <2>1. PutPrev(A, t.fds, fd, last)
    BY <1>1, <1>2, LinkSet
  <2> QED
    BY <2>1 DEF PutPrev
<1>9. PutNext(B, A, fd, first) /\ B \in [SigFds -> SigItem]
  <2>1. PutNext(B, A, fd, first)
    BY <1>3, <1>8, LinkSet
  <2> QED
    BY <2>1 DEF PutNext
<1>10. PutNext(C, B, last, fd) /\ C \in [SigFds -> SigItem]
  <2>1. PutNext(C, B, last, fd)
    BY <1>4, <1>9, LinkSet
  <2> QED
    BY <2>1 DEF PutNext
<1>11. PutPrev(D, C, first, fd) /\ D \in [SigFds -> SigItem]
  <2>1. PutPrev(D, C, first, fd)
    BY <1>5, <1>10, LinkSet
  <2> QED
    BY <2>1 DEF PutPrev
<1>12. u \in SigTable /\ u.nready = t.nready + 1 /\ u.readylist = t.readylist /\ u.failed = t.failed
  BY <1>1, <1>7, <1>11 DEF SigTable
<1>13. \A g \in SigFds : SameItem(D[g], t.fds[g])
  BY <1>8, <1>9, <1>10, <1>11 DEF SameItem, PutNext, PutPrev
<1>14. \A g \in SigFds : D[g].m_next = IF g = fd THEN first ELSE IF g = last THEN fd ELSE t.fds[g].m_next
  BY <1>8, <1>9, <1>10, <1>11 DEF PutNext, PutPrev
<1>15. \A g \in SigFds : D[g].m_prev = IF g = fd THEN last ELSE IF g = first THEN fd ELSE t.fds[g].m_prev
  BY <1>8, <1>9, <1>10, <1>11 DEF PutNext, PutPrev
<1> QED
  BY <1>6, <1>12, <1>13, <1>14, <1>15 DEF EndLinks

WithoutLinks(u, t, fd, none) ==
    \A g \in SigFds : /\ SameItem(u.fds[g], t.fds[g])
                      /\ u.fds[g].m_next = IF g = fd THEN none ELSE t.fds[g].m_next
                      /\ u.fds[g].m_prev = IF g = fd THEN none ELSE t.fds[g].m_prev
Without(t, fd, none) ==
    [t EXCEPT !.nready = @ - 1, !.fds[fd].m_next = none, !.fds[fd].m_prev = none]

LEMMA Unlinked ==
    ASSUME NEW t \in SigTable, NEW fd \in SigFds, NEW none \in Int, t.nready > 0,
           NEW u, u = Without(t, fd, none)
    PROVE  /\ u \in SigTable /\ u.nready = t.nready - 1 /\ u.readylist = t.readylist /\ u.failed = t.failed
           /\ WithoutLinks(u, t, fd, none)
<1>1. t.fds \in [SigFds -> SigItem] /\ t.nready - 1 \in Nat
  BY DEF SigTable
<1>2. PICK A : A = [t.fds EXCEPT ![fd].m_next = none]
  OBVIOUS
<1>3. PICK B : B = [A EXCEPT ![fd].m_prev = none]
  OBVIOUS
<1>4. u.fds = B
  BY <1>2, <1>3 DEF SigTable, Without
<1>5. u = [fds |-> B, readylist |-> t.readylist, nready |-> t.nready - 1, failed |-> t.failed]
  BY <1>4 DEF SigTable, Without
<1>6. PutNext(A, t.fds, fd, none) /\ A \in [SigFds -> SigItem]
  <2>1. PutNext(A, t.fds, fd, none)
    BY <1>1, <1>2, LinkSet
  <2> QED
    BY <2>1 DEF PutNext
<1>7. PutPrev(B, A, fd, none) /\ B \in [SigFds -> SigItem]
  <2>1. PutPrev(B, A, fd, none)
    BY <1>6, <1>3, LinkSet
  <2> QED
    BY <2>1 DEF PutPrev
<1>8. u \in SigTable /\ u.nready = t.nready - 1 /\ u.readylist = t.readylist /\ u.failed = t.failed
  BY <1>1, <1>5, <1>7 DEF SigTable
<1>9. \A g \in SigFds : SameItem(B[g], t.fds[g])
  BY <1>6, <1>7 DEF SameItem, PutNext, PutPrev
<1>10. \A g \in SigFds : B[g].m_next = (IF g = fd THEN none ELSE t.fds[g].m_next) /\ B[g].m_prev = (IF g = fd THEN none ELSE t.fds[g].m_prev)
  BY <1>6, <1>7 DEF PutNext, PutPrev
<1> QED
  BY <1>4, <1>8, <1>9, <1>10 DEF WithoutLinks

AcrossLinks(u, t, prev, next) ==
    \A g \in SigFds : /\ SameItem(u.fds[g], t.fds[g])
                      /\ u.fds[g].m_next = IF g = prev THEN next ELSE t.fds[g].m_next
                      /\ u.fds[g].m_prev = IF g = next THEN prev ELSE t.fds[g].m_prev
Across(t, prev, next, r) ==
    [t EXCEPT !.readylist = r, !.fds[prev].m_next = next, !.fds[next].m_prev = prev]

LEMMA LinkedAcross ==
    ASSUME NEW t \in SigTable, NEW prev \in SigFds, NEW next \in SigFds, NEW r \in Int, prev \in Int, next \in Int,
           NEW u, u = Across(t, prev, next, r)
    PROVE  /\ u \in SigTable /\ u.nready = t.nready /\ u.readylist = r /\ u.failed = t.failed
           /\ AcrossLinks(u, t, prev, next)
<1>1. t.fds \in [SigFds -> SigItem] /\ t.nready \in Nat
  BY DEF SigTable
<1>2. PICK A : A = [t.fds EXCEPT ![prev].m_next = next]
  OBVIOUS
<1>3. PICK B : B = [A EXCEPT ![next].m_prev = prev]
  OBVIOUS
<1>4. u.fds = B
  BY <1>2, <1>3 DEF SigTable, Across
<1>5. u = [fds |-> B, readylist |-> r, nready |-> t.nready, failed |-> t.failed]
  BY <1>4 DEF SigTable, Across
<1>6. PutNext(A, t.fds, prev, next) /\ A \in [SigFds -> SigItem]
  <2>1. PutNext(A, t.fds, prev, next)
    BY <1>1, <1>2, LinkSet
  <2> QED
    BY <2>1 DEF PutNext
<1>7. PutPrev(B, A, next, prev) /\ B \in [SigFds -> SigItem]
  <2>1. PutPrev(B, A, next, prev)
    BY <1>6, <1>3, LinkSet
  <2> QED
    BY <2>1 DEF PutPrev
<1>8. u \in SigTable /\ u.nready = t.nready /\ u.readylist = r /\ u.failed = t.failed
  BY <1>1, <1>5, <1>7 DEF SigTable
<1>9. \A g \in SigFds : SameItem(B[g], t.fds[g])
  BY <1>6, <1>7 DEF SameItem, PutNext, PutPrev
<1>10. \A g \in SigFds : B[g].m_next = (IF g = prev THEN next ELSE t.fds[g].m_next) /\ B[g].m_prev = (IF g = next THEN prev ELSE t.fds[g].m_prev)
  BY <1>6, <1>7 DEF PutNext, PutPrev
<1> QED
  BY <1>4, <1>8, <1>9, <1>10 DEF AcrossLinks

LEMMA RingFacts ==
    ASSUME NEW t \in SigTable, NEW c, Ring(t, c)
    PROVE  /\ Len(c) \in Nat /\ t.nready = Len(c)
           /\ \A i \in 1..Len(c) : c[i] \in SigFds /\ c[i] \in Nat /\ Follows(c, i) \in SigFds /\ Precedes(c, i) \in SigFds
           /\ \A f \in SigFds : Sig!Linked(t, f) <=> \E i \in 1..Len(c) : c[i] = f
<1>1. Len(c) \in Nat /\ t.nready = Len(c) /\ \A i \in 1..Len(c) : c[i] \in SigFds
  BY LenProperties, ElementOfSeq DEF Ring
<1>2. \A i \in 1..Len(c) : Follows(c, i) \in SigFds /\ Precedes(c, i) \in SigFds
  <2> TAKE i \in 1..Len(c)
  <2>1. Follows(c, i) \in SigFds
    <3>1. 1 \in 1..Len(c) /\ (i # Len(c) => i + 1 \in 1..Len(c))
      BY <1>1
    <3> QED
      BY <1>1, <3>1 DEF Follows
  <2>2. Precedes(c, i) \in SigFds
    <3>1. Len(c) \in 1..Len(c) /\ (i # 1 => i - 1 \in 1..Len(c))
      BY <1>1
    <3> QED
      BY <1>1, <3>1 DEF Precedes
  <2> QED
    BY <2>1, <2>2
<1>3. \A f \in SigFds : f \in Nat
  BY MethodsAssumption
<1>4. ASSUME NEW f \in SigFds PROVE Sig!Linked(t, f) <=> \E i \in 1..Len(c) : c[i] = f
  <2>1. CASE \E i \in 1..Len(c) : c[i] = f
    <3>1. PICK i \in 1..Len(c) : c[i] = f
      BY <2>1
    <3>2. t.fds[f].m_next \in SigFds
      BY <1>2, <3>1 DEF Ring
    <3>3. t.fds[f].m_next >= 0
      BY <1>3, <3>2
    <3> QED
      BY <2>1, <3>3 DEF Sig!Linked
  <2>2. CASE ~\E i \in 1..Len(c) : c[i] = f
    <3>1. t.fds[f].m_next < 0 /\ t.fds[f].m_next \in Int
      BY <2>2 DEF Ring, SigTable, SigItem
    <3> QED
      BY <2>2, <3>1 DEF Sig!Linked
  <2> QED
    BY <2>1, <2>2
<1> QED
  BY <1>1, <1>2, <1>3, <1>4

\* addReady puts a descriptor at the end.
LEMMA AddReadyProperties ==
    ASSUME NEW t \in SigTable, NEW c, Ring(t, c), NEW fd \in SigFds, ~Sig!Linked(t, fd), NEW u, u = Sig!addReady(t, fd)
    PROVE  /\ u \in SigTable /\ u.failed = t.failed /\ Ring(u, Append(c, fd))
           /\ \A f \in SigFds : /\ SameItem(u.fds[f], t.fds[f])
                                /\ f # fd => (u.fds[f].m_next = -2 <=> t.fds[f].m_next = -2)
                                /\ Sig!Linked(u, f) <=> Sig!Linked(t, f) \/ f = fd
<1> DEFINE n == Len(c)
           d == Append(c, fd)
<1>1. /\ n \in Nat /\ t.nready = n
      /\ \A i \in 1..n : c[i] \in SigFds /\ c[i] \in Nat /\ Follows(c, i) \in SigFds /\ Precedes(c, i) \in SigFds
      /\ \A f \in SigFds : Sig!Linked(t, f) <=> \E i \in 1..n : c[i] = f
  BY RingFacts
<1>2. /\ c \in Seq(SigFds) /\ t.readylist = (IF n = 0 THEN -1 ELSE c[1])
      /\ \A i \in 1..n : t.fds[c[i]].m_next = Follows(c, i) /\ t.fds[c[i]].m_prev = Precedes(c, i)
      /\ \A f \in SigFds : (\A i \in 1..n : c[i] # f) => t.fds[f].m_next < 0 /\ t.fds[f].m_prev < 0
      /\ \A i, j \in 1..n : c[i] = c[j] => i = j
  BY DEF Ring
<1>3. d \in Seq(SigFds) /\ Len(d) = n + 1 /\ d[n + 1] = fd /\ \A i \in 1..n : d[i] = c[i]
  BY <1>2, AppendProperties
<1> HIDE DEF n, d
<1>4. /\ \A i \in 1..n : c[i] # fd
      /\ t.fds[fd].m_next < 0 /\ t.fds[fd].m_prev < 0 /\ fd \in Nat
  BY <1>1, <1>2, MethodsAssumption
<1>5. \A i, j \in 1..n + 1 : d[i] = d[j] => i = j
  <2> TAKE i, j \in 1..n + 1
  <2>1. (i \in 1..n \/ i = n + 1) /\ (j \in 1..n \/ j = n + 1)
    BY <1>1
  <2> QED
    BY <1>2, <1>3, <1>4, <2>1
<1>6. \A f \in SigFds : (\E i \in 1..n + 1 : d[i] = f) <=> (\E i \in 1..n : c[i] = f) \/ f = fd
  <2> TAKE f \in SigFds
  <2>1. \A i \in 1..n + 1 : i \in 1..n \/ i = n + 1
    BY <1>1
  <2>2. n + 1 \in 1..n + 1 /\ \A i \in 1..n : i \in 1..n + 1
    BY <1>1
  <2> QED
    BY <1>3, <2>1, <2>2
<1>7. ASSUME u \in SigTable, Ring(u, d), u.failed = t.failed,
             \A f \in SigFds : /\ SameItem(u.fds[f], t.fds[f])
                               /\ (\A i \in 1..n + 1 : d[i] # f) => u.fds[f].m_next = t.fds[f].m_next
      PROVE  \A f \in SigFds : /\ f # fd => (u.fds[f].m_next = -2 <=> t.fds[f].m_next = -2)
                               /\ Sig!Linked(u, f) <=> Sig!Linked(t, f) \/ f = fd
  <2> TAKE f \in SigFds
  <2>1. Sig!Linked(u, f) <=> \E i \in 1..n + 1 : d[i] = f
    BY <1>3, <1>7, RingFacts
  <2>2. Sig!Linked(u, f) <=> Sig!Linked(t, f) \/ f = fd
    BY <1>1, <1>6, <2>1
  <2>3. Sig!Linked(u, f) => u.fds[f].m_next # -2
    BY DEF Sig!Linked
  <2>4. Sig!Linked(t, f) => t.fds[f].m_next # -2
    BY DEF Sig!Linked
  <2>5. ~Sig!Linked(u, f) => u.fds[f].m_next = t.fds[f].m_next
    BY <1>7, <2>1
  <2> QED
    BY <2>2, <2>3, <2>4, <2>5
<1>8. CASE n = 0
  <2>1. u = TheOnly(t, fd)
    <3>1. t.nready = 0 /\ t.readylist = -1
      BY <1>1, <1>2, <1>8
    <3>2. (t.nready = 0) = (t.readylist < 0)
      BY <3>1
    <3> QED
      BY <1>4, <3>1, <3>2 DEF Sig!addReady, Sig!Checked, TheOnly
  <2>2. fd \in Int
    BY <1>4
  <2>3. u \in SigTable /\ u.nready = 1 /\ u.readylist = fd /\ u.failed = t.failed
    BY <2>1, <2>2, LinkedAlone
  <2>4. \A g \in SigFds : /\ SameItem(u.fds[g], t.fds[g])
                          /\ u.fds[g].m_next = IF g = fd THEN fd ELSE t.fds[g].m_next
                          /\ u.fds[g].m_prev = IF g = fd THEN fd ELSE t.fds[g].m_prev
    BY <2>1, <2>2, LinkedAlone
  <2>8. Follows(d, 1) = fd /\ Precedes(d, 1) = fd /\ 1..n + 1 = {1}
    BY <1>3, <1>8 DEF Follows, Precedes
  <2>9. Ring(u, d)
    <3>1. \A i \in 1..n + 1 : u.fds[d[i]].m_next = Follows(d, i) /\ u.fds[d[i]].m_prev = Precedes(d, i)
      BY <1>3, <1>8, <2>4, <2>8
    <3>2. \A f \in SigFds : (\A i \in 1..n + 1 : d[i] # f) => u.fds[f].m_next < 0 /\ u.fds[f].m_prev < 0
      BY <1>2, <1>3, <1>8, <2>4, <2>8
    <3>3. Len(d) = u.nready /\ u.readylist = (IF Len(d) = 0 THEN -1 ELSE d[1])
      BY <1>3, <1>8, <2>3
    <3> QED
      BY <1>3, <1>5, <3>1, <3>2, <3>3 DEF Ring
  <2>10. \A f \in SigFds : (\A i \in 1..n + 1 : d[i] # f) => u.fds[f].m_next = t.fds[f].m_next
    BY <1>3, <1>8, <2>4, <2>8
  <2> QED
    BY <1>7, <2>3, <2>4, <2>9, <2>10 DEF d
<1>9. CASE n # 0
  <2> DEFINE first == c[1]
             last == c[n]
  <2>0. 1 \in 1..n /\ n \in 1..n
    BY <1>1, <1>9
  <2>1. /\ first \in SigFds /\ last \in SigFds /\ first # fd /\ last # fd /\ first \in Nat /\ last \in Nat
        /\ t.readylist = first /\ t.fds[first].m_prev = last
    BY <1>1, <1>2, <1>4, <1>9, <2>0 DEF Precedes, n
  <2> HIDE DEF first, last
  <2>2. u = AtTheEnd(t, fd, first, last)
    <3>1. (t.nready = 0) = (t.readylist < 0) /\ t.nready # 0
      BY <1>1, <1>9, <2>1
    <3> QED
      BY <1>4, <2>1, <3>1 DEF Sig!addReady, Sig!Checked, AtTheEnd
  <2>3. first \in Int /\ last \in Int /\ fd \in Int
    BY <1>4, <2>1
  <2>4. u \in SigTable /\ u.nready = t.nready + 1 /\ u.readylist = t.readylist /\ u.failed = t.failed
    BY <2>1, <2>2, <2>3, LinkedLast
  <2>5. \A g \in SigFds : /\ SameItem(u.fds[g], t.fds[g])
                          /\ u.fds[g].m_next = IF g = fd THEN first ELSE IF g = last THEN fd ELSE t.fds[g].m_next
                          /\ u.fds[g].m_prev = IF g = fd THEN last ELSE IF g = first THEN fd ELSE t.fds[g].m_prev
    <3>1. EndLinks(u, t, fd, first, last)
      BY <2>1, <2>2, <2>3, LinkedLast
    <3> QED
      BY <3>1 DEF EndLinks
  <2>9. ASSUME NEW i \in 1..n + 1
        PROVE  u.fds[d[i]].m_next = Follows(d, i) /\ u.fds[d[i]].m_prev = Precedes(d, i)
    <3>1. CASE i = n + 1
      <4>1. d[i] = fd /\ Follows(d, i) = first /\ Precedes(d, i) = last
        BY <1>1, <1>3, <1>9, <2>0, <3>1 DEF Follows, Precedes, first, last
      <4> QED
        BY <2>5, <4>1
    <3>2. CASE i \in 1..n
      <4>1. d[i] = c[i] /\ c[i] \in SigFds /\ c[i] # fd /\ t.fds[c[i]].m_next = Follows(c, i) /\ t.fds[c[i]].m_prev = Precedes(c, i)
        BY <1>1, <1>2, <1>3, <1>4, <3>2
      <4>2. (c[i] = last <=> i = n) /\ (c[i] = first <=> i = 1)
        BY <1>2, <2>0, <3>2 DEF first, last
      <4>3. Follows(d, i) = IF i = n THEN fd ELSE Follows(c, i)
        <5>1. i # n => i + 1 \in 1..n
          BY <1>1, <3>2
        <5> QED
          BY <1>1, <1>3, <3>2, <5>1 DEF Follows, n
      <4>4. Precedes(d, i) = IF i = 1 THEN fd ELSE Precedes(c, i)
        <5>1. i # 1 => i - 1 \in 1..n
          BY <1>1, <3>2
        <5> QED
          BY <1>1, <1>3, <3>2, <5>1 DEF Precedes, n
      <4> QED
        BY <2>5, <4>1, <4>2, <4>3, <4>4
    <3> QED
      BY <1>1, <3>1, <3>2
  <2>10. ASSUME NEW f \in SigFds, \A i \in 1..n + 1 : d[i] # f
         PROVE  f # fd /\ (\A i \in 1..n : c[i] # f) /\ u.fds[f].m_next = t.fds[f].m_next /\ u.fds[f].m_prev = t.fds[f].m_prev
    <3>1. f # fd /\ \A i \in 1..n : c[i] # f
      BY <1>6, <2>10
    <3>2. f # last /\ f # first
      BY <2>0, <3>1 DEF first, last
    <3> QED
      BY <2>5, <3>1, <3>2
  <2>11. Ring(u, d)
    <3>1. Len(d) = u.nready /\ u.readylist = (IF Len(d) = 0 THEN -1 ELSE d[1])
      BY <1>1, <1>3, <2>0, <2>1, <2>4 DEF first
    <3>2. \A f \in SigFds : (\A i \in 1..n + 1 : d[i] # f) => u.fds[f].m_next < 0 /\ u.fds[f].m_prev < 0
      BY <1>2, <2>10
    <3> QED
      BY <1>3, <1>5, <2>9, <3>1, <3>2 DEF Ring
  <2> QED
    BY <1>7, <2>4, <2>5, <2>10, <2>11 DEF d
<1> QED
  BY <1>8, <1>9

\* delReady takes one out, wherever it is.
LEMMA DelReadyProperties ==
    ASSUME NEW t \in SigTable, NEW c, Ring(t, c), NEW k \in 1..Len(c), NEW fd, fd = c[k], NEW u, u = Sig!delReady(t, fd)
    PROVE  /\ u \in SigTable /\ u.failed = t.failed /\ Ring(u, PollMap!RemoveAt(c, k))
           /\ \A f \in SigFds : /\ SameItem(u.fds[f], t.fds[f])
                                /\ u.fds[f].m_next = -2 <=> t.fds[f].m_next = -2
                                /\ Sig!Linked(u, f) <=> Sig!Linked(t, f) /\ f # fd
<1> DEFINE n == Len(c)
           d == PollMap!RemoveAt(c, k)
<1>1. /\ n \in Nat /\ t.nready = n
      /\ \A i \in 1..n : c[i] \in SigFds /\ c[i] \in Nat /\ Follows(c, i) \in SigFds /\ Precedes(c, i) \in SigFds
      /\ \A f \in SigFds : Sig!Linked(t, f) <=> \E i \in 1..n : c[i] = f
  BY RingFacts
<1>2. /\ c \in Seq(SigFds) /\ t.readylist = (IF n = 0 THEN -1 ELSE c[1])
      /\ \A i \in 1..n : t.fds[c[i]].m_next = Follows(c, i) /\ t.fds[c[i]].m_prev = Precedes(c, i)
      /\ \A f \in SigFds : (\A i \in 1..n : c[i] # f) => t.fds[f].m_next < 0 /\ t.fds[f].m_prev < 0
      /\ \A i, j \in 1..n : c[i] = c[j] => i = j
  BY DEF Ring
<1>3. d \in Seq(SigFds) /\ Len(d) = n - 1 /\ \A j \in 1..n - 1 : d[j] = IF j < k THEN c[j] ELSE c[j + 1]
  <2>1. k \in DOMAIN c
    BY <1>2, LenProperties
  <2> QED
    BY <1>2, <2>1, PollMap!RemoveAtProperties, PollMapIsMap
<1>4. k \in 1..n /\ n # 0 /\ fd \in SigFds /\ fd \in Nat
  BY <1>1
<1> HIDE DEF n, d
<1> DEFINE next == Follows(c, k)
           prev == Precedes(c, k)
           at(j) == IF j < k THEN j ELSE j + 1
<1>5. next \in SigFds /\ next \in Nat /\ prev \in SigFds /\ prev \in Nat /\ t.fds[fd].m_next = next /\ t.fds[fd].m_prev = prev
  BY <1>1, <1>2, <1>4, MethodsAssumption
<1>6. \A j \in 1..n - 1 : at(j) \in 1..n /\ at(j) # k /\ d[j] = c[at(j)]
  BY <1>1, <1>3, <1>4
<1>7. \A i \in 1..n : i # k => \E j \in 1..n - 1 : at(j) = i
  <2> TAKE i \in 1..n
  <2> HAVE i # k
  <2>1. CASE i < k
    <3>1. i \in 1..n - 1 /\ at(i) = i
      BY <1>1, <1>4, <2>1
    <3> QED
      BY <3>1
  <2>2. CASE i > k
    <3>1. i - 1 \in 1..n - 1 /\ at(i - 1) = i
      BY <1>1, <1>4, <2>2
    <3> QED
      BY <3>1
  <2> QED
    BY <1>1, <1>4, <2>1, <2>2
<1>8. \A i, j \in 1..n - 1 : at(i) = at(j) => i = j
  BY <1>1, <1>4
<1>9. \A i, j \in 1..n - 1 : d[i] = d[j] => i = j
  BY <1>2, <1>6, <1>8
<1>10. \A f \in SigFds : (\E j \in 1..n - 1 : d[j] = f) <=> (\E i \in 1..n : c[i] = f) /\ f # fd
  <2> TAKE f \in SigFds
  <2>1. ASSUME NEW j \in 1..n - 1, d[j] = f PROVE (\E i \in 1..n : c[i] = f) /\ f # fd
    <3>1. at(j) \in 1..n /\ at(j) # k /\ c[at(j)] = f
      BY <1>6, <2>1
    <3> QED
      BY <1>2, <1>4, <3>1
  <2>2. ASSUME NEW i \in 1..n, c[i] = f, f # fd PROVE \E j \in 1..n - 1 : d[j] = f
    <3>1. i # k
      BY <2>2
    <3>2. PICK j \in 1..n - 1 : at(j) = i
      BY <1>7, <3>1
    <3> QED
      BY <1>6, <2>2, <3>2
  <2> QED
    BY <2>1, <2>2
<1> HIDE DEF at
<1>11. ASSUME u \in SigTable, Ring(u, d), u.failed = t.failed,
              \A f \in SigFds : /\ SameItem(u.fds[f], t.fds[f])
                                /\ (\A i \in 1..n : c[i] # f) => u.fds[f].m_next = t.fds[f].m_next,
              u.fds[fd].m_next = -1
       PROVE  \A f \in SigFds : /\ u.fds[f].m_next = -2 <=> t.fds[f].m_next = -2
                                /\ Sig!Linked(u, f) <=> Sig!Linked(t, f) /\ f # fd
  <2> TAKE f \in SigFds
  <2>1. Sig!Linked(u, f) <=> \E j \in 1..n - 1 : d[j] = f
    BY <1>3, <1>11, RingFacts
  <2>2. Sig!Linked(u, f) <=> Sig!Linked(t, f) /\ f # fd
    BY <1>1, <1>10, <2>1
  <2>3. Sig!Linked(u, f) => u.fds[f].m_next # -2
    BY DEF Sig!Linked
  <2>4. Sig!Linked(t, f) => t.fds[f].m_next # -2
    BY DEF Sig!Linked
  <2>5. ~Sig!Linked(t, f) => u.fds[f].m_next = t.fds[f].m_next
    BY <1>1, <1>11
  <2> QED
    BY <1>11, <2>2, <2>3, <2>4, <2>5
<1>12. CASE n = 1
  <2>1. k = 1 /\ next = fd /\ prev = fd /\ t.readylist = fd /\ t.nready = 1
    BY <1>1, <1>2, <1>4, <1>12 DEF Follows, Precedes, n
  <2>2. PICK v : v = [t EXCEPT !.readylist = -1]
    OBVIOUS
  <2>3. v \in SigTable /\ v.fds = t.fds /\ v.nready = t.nready /\ v.readylist = -1 /\ v.failed = t.failed
    BY <2>2 DEF SigTable
  <2>4. u = Without(v, fd, -1)
    BY <1>5, <2>1, <2>2 DEF Sig!delReady, Sig!Checked, Sig!UNLINKED, Without
  <2>5. PICK none \in Int : none = -1
    OBVIOUS
  <2>6. u = Without(v, fd, none) /\ v.nready > 0
    BY <2>1, <2>3, <2>4, <2>5
  <2>7. u \in SigTable /\ u.nready = v.nready - 1 /\ u.readylist = v.readylist /\ u.failed = v.failed
    BY <1>4, <2>3, <2>6, Unlinked
  <2>8. WithoutLinks(u, v, fd, none)
    BY <1>4, <2>3, <2>6, Unlinked
  <2>9. \A g \in SigFds : /\ SameItem(u.fds[g], t.fds[g])
                          /\ u.fds[g].m_next = IF g = fd THEN -1 ELSE t.fds[g].m_next
                          /\ u.fds[g].m_prev = IF g = fd THEN -1 ELSE t.fds[g].m_prev
    BY <2>3, <2>5, <2>8 DEF WithoutLinks
  <2>10. Ring(u, d)
    <3>1. Len(d) = 0 /\ 1..Len(d) = {} /\ u.nready = 0 /\ u.readylist = -1
      BY <1>3, <1>12, <2>1, <2>3, <2>7
    <3>2. \A f \in SigFds : u.fds[f].m_next < 0 /\ u.fds[f].m_prev < 0
      BY <1>2, <1>4, <1>12, <2>1, <2>9
    <3> QED
      BY <1>3, <3>1, <3>2 DEF Ring
  <2> QED
    BY <1>4, <1>11, <2>3, <2>7, <2>9, <2>10 DEF d
<1>13. CASE n # 1
  <2>0. n > 1
    BY <1>1, <1>4, <1>13
  <2> DEFINE kn == IF k = n THEN 1 ELSE k + 1
             kp == IF k = 1 THEN n ELSE k - 1
  <2>1. /\ kn \in 1..n /\ kp \in 1..n /\ kn # k /\ kp # k /\ next = c[kn] /\ prev = c[kp]
        /\ next # fd /\ prev # fd
    <3>1. kn \in 1..n /\ kp \in 1..n /\ kn # k /\ kp # k
      BY <1>1, <1>4, <2>0
    <3>2. next = c[kn] /\ prev = c[kp]
      BY DEF Follows, Precedes, n
    <3> QED
      BY <1>2, <1>4, <3>1, <3>2
  <2>2. PICK r : r = IF t.readylist = fd THEN next ELSE t.readylist
    OBVIOUS
  <2>3. r \in Int /\ next \in Int /\ prev \in Int
    BY <1>1, <1>2, <1>4, <1>5, <2>2 DEF SigTable
  <2>4. PICK v : v = Across(t, prev, next, r)
    OBVIOUS
  <2>5. u = Without(v, fd, -1)
    <3>1. t.nready > 0 /\ next >= 0 /\ prev >= 0 /\ t.nready # 1
      BY <1>1, <1>5, <2>0
    <3> QED
      BY <1>5, <2>2, <2>4, <3>1 DEF Sig!delReady, Sig!Checked, Sig!UNLINKED, Without, Across
  <2> HIDE DEF next, prev
  <2>6. v \in SigTable /\ v.nready = t.nready /\ v.readylist = r /\ v.failed = t.failed
    BY <1>5, <2>3, <2>4, LinkedAcross
  <2>7. AcrossLinks(v, t, prev, next)
    BY <1>5, <2>3, <2>4, LinkedAcross
  <2>8. PICK none \in Int : none = -1
    OBVIOUS
  <2>9. u = Without(v, fd, none) /\ v.nready > 0
    BY <1>1, <2>0, <2>5, <2>6, <2>8
  <2>10. u \in SigTable /\ u.nready = v.nready - 1 /\ u.readylist = v.readylist /\ u.failed = v.failed
    BY <1>4, <2>6, <2>9, Unlinked
  <2>11. WithoutLinks(u, v, fd, none)
    BY <1>4, <2>6, <2>9, Unlinked
  <2>12. \A g \in SigFds : SameItem(u.fds[g], t.fds[g])
    BY <2>7, <2>11 DEF WithoutLinks, AcrossLinks, SameItem
  <2>13. \A g \in SigFds : u.fds[g].m_next = IF g = fd THEN -1 ELSE IF g = prev THEN next ELSE t.fds[g].m_next
    BY <2>7, <2>8, <2>11 DEF WithoutLinks, AcrossLinks
  <2>14. \A g \in SigFds : u.fds[g].m_prev = IF g = fd THEN -1 ELSE IF g = next THEN prev ELSE t.fds[g].m_prev
    BY <2>7, <2>8, <2>11 DEF WithoutLinks, AcrossLinks
  <2>15. ASSUME NEW j \in 1..n - 1
         PROVE  u.fds[d[j]].m_next = Follows(d, j) /\ u.fds[d[j]].m_prev = Precedes(d, j)
    <3> DEFINE i == at(j)
    <3>1. /\ i \in 1..n /\ i # k /\ d[j] = c[i] /\ c[i] \in SigFds /\ c[i] # fd
          /\ t.fds[c[i]].m_next = Follows(c, i) /\ t.fds[c[i]].m_prev = Precedes(c, i)
      BY <1>1, <1>2, <1>4, <1>6
    <3>2. (c[i] = prev <=> i = kp) /\ (c[i] = next <=> i = kn)
      BY <1>2, <2>1, <3>1
    <3>3. Follows(d, j) = IF i = kp THEN next ELSE Follows(c, i)
      <4> DEFINE s == IF j = n - 1 THEN 1 ELSE j + 1
      <4>1. s \in 1..n - 1 /\ Follows(d, j) = d[s]
        BY <1>1, <1>3, <2>0 DEF Follows
      <4>2. d[s] = c[at(s)]
        BY <1>6, <4>1
      <4>3. CASE i = kp
        <5>1. at(s) = kn
          BY <1>1, <1>4, <2>0, <4>3 DEF at
        <5> QED
          BY <2>1, <4>1, <4>2, <4>3, <5>1
      <4>4. CASE i # kp
        <5>1. at(s) = IF i = n THEN 1 ELSE i + 1
          BY <1>1, <1>4, <2>0, <4>4 DEF at
        <5> QED
          BY <4>1, <4>2, <4>4, <5>1 DEF Follows, n
      <4> QED
        BY <4>3, <4>4
    <3>4. Precedes(d, j) = IF i = kn THEN prev ELSE Precedes(c, i)
      <4> DEFINE s == IF j = 1 THEN n - 1 ELSE j - 1
      <4>1. s \in 1..n - 1 /\ Precedes(d, j) = d[s]
        BY <1>1, <1>3, <2>0 DEF Precedes
      <4>2. d[s] = c[at(s)]
        BY <1>6, <4>1
      <4>3. CASE i = kn
        <5>1. at(s) = kp
          BY <1>1, <1>4, <2>0, <4>3 DEF at
        <5> QED
          BY <2>1, <4>1, <4>2, <4>3, <5>1
      <4>4. CASE i # kn
        <5>1. at(s) = IF i = 1 THEN n ELSE i - 1
          BY <1>1, <1>4, <2>0, <4>4 DEF at
        <5> QED
          BY <4>1, <4>2, <4>4, <5>1 DEF Precedes, n
      <4> QED
        BY <4>3, <4>4
    <3> HIDE DEF i
    <3> QED
      BY <2>13, <2>14, <3>1, <3>2, <3>3, <3>4
  <2>16. \A f \in SigFds : (\A i \in 1..n : c[i] # f) => f # fd /\ f # prev /\ f # next
    BY <1>4, <2>1
  <2>17. Ring(u, d)
    <3>1. Len(d) = u.nready
      BY <1>1, <1>3, <2>6, <2>10
    <3>2. u.readylist = (IF Len(d) = 0 THEN -1 ELSE d[1])
      <4>1. d[1] = c[at(1)] /\ Len(d) # 0 /\ at(1) = IF k = 1 THEN 2 ELSE 1
        BY <1>1, <1>3, <1>4, <1>6, <2>0 DEF at
      <4>2. t.readylist = c[1] /\ (c[1] = fd <=> k = 1)
        BY <1>1, <1>2, <1>4
      <4>3. k = 1 => kn = 2
        BY <2>0
      <4> QED
        BY <2>1, <2>2, <2>6, <2>10, <4>1, <4>2, <4>3
    <3>3. \A f \in SigFds : (\A j \in 1..n - 1 : d[j] # f) => u.fds[f].m_next < 0 /\ u.fds[f].m_prev < 0
      <4> SUFFICES ASSUME NEW f \in SigFds, \A j \in 1..n - 1 : d[j] # f PROVE u.fds[f].m_next < 0 /\ u.fds[f].m_prev < 0
        OBVIOUS
      <4>1. CASE f = fd
        BY <2>13, <2>14, <4>1
      <4>2. CASE f # fd
        <5>1. \A i \in 1..n : c[i] # f
          BY <1>10, <4>2
        <5> QED
          BY <1>2, <2>13, <2>14, <2>16, <5>1
      <4> QED
        BY <4>1, <4>2
    <3> QED
      BY <1>3, <1>9, <2>15, <3>1, <3>2, <3>3 DEF Ring
  <2>18. \A f \in SigFds : (\A i \in 1..n : c[i] # f) => u.fds[f].m_next = t.fds[f].m_next
    BY <2>13, <2>16
  <2>19. u.fds[fd].m_next = -1
    BY <1>4, <2>13
  <2> QED
    BY <1>11, <2>6, <2>10, <2>12, <2>17, <2>18, <2>19 DEF d
<1> QED
  BY <1>12, <1>13

\* A table in use.
TableOK(t) == t \in SigTable /\ ~t.failed /\ \E c : Ring(t, c)
SameNews(u, t, f) == SameItem(u.fds[f], t.fds[f]) /\ (u.fds[f].m_next = -2 <=> t.fds[f].m_next = -2)

\* updateReady has a descriptor on the list just when something it wants is ready.
Updated(u, t, fd) ==
    /\ TableOK(u)
    /\ \A f \in SigFds : SameNews(u, t, f) /\ (f # fd => (Sig!Linked(u, f) <=> Sig!Linked(t, f)))
    /\ Sig!Linked(u, fd) <=> t.fds[fd].m_ready \cap t.fds[fd].m_mask # {}

LEMMA UpdateReadyProperties ==
    ASSUME NEW t, TableOK(t), NEW fd \in SigFds, t.fds[fd].m_next # -2, NEW u, u = Sig!updateReady(t, fd)
    PROVE  Updated(u, t, fd)
<1> DEFINE wanted == t.fds[fd].m_ready \cap t.fds[fd].m_mask # {}
<1>1. t \in SigTable /\ ~t.failed
  BY DEF TableOK
<1>2. PICK c : Ring(t, c)
  BY DEF TableOK
<1>3. CASE Sig!Linked(t, fd) /\ ~wanted
  <2>1. PICK k \in 1..Len(c) : c[k] = fd
    BY <1>1, <1>2, <1>3, RingFacts
  <2>2. u = Sig!delReady(t, fd) /\ fd = c[k]
    BY <1>3, <2>1 DEF Sig!updateReady
  <2>3. /\ u \in SigTable /\ u.failed = t.failed /\ Ring(u, PollMap!RemoveAt(c, k))
        /\ \A f \in SigFds : /\ SameItem(u.fds[f], t.fds[f])
                             /\ u.fds[f].m_next = -2 <=> t.fds[f].m_next = -2
                             /\ Sig!Linked(u, f) <=> Sig!Linked(t, f) /\ f # fd
    BY <1>1, <1>2, <2>2, DelReadyProperties
  <2>4. TableOK(u)
    BY <1>1, <2>3 DEF TableOK
  <2> QED
    BY <1>3, <2>3, <2>4 DEF Updated, SameNews
<1>4. CASE ~Sig!Linked(t, fd) /\ wanted
  <2>1. u = Sig!addReady(t, fd)
    BY <1>4 DEF Sig!updateReady
  <2>2. /\ u \in SigTable /\ u.failed = t.failed /\ Ring(u, Append(c, fd))
        /\ \A f \in SigFds : /\ SameItem(u.fds[f], t.fds[f])
                             /\ f # fd => (u.fds[f].m_next = -2 <=> t.fds[f].m_next = -2)
                             /\ Sig!Linked(u, f) <=> Sig!Linked(t, f) \/ f = fd
    BY <1>1, <1>2, <1>4, <2>1, AddReadyProperties
  <2>3. TableOK(u)
    BY <1>1, <2>2 DEF TableOK
  <2>4. Sig!Linked(u, fd) /\ u.fds[fd].m_next # -2
    <3>1. Sig!Linked(u, fd)
      BY <2>2
    <3> QED
      BY <3>1 DEF Sig!Linked
  <2> QED
    BY <1>4, <2>2, <2>3, <2>4 DEF Updated, SameNews
<1>5. CASE Sig!Linked(t, fd) <=> wanted
  <2>1. u = t
    BY <1>5 DEF Sig!updateReady
  <2> QED
    BY <1>5, <2>1 DEF Updated, SameNews, SameItem
<1> QED
  BY <1>3, <1>4, <1>5

\* An item may change beside its links; off the list, these may too.
WithItem(t, fd, item) == [t EXCEPT !.fds[fd] = item]
PutItem(u, t, c, fd, item) ==
    /\ u \in SigTable /\ u.failed = t.failed /\ Ring(u, c)
    /\ \A f \in SigFds : /\ u.fds[f] = IF f = fd THEN item ELSE t.fds[f]
                         /\ Sig!Linked(u, f) <=> Sig!Linked(t, f)

LEMMA ItemSet ==
    ASSUME NEW t \in SigTable, NEW c, Ring(t, c), NEW fd \in SigFds, NEW item \in SigItem,
           \/ item.m_next = t.fds[fd].m_next /\ item.m_prev = t.fds[fd].m_prev
           \/ ~Sig!Linked(t, fd) /\ item.m_next < 0 /\ item.m_prev < 0,
           NEW u, u = WithItem(t, fd, item)
    PROVE  PutItem(u, t, c, fd, item)
<1>1. t.fds \in [SigFds -> SigItem]
  BY DEF SigTable
<1>2. PICK G : G = [t.fds EXCEPT ![fd] = item]
  OBVIOUS
<1>3. G \in [SigFds -> SigItem] /\ \A f \in SigFds : G[f] = IF f = fd THEN item ELSE t.fds[f]
  BY <1>1, <1>2
<1>4. u = [fds |-> G, readylist |-> t.readylist, nready |-> t.nready, failed |-> t.failed]
  BY <1>2 DEF SigTable, WithItem
<1>5. u \in SigTable /\ u.failed = t.failed /\ u.fds = G /\ u.nready = t.nready /\ u.readylist = t.readylist
  BY <1>3, <1>4 DEF SigTable
<1>6. /\ \A i \in 1..Len(c) : c[i] \in SigFds
      /\ \A f \in SigFds : Sig!Linked(t, f) <=> \E i \in 1..Len(c) : c[i] = f
  BY RingFacts
<1>7. Ring(u, c)
  <2>1. \A i \in 1..Len(c) : u.fds[c[i]].m_next = Follows(c, i) /\ u.fds[c[i]].m_prev = Precedes(c, i)
    <3> TAKE i \in 1..Len(c)
    <3>1. t.fds[c[i]].m_next = Follows(c, i) /\ t.fds[c[i]].m_prev = Precedes(c, i) /\ Sig!Linked(t, c[i])
      BY <1>6 DEF Ring
    <3> QED
      BY <1>3, <1>5, <1>6, <3>1
  <2>2. \A f \in SigFds : (\A i \in 1..Len(c) : c[i] # f) => u.fds[f].m_next < 0 /\ u.fds[f].m_prev < 0
    BY <1>3, <1>5 DEF Ring
  <2> QED
    BY <1>5, <2>1, <2>2 DEF Ring
<1>8. \A f \in SigFds : Sig!Linked(u, f) <=> Sig!Linked(t, f)
  BY <1>5, <1>6, <1>7, RingFacts
<1> QED
  BY <1>3, <1>5, <1>7, <1>8 DEF PutItem

\* A failed ASSERT leaves the rest of the table.
Failing(t, x) == [t EXCEPT !.failed = @ \/ x]

LEMMA FailedSet ==
    ASSUME NEW t \in SigTable, NEW x \in BOOLEAN, NEW u, u = Failing(t, x)
    PROVE  /\ u \in SigTable /\ (u.failed <=> t.failed \/ x)
           /\ u.fds = t.fds /\ u.nready = t.nready /\ u.readylist = t.readylist
<1>1. u = [fds |-> t.fds, readylist |-> t.readylist, nready |-> t.nready, failed |-> t.failed \/ x]
  BY DEF SigTable, Failing
<1>2. (t.failed \/ x) \in BOOLEAN
  OBVIOUS
<1>3. PICK b \in BOOLEAN : b = (t.failed \/ x)
  BY <1>2
<1>4. u = [fds |-> t.fds, readylist |-> t.readylist, nready |-> t.nready, failed |-> b]
  BY <1>1, <1>3
<1>5. u \in SigTable /\ u.failed = b /\ u.fds = t.fds /\ u.nready = t.nready /\ u.readylist = t.readylist
  BY <1>4 DEF SigTable
<1> QED
  BY <1>3, <1>5

\* News and the mask of one descriptor.
Told(t, fd, ready) == [t EXCEPT !.fds[fd].m_ready = ready]
Masked(t, fd, mask) == [t EXCEPT !.fds[fd].m_mask = mask]
ItemSays(u, t, fd, mask, ready) ==
    /\ TableOK(u)
    /\ u.fds[fd].m_mask = mask /\ u.fds[fd].m_ready = ready /\ u.fds[fd].m_next = t.fds[fd].m_next
    /\ \A f \in SigFds : f # fd => u.fds[f] = t.fds[f]
    /\ \A f \in SigFds : Sig!Linked(u, f) <=> Sig!Linked(t, f)

LEMMA ItemTold ==
    ASSUME NEW t, TableOK(t), NEW fd \in SigFds, NEW ready \in SUBSET SigKinds
    PROVE  /\ ItemSays(Told(t, fd, ready), t, fd, t.fds[fd].m_mask, ready)
           /\ ItemSays(Masked(t, fd, ready), t, fd, ready, t.fds[fd].m_ready)
<1>1. t \in SigTable /\ ~t.failed /\ t.fds[fd] \in SigItem
  BY DEF TableOK, SigTable
<1>2. PICK c : Ring(t, c)
  BY DEF TableOK
<1>3. ASSUME NEW item \in SigItem, item.m_next = t.fds[fd].m_next, item.m_prev = t.fds[fd].m_prev,
             NEW u, u = WithItem(t, fd, item)
      PROVE  ItemSays(u, t, fd, item.m_mask, item.m_ready)
  <2>1. PutItem(u, t, c, fd, item)
    BY <1>1, <1>2, <1>3, ItemSet
  <2> QED
    BY <1>1, <1>3, <2>1 DEF PutItem, ItemSays, TableOK
<1>4. ItemSays(Told(t, fd, ready), t, fd, t.fds[fd].m_mask, ready)
  <2>1. PICK item : item = [t.fds[fd] EXCEPT !.m_ready = ready]
    OBVIOUS
  <2>2. item \in SigItem /\ item.m_next = t.fds[fd].m_next /\ item.m_prev = t.fds[fd].m_prev
        /\ item.m_mask = t.fds[fd].m_mask /\ item.m_ready = ready
    BY <1>1, <2>1 DEF SigItem
  <2>3. Told(t, fd, ready) = WithItem(t, fd, item)
    BY <1>1, <2>1 DEF SigTable, Told, WithItem
  <2> QED
    BY <1>3, <2>2, <2>3
<1>5. ItemSays(Masked(t, fd, ready), t, fd, ready, t.fds[fd].m_ready)
  <2>1. PICK item : item = [t.fds[fd] EXCEPT !.m_mask = ready]
    OBVIOUS
  <2>2. item \in SigItem /\ item.m_next = t.fds[fd].m_next /\ item.m_prev = t.fds[fd].m_prev
        /\ item.m_mask = ready /\ item.m_ready = t.fds[fd].m_ready
    BY <1>1, <2>1 DEF SigItem
  <2>3. Masked(t, fd, ready) = WithItem(t, fd, item)
    BY <1>1, <2>1 DEF SigTable, Masked, WithItem
  <2> QED
    BY <1>3, <2>2, <2>3
<1> QED
  BY <1>4, <1>5

\* Whoever goes round from the first of the list comes to all of it.
LEMMA RingIsWhole == ASSUME TableOK(table) PROVE Sig!ListWhole
<1>1. table \in SigTable /\ ~table.failed
  BY DEF TableOK
<1>2. PICK c : Ring(table, c)
  BY DEF TableOK
<1> DEFINE n == Len(c)
           linked == {fd \in SigFds : Sig!Linked(table, fd)}
<1>3. /\ n \in Nat /\ table.nready = n
      /\ \A i \in 1..n : c[i] \in SigFds /\ c[i] \in Nat /\ Follows(c, i) \in SigFds /\ Precedes(c, i) \in SigFds
      /\ \A f \in SigFds : Sig!Linked(table, f) <=> \E i \in 1..n : c[i] = f
  BY <1>1, <1>2, RingFacts
<1>4. /\ c \in Seq(SigFds) /\ table.readylist = (IF n = 0 THEN -1 ELSE c[1])
      /\ \A i \in 1..n : table.fds[c[i]].m_next = Follows(c, i) /\ table.fds[c[i]].m_prev = Precedes(c, i)
      /\ \A i, j \in 1..n : c[i] = c[j] => i = j
  BY <1>2 DEF Ring
<1>5. linked = {c[i] : i \in 1..n}
  BY <1>3
<1> HIDE DEF n, linked
<1>6. IsFiniteSet(linked) /\ Cardinality(linked) = n
  <2>1. linked \subseteq SigFds
    BY DEF linked
  <2>2. IsFiniteSet(linked)
    BY <2>1, MethodsAssumption, FS_Subset
  <2>3. IsFiniteSet(1..n) /\ Cardinality(1..n) = n
    <3>1. 1 \in Int /\ n \in Int
      BY <1>3
    <3>2. IsFiniteSet(1..n) /\ Cardinality(1..n) = IF 1 > n THEN 0 ELSE n - 1 + 1
      BY <3>1, FS_Interval
    <3> QED
      BY <1>3, <3>2
  <2>4. PICK g : g = [i \in 1..n |-> c[i]]
    OBVIOUS
  <2>5. g \in Injection(1..n, linked) /\ g \in Surjection(1..n, linked)
    BY <1>4, <1>5, <2>4 DEF Injection, IsInjective, Surjection
  <2>6. Cardinality(1..n) = Cardinality(linked) <=> g \in Surjection(1..n, linked)
    BY <2>2, <2>3, <2>5, FS_Injection
  <2> QED
    BY <2>2, <2>3, <2>5, <2>6
<1>7. n = 0 <=> table.readylist = -1
  <2>1. n # 0 => 1 \in 1..n
    BY <1>3
  <2> QED
    BY <1>3, <1>4, <2>1
<1>8. \A fd \in linked : /\ table.fds[table.fds[fd].m_next].m_prev = fd
                         /\ table.fds[table.fds[fd].m_prev].m_next = fd
  <2> TAKE fd \in linked
  <2>1. PICK i \in 1..n : c[i] = fd
    BY <1>5
  <2>2. table.fds[fd].m_next = Follows(c, i) /\ table.fds[fd].m_prev = Precedes(c, i)
    BY <1>4, <2>1
  <2>3. table.fds[Follows(c, i)].m_prev = fd
    <3> DEFINE j == IF i = n THEN 1 ELSE i + 1
    <3>1. j \in 1..n /\ Follows(c, i) = c[j]
      BY <1>3 DEF Follows, n
    <3>2. Precedes(c, j) = c[i]
      BY <1>3 DEF Precedes, n
    <3> QED
      BY <1>4, <2>1, <3>1, <3>2
  <2>4. table.fds[Precedes(c, i)].m_next = fd
    <3> DEFINE j == IF i = 1 THEN n ELSE i - 1
    <3>1. j \in 1..n /\ Precedes(c, i) = c[j]
      BY <1>3 DEF Precedes, n
    <3>2. Follows(c, j) = c[i]
      BY <1>3 DEF Follows, n
    <3> QED
      BY <1>4, <2>1, <3>1, <3>2
  <2> QED
    BY <2>2, <2>3, <2>4
<1>9. ASSUME NEW some \in SUBSET linked, table.readylist \in some, \A fd \in some : table.fds[fd].m_next \in some
      PROVE  some = linked
  <2> DEFINE left == {i \in 1..n : c[i] \notin some}
  <2>1. SUFFICES ASSUME left # {} PROVE FALSE
    <3>1. left = {} => \A fd \in linked : fd \in some
      BY <1>5
    <3> QED
      BY <3>1
  <2>2. left \in SUBSET Nat
    BY <1>3
  <2>3. PICK m \in left : \A i \in left : m <= i
    BY <2>1, <2>2, Lowest
  <2>4. m \in 1..n /\ c[m] \notin some /\ n # 0
    BY <1>3, <2>3
  <2>5. m # 1
    BY <1>4, <1>9, <2>4
  <2>6. m - 1 \in 1..n /\ m - 1 # n /\ m - 1 + 1 = m /\ ~(m <= m - 1)
    BY <1>3, <2>4, <2>5
  <2>7. c[m - 1] \in some
    BY <2>3, <2>6
  <2>8. table.fds[c[m - 1]].m_next = c[m]
    <3>1. Follows(c, m - 1) = c[m]
      BY <2>6 DEF Follows, n
    <3> QED
      BY <1>4, <2>6, <3>1
  <2> QED
    BY <1>9, <2>4, <2>7, <2>8
<1>10. linked # {} => table.readylist \in linked
  <2>1. linked # {} => 1 \in 1..n /\ n # 0
    BY <1>3, <1>5
  <2> QED
    BY <1>4, <1>5, <2>1
<1>11. Sig!Cardinality(linked) = Cardinality(linked)
  BY DEF Sig!Cardinality, Cardinality
<1>12. Sig!UNLINKED = -1
  BY DEF Sig!UNLINKED
<1> QED
  BY <1>3, <1>6, <1>7, <1>8, <1>9, <1>10, <1>11, <1>12 DEF Sig!ListWhole, linked

-----------------------------------------------------------------------------
(* IOSelectSig: the invariant.                                             *)

SigRequest == [fd : SigFds, mask : SUBSET SigKinds]
SigSignal == [fd : SigFds, band : SUBSET SigKinds]

SigTypes ==
    /\ requests \in Seq(SigRequest) /\ fallback \in Seq(SigFds) /\ queue \in Seq(SigSignal)
    /\ sigio \in BOOLEAN /\ level \in [SigFds -> SUBSET SigKinds] /\ revents \in [SigFds -> SUBSET SigKinds]
    /\ \/ walk = "handler" /\ event \in [source : SigFds, events : SUBSET SigKinds]
       \/ walk \in {"idle", "polling", "next"} /\ event = Sig!NoEvent

\* Each request has its item, and no other request has it.
SigRequestsInv ==
    /\ \A i \in 1..Len(requests) : /\ table.fds[requests[i].fd].m_next # -2
                                   /\ table.fds[requests[i].fd].m_mask = requests[i].mask
    /\ \A i, j \in 1..Len(requests) : requests[i].fd = requests[j].fd => i = j

\* What is ready is known or announced, and what of it is wanted is on the list,
\* or announced again, or being handled.
SigAnnounced(fd, kind) == sigio \/ \E i \in 1..Len(queue) : queue[i].fd = fd /\ kind \in queue[i].band
SigKnows(fd) ==
    table.fds[fd].m_next # -2 =>
        \A kind \in level[fd] :
            /\ kind \in table.fds[fd].m_ready \/ SigAnnounced(fd, kind)
            /\ kind \in table.fds[fd].m_ready \cap table.fds[fd].m_mask =>
                   \/ Sig!Linked(table, fd) \/ SigAnnounced(fd, kind)
                   \/ fd = event.source /\ kind \in event.events

\* The fallback follows what is attached, and saw what no signal announces.
SigFollowed(fd) == \E i \in 1..Len(fallback) : fallback[i] = fd
SigAsked(fd) ==
    table.fds[fd].m_next # -2 =>
        /\ SigFollowed(fd)
        /\ walk = "polling" => \A kind \in level[fd] : kind \in revents[fd] \/ SigAnnounced(fd, kind)

SigLive ==
    /\ SigTypes
    /\ TableOK(table)
    /\ SigRequestsInv
    /\ walk = "polling" \/ \A fd \in SigFds : SigKnows(fd)
    /\ \A fd \in SigFds : SigAsked(fd)

\* After a failed ASSERT nothing happens.
SigInv == SigLive \/ (walk = "failed" /\ table.failed)

LEMMA SigInvSays == ASSUME SigInv PROVE Sig!ListWhole /\ Sig!NothingMissed
<1>1. CASE SigLive
  <2>1. Sig!ListWhole
    BY <1>1, RingIsWhole DEF SigLive
  <2>2. ASSUME walk # "polling", NEW fd \in SigFds, NEW kind \in SigKinds, table.fds[fd].m_next # -2,
               kind \in level[fd] \cap table.fds[fd].m_mask, fd # event.source
        PROVE  \/ Sig!Linked(table, fd) /\ kind \in table.fds[fd].m_ready
               \/ \E i \in DOMAIN queue : queue[i].fd = fd /\ kind \in queue[i].band
               \/ sigio
    <3>1. SigKnows(fd)
      BY <1>1, <2>2 DEF SigLive
    <3>2. DOMAIN queue = 1..Len(queue)
      BY <1>1, LenProperties DEF SigLive, SigTypes
    <3>3. SigAnnounced(fd, kind) => (\E i \in DOMAIN queue : queue[i].fd = fd /\ kind \in queue[i].band) \/ sigio
      BY <3>2 DEF SigAnnounced
    <3> QED
      BY <2>2, <3>1, <3>3 DEF SigKnows
  <2>3. Sig!NothingMissed
    BY <1>1, <2>2 DEF Sig!NothingMissed, Sig!UNUSED, SigLive, SigTypes
  <2> QED
    BY <2>1, <2>3
<1>2. CASE walk = "failed" /\ table.failed
  BY <1>2 DEF Sig!ListWhole, Sig!NothingMissed
<1> QED
  BY <1>1, <1>2 DEF SigInv

LEMMA NewTableOK == TableOK(Sig!NewTable) /\ \A fd \in SigFds : Sig!NewTable.fds[fd].m_next = -2
<1>1. PICK item : item = Sig!Unused
  OBVIOUS
<1>2. item \in SigItem /\ item.m_next = -2 /\ item.m_prev = -2
  BY <1>1 DEF Sig!Unused, Sig!UNUSED, SigItem
<1>3. PICK G : G = [fd \in SigFds |-> item]
  OBVIOUS
<1>4. G \in [SigFds -> SigItem] /\ \A fd \in SigFds : G[fd] = item
  BY <1>2, <1>3
<1>5. PICK t : t = [fds |-> G, readylist |-> -1, nready |-> 0, failed |-> FALSE]
  OBVIOUS
<1>6. t = Sig!NewTable
  BY <1>1, <1>3, <1>5 DEF Sig!NewTable, Sig!UNLINKED
<1>7. t \in SigTable /\ ~t.failed /\ t.fds = G /\ t.nready = 0 /\ t.readylist = -1
  BY <1>4, <1>5 DEF SigTable
<1>8. PICK c : c = <<>>
  OBVIOUS
<1>9. c \in Seq(SigFds) /\ Len(c) = 0 /\ 1..Len(c) = {}
  BY <1>8
<1>10. Ring(t, c)
  BY <1>2, <1>4, <1>7, <1>9 DEF Ring
<1>11. TableOK(t) /\ \A fd \in SigFds : t.fds[fd].m_next = -2
  BY <1>2, <1>4, <1>7, <1>10 DEF TableOK
<1> QED
  BY <1>6, <1>11

LEMMA SigStarts == ASSUME Sig!Init PROVE SigInv
<1>1. TableOK(table) /\ (\A fd \in SigFds : table.fds[fd].m_next = -2)
  BY NewTableOK DEF Sig!Init
<1>2. requests = <<>> /\ Len(requests) = 0 /\ 1..Len(requests) = {}
  BY DEF Sig!Init
<1>3. SigRequestsInv
  BY <1>2 DEF SigRequestsInv
<1>4. SigTypes
  <2>1. level \in [SigFds -> SUBSET SigKinds] /\ revents \in [SigFds -> SUBSET SigKinds]
    BY DEF Sig!Init, Sig!Quiet
  <2>2. requests \in Seq(SigRequest) /\ fallback \in Seq(SigFds) /\ queue \in Seq(SigSignal)
    BY DEF Sig!Init
  <2> QED
    BY <2>1, <2>2 DEF SigTypes, Sig!Init
<1>5. \A fd \in SigFds : SigKnows(fd) /\ SigAsked(fd)
  BY <1>1 DEF SigKnows, SigAsked
<1> QED
  BY <1>1, <1>3, <1>4, <1>5 DEF SigInv, SigLive

LEMMA RingSame ==
    ASSUME NEW t, NEW u, u.fds = t.fds, u.nready = t.nready, u.readylist = t.readylist, NEW c, Ring(t, c)
    PROVE  Ring(u, c)
BY DEF Ring

\* Requests, in the words the proofs need.
LEMMA SigRequestFacts ==
    ASSUME SigLive
    PROVE  /\ Len(requests) \in Nat /\ DOMAIN requests = 1..Len(requests)
           /\ \A i \in 1..Len(requests) : /\ requests[i] \in SigRequest
                                          /\ requests[i].fd \in SigFds /\ requests[i].mask \in SUBSET SigKinds
<1>1. requests \in Seq(SigRequest)
  BY DEF SigLive, SigTypes
<1>2. \A i \in 1..Len(requests) : requests[i] \in SigRequest
  BY <1>1, ElementOfSeq
<1> QED
  BY <1>1, <1>2, LenProperties DEF SigRequest

\* Where no loop over the fallback begins and nothing is attached, all stay known
\* to it.
LEMMA SigAskedSame ==
    ASSUME SigLive, fallback' = fallback, walk' # "polling",
           \A f \in SigFds : table.fds[f].m_next = -2 => table'.fds[f].m_next = -2
    PROVE  \A f \in SigFds : SigAsked(f)'
BY DEF SigLive, SigAsked, SigFollowed

LEMMA SigFails == ASSUME NEW t, Sig!Becomes(t), t.failed PROVE SigInv'
BY DEF Sig!Becomes, SigInv

\* What is attached is on the list.
LEMMA SigAttach ==
    ASSUME SigLive, NEW fd \in SigFds, NEW mask \in SUBSET SigKinds, Sig!Attach(fd, mask)
    PROVE  SigInv'
<1>1. /\ table.fds[fd].m_next = -2 /\ walk \in {"idle", "handler"}
      /\ fallback' = Append(fallback, fd) /\ requests' = Append(requests, [fd |-> fd, mask |-> mask])
      /\ UNCHANGED <<revents, queue, sigio, event>>
  BY DEF Sig!Attach, Sig!Running, Sig!UNUSED, Sig!polled
<1>2. PICK ready \in SUBSET SigKinds : level' = [level EXCEPT ![fd] = level[fd] \cup ready]
  BY DEF Sig!Attach
<1>3. /\ level' \in [SigFds -> SUBSET SigKinds] /\ level'[fd] \in SUBSET SigKinds
      /\ \A f \in SigFds : f # fd => level'[f] = level[f]
  BY <1>2 DEF SigLive, SigTypes
<1>4. Len(requests) \in Nat /\ \A i \in 1..Len(requests) : requests[i].fd \in SigFds /\ requests[i].fd # fd
  BY <1>1, SigRequestFacts DEF SigLive, SigRequestsInv
<1>5. PICK item : item = [Sig!Unused EXCEPT !.m_next = -1, !.m_mask = mask, !.m_ready = level'[fd],
                                            !.m_index = Len(requests) + 1]
  OBVIOUS
<1>6. item \in SigItem /\ item.m_next = -1 /\ item.m_prev = -2 /\ item.m_mask = mask /\ item.m_ready = level'[fd]
  <2>1. item = [m_next |-> -1, m_prev |-> -2, m_mask |-> mask, m_ready |-> level'[fd], m_index |-> Len(requests) + 1]
    BY <1>5 DEF Sig!Unused, Sig!UNUSED
  <2>2. Len(requests) + 1 \in Nat
    BY <1>4
  <2> QED
    BY <1>3, <2>1, <2>2 DEF SigItem
<1>7. PICK a : a = WithItem(table, fd, item)
  OBVIOUS
<1>8. PICK b : b = Sig!addReady(a, fd)
  OBVIOUS
<1>9. PICK x \in BOOLEAN : x = ~Sig!FallbackTakes(fd)
  OBVIOUS
<1>10. PICK t : t = Failing(b, x)
  OBVIOUS
<1>11. Sig!Becomes(t)
  <2>1. /\ WithItem(table, fd, item)
           = [table EXCEPT !.fds[fd] = [Sig!Unused EXCEPT !.m_next = -1, !.m_mask = mask, !.m_ready = level'[fd],
                                                          !.m_index = Len(requests) + 1]]
        /\ t = [b EXCEPT !.failed = @ \/ ~Sig!FallbackTakes(fd)]
    BY <1>5, <1>9, <1>10 DEF WithItem, Failing
  <2> QED
    BY <1>7, <1>8, <2>1 DEF Sig!Attach, Sig!UNLINKED
<1>12. PICK c : Ring(table, c)
  BY DEF SigLive, TableOK
<1>13. table \in SigTable /\ ~table.failed /\ ~Sig!Linked(table, fd)
  BY <1>1 DEF SigLive, TableOK, Sig!Linked
<1>14. PutItem(a, table, c, fd, item)
  BY <1>6, <1>7, <1>12, <1>13, ItemSet
<1>15. a \in SigTable /\ ~a.failed /\ Ring(a, c) /\ ~Sig!Linked(a, fd)
       /\ \A f \in SigFds : /\ a.fds[f] = IF f = fd THEN item ELSE table.fds[f]
                            /\ Sig!Linked(a, f) <=> Sig!Linked(table, f)
  BY <1>13, <1>14 DEF PutItem
<1>16. /\ b \in SigTable /\ b.failed = a.failed /\ Ring(b, Append(c, fd))
       /\ \A f \in SigFds : /\ SameItem(b.fds[f], a.fds[f])
                            /\ f # fd => (b.fds[f].m_next = -2 <=> a.fds[f].m_next = -2)
                            /\ Sig!Linked(b, f) <=> Sig!Linked(a, f) \/ f = fd
  BY <1>8, <1>15, AddReadyProperties
<1>17. t \in SigTable /\ (t.failed <=> b.failed \/ x) /\ t.fds = b.fds /\ t.nready = b.nready /\ t.readylist = b.readylist
  BY <1>10, <1>16, FailedSet
<1>18. CASE t.failed
  BY <1>11, <1>18, SigFails
<1>19. CASE ~t.failed
  <2>1. table' = t /\ walk' = walk
    BY <1>11, <1>19 DEF Sig!Becomes
  <2>2. TableOK(table')
    <3>1. Ring(t, Append(c, fd))
      BY <1>16, <1>17, RingSame
    <3> QED
      BY <1>17, <1>19, <2>1, <3>1 DEF TableOK
  <2>3. /\ \A f \in SigFds : f # fd => /\ table'.fds[f].m_next = -2 <=> table.fds[f].m_next = -2
                                       /\ table'.fds[f].m_mask = table.fds[f].m_mask
                                       /\ table'.fds[f].m_ready = table.fds[f].m_ready
                                       /\ Sig!Linked(table', f) <=> Sig!Linked(table, f)
        /\ table'.fds[fd].m_mask = mask /\ table'.fds[fd].m_ready = level'[fd] /\ Sig!Linked(table', fd)
    BY <1>6, <1>15, <1>16, <1>17, <2>1 DEF SameItem, Sig!Linked
  <2>4. table'.fds[fd].m_next # -2
    BY <2>3 DEF Sig!Linked
  <2>5. SigTypes'
    <3>1. [fd |-> fd, mask |-> mask] \in SigRequest
      BY DEF SigRequest
    <3>2. requests' \in Seq(SigRequest) /\ fallback' \in Seq(SigFds)
      BY <1>1, <3>1, AppendProperties DEF SigLive, SigTypes
    <3> QED
      BY <1>1, <1>3, <2>1, <3>2 DEF SigLive, SigTypes
  <2>6. SigRequestsInv'
    <3>1. /\ Len(requests') = Len(requests) + 1 /\ requests'[Len(requests) + 1] = [fd |-> fd, mask |-> mask]
          /\ \A i \in 1..Len(requests) : requests'[i] = requests[i]
      BY <1>1, AppendProperties DEF SigLive, SigTypes
    <3>2. \A i \in 1..Len(requests') : i \in 1..Len(requests) \/ i = Len(requests) + 1
      BY <1>4, <3>1
    <3>3. /\ \A i \in 1..Len(requests) : /\ table.fds[requests[i].fd].m_next # -2
                                         /\ table.fds[requests[i].fd].m_mask = requests[i].mask
          /\ \A i, j \in 1..Len(requests) : requests[i].fd = requests[j].fd => i = j
      BY DEF SigLive, SigRequestsInv
    <3>4. \A i \in 1..Len(requests') : /\ table'.fds[requests'[i].fd].m_next # -2
                                       /\ table'.fds[requests'[i].fd].m_mask = requests'[i].mask
      BY <1>4, <2>3, <2>4, <3>1, <3>2, <3>3
    <3>5. \A i, j \in 1..Len(requests') : requests'[i].fd = requests'[j].fd => i = j
      BY <1>4, <3>1, <3>2, <3>3
    <3> QED
      BY <3>4, <3>5 DEF SigRequestsInv
  <2>7. ASSUME NEW f \in SigFds PROVE SigKnows(f)'
    <3>1. SigKnows(f)
      BY <1>1 DEF SigLive
    <3>2. \A kind : SigAnnounced(f, kind)' <=> SigAnnounced(f, kind)
      BY <1>1 DEF SigAnnounced
    <3>3. CASE f = fd
      BY <2>3, <3>3 DEF SigKnows
    <3>4. CASE f # fd
      BY <1>1, <1>3, <2>3, <3>1, <3>2, <3>4 DEF SigKnows
    <3> QED
      BY <3>3, <3>4
  <2>8. ASSUME NEW f \in SigFds PROVE SigAsked(f)'
    <3>1. /\ Len(fallback) \in Nat /\ Len(fallback') = Len(fallback) + 1 /\ fallback'[Len(fallback) + 1] = fd
          /\ \A i \in 1..Len(fallback) : fallback'[i] = fallback[i]
      BY <1>1, AppendProperties, LenProperties DEF SigLive, SigTypes
    <3>2. Len(fallback) + 1 \in 1..Len(fallback') /\ \A i \in 1..Len(fallback) : i \in 1..Len(fallback')
      BY <3>1
    <3>3. f # fd => SigAsked(f)
      BY DEF SigLive
    <3>4. SigFollowed(fd)' /\ (SigFollowed(f) => SigFollowed(f)')
      BY <3>1, <3>2 DEF SigFollowed
    <3> QED
      BY <1>1, <2>1, <2>3, <3>3, <3>4 DEF SigAsked
  <2> QED
    BY <2>2, <2>5, <2>6, <2>7, <2>8 DEF SigInv, SigLive
<1> QED
  BY <1>18, <1>19

\* What one descriptor loses, the others keep.
LEMMA SigDetach == ASSUME SigLive, NEW fd \in SigFds, Sig!Detach(fd) PROVE SigInv'
<1>1. /\ table.fds[fd].m_next # -2 /\ walk \in {"idle", "handler"}
      /\ requests' = (IF Sig!RequestIs(fd) THEN Sig!RemoveAt(requests, table.fds[fd].m_index) ELSE requests)
      /\ level' = [level EXCEPT ![fd] = {}]
      /\ UNCHANGED <<revents, queue, sigio, event>>
  BY DEF Sig!Detach, Sig!Running, Sig!UNUSED
<1>2. table \in SigTable /\ ~table.failed
  BY DEF SigLive, TableOK
<1>3. PICK c : Ring(table, c)
  BY DEF SigLive, TableOK
<1>4. PICK a : a = IF Sig!Linked(table, fd) THEN Sig!delReady(table, fd) ELSE table
  OBVIOUS
<1>5. PICK d : /\ a \in SigTable /\ ~a.failed /\ Ring(a, d) /\ ~Sig!Linked(a, fd)
               /\ \A f \in SigFds : /\ SameItem(a.fds[f], table.fds[f])
                                    /\ a.fds[f].m_next = -2 <=> table.fds[f].m_next = -2
                                    /\ f # fd => (Sig!Linked(a, f) <=> Sig!Linked(table, f))
  <2>1. CASE Sig!Linked(table, fd)
    <3>1. PICK k \in 1..Len(c) : c[k] = fd
      BY <1>2, <1>3, <2>1, RingFacts
    <3>2. a = Sig!delReady(table, fd) /\ fd = c[k]
      BY <1>4, <2>1, <3>1
    <3>3. /\ a \in SigTable /\ a.failed = table.failed /\ Ring(a, PollMap!RemoveAt(c, k))
          /\ \A f \in SigFds : /\ SameItem(a.fds[f], table.fds[f])
                               /\ a.fds[f].m_next = -2 <=> table.fds[f].m_next = -2
                               /\ Sig!Linked(a, f) <=> Sig!Linked(table, f) /\ f # fd
      BY <1>2, <1>3, <3>2, DelReadyProperties
    <3> QED
      BY <1>2, <3>3
  <2>2. CASE ~Sig!Linked(table, fd)
    <3>1. a = table
      BY <1>4, <2>2
    <3> QED
      BY <1>2, <1>3, <2>2, <3>1 DEF SameItem
  <2> QED
    BY <2>1, <2>2
<1>6. PICK item : item = Sig!Unused
  OBVIOUS
<1>7. item \in SigItem /\ item.m_next = -2 /\ item.m_prev = -2
  BY <1>6 DEF Sig!Unused, Sig!UNUSED, SigItem
<1>8. PICK b : b = WithItem(a, fd, item)
  OBVIOUS
<1>9. PutItem(b, a, d, fd, item)
  BY <1>5, <1>7, <1>8, ItemSet
<1>10. PICK x \in BOOLEAN : x = (~Sig!RequestIs(fd) \/ ~Sig!FallbackLets(fd))
  OBVIOUS
<1>11. PICK t : t = Failing(b, x)
  OBVIOUS
<1>12. b \in SigTable
  BY <1>9 DEF PutItem
<1>13. t \in SigTable /\ (t.failed <=> b.failed \/ x) /\ t.fds = b.fds /\ t.nready = b.nready /\ t.readylist = b.readylist
  BY <1>11, <1>12, FailedSet
<1>14. Sig!Becomes(t)
  <2>1. t = [a EXCEPT !.fds[fd] = Sig!Unused, !.failed = @ \/ ~Sig!RequestIs(fd) \/ ~Sig!FallbackLets(fd)]
    <3>1. PICK G : G = [a.fds EXCEPT ![fd] = item]
      OBVIOUS
    <3>2. b = [fds |-> G, readylist |-> a.readylist, nready |-> a.nready, failed |-> a.failed]
      BY <1>5, <1>8, <3>1 DEF SigTable, WithItem
    <3>3. t = [fds |-> G, readylist |-> a.readylist, nready |-> a.nready, failed |-> a.failed \/ x]
      BY <1>11, <3>2 DEF Failing
    <3>4. (a.failed \/ x) = (a.failed \/ ~Sig!RequestIs(fd) \/ ~Sig!FallbackLets(fd))
      BY <1>10
    <3>5. PICK y \in BOOLEAN : y = (a.failed \/ x)
      OBVIOUS
    <3>6. t = [a EXCEPT !.fds[fd] = Sig!Unused, !.failed = y]
      <4>1. t = [fds |-> G, readylist |-> a.readylist, nready |-> a.nready, failed |-> y]
        BY <3>3, <3>5, Zenon
      <4>2. [a EXCEPT !.fds[fd] = item, !.failed = y] = [fds |-> G, readylist |-> a.readylist, nready |-> a.nready, failed |-> y]
        <5>1. PICK w : w = [a EXCEPT !.fds[fd] = item, !.failed = y]
          OBVIOUS
        <5>2. w.fds = G
          BY <1>5, <3>1, <5>1 DEF SigTable
        <5>3. w = [fds |-> G, readylist |-> a.readylist, nready |-> a.nready, failed |-> y]
          BY <1>5, <5>1, <5>2 DEF SigTable
        <5> QED
          BY <5>1, <5>3
      <4> QED
        BY <1>6, <4>1, <4>2, Zenon
    <3>7. y = (a.failed \/ ~Sig!RequestIs(fd) \/ ~Sig!FallbackLets(fd))
      BY <3>4, <3>5, Zenon
    <3> QED
      BY <3>6, <3>7, Zenon
  <2> QED
    BY <1>4, <2>1 DEF Sig!Detach
<1>15. CASE t.failed
  BY <1>14, <1>15, SigFails
<1>16. CASE ~t.failed
  <2>1. table' = t /\ walk' = walk /\ Sig!RequestIs(fd) /\ Sig!FallbackLets(fd)
    BY <1>10, <1>13, <1>14, <1>16 DEF Sig!Becomes
  <2>2. TableOK(table')
    <3>1. Ring(b, d)
      BY <1>9 DEF PutItem
    <3>2. Ring(t, d)
      BY <1>13, <3>1, RingSame
    <3> QED
      BY <1>13, <1>16, <2>1, <3>2 DEF TableOK
  <2>3. /\ \A f \in SigFds : f # fd => /\ table'.fds[f].m_next = -2 <=> table.fds[f].m_next = -2
                                       /\ table'.fds[f].m_mask = table.fds[f].m_mask
                                       /\ table'.fds[f].m_ready = table.fds[f].m_ready
                                       /\ Sig!Linked(table', f) <=> Sig!Linked(table, f)
        /\ table'.fds[fd].m_next = -2
    BY <1>5, <1>7, <1>9, <1>13, <2>1 DEF SameItem, Sig!Linked, PutItem
  <2> DEFINE k == table.fds[fd].m_index
  <2>4. k \in 1..Len(requests) /\ requests[k].fd = fd
    BY <2>1, SigRequestFacts DEF Sig!RequestIs
  <2> HIDE DEF k
  <2>5. /\ requests' \in Seq(SigRequest) /\ Len(requests') = Len(requests) - 1
        /\ \A j \in 1..Len(requests) - 1 : requests'[j] = IF j < k THEN requests[j] ELSE requests[j + 1]
    <3>1. requests' = PollMap!RemoveAt(requests, k)
      BY <1>1, <2>1 DEF k, Sig!RemoveAt, PollMap!RemoveAt
    <3>2. requests \in Seq(SigRequest) /\ k \in DOMAIN requests
      BY <2>4, SigRequestFacts DEF SigLive, SigTypes
    <3> QED
      BY <3>1, <3>2, PollMap!RemoveAtProperties, PollMapIsMap
  <2>6. PICK n \in DOMAIN fallback : fallback[n] = fd /\ fallback' = PollMap!RemoveAt(fallback, n)
    BY <2>1 DEF Sig!Detach, Sig!FallbackAt, Sig!RemoveAt, PollMap!RemoveAt
  <2>61. /\ fallback \in Seq(SigFds) /\ Len(fallback) \in Nat /\ n \in 1..Len(fallback)
         /\ fallback' \in Seq(SigFds) /\ Len(fallback') = Len(fallback) - 1
         /\ \A j \in 1..Len(fallback) - 1 : fallback'[j] = IF j < n THEN fallback[j] ELSE fallback[j + 1]
    <3>1. fallback \in Seq(SigFds)
      BY DEF SigLive, SigTypes
    <3>2. Len(fallback) \in Nat /\ DOMAIN fallback = 1..Len(fallback)
      BY <3>1, LenProperties
    <3> QED
      BY <2>6, <3>1, <3>2, PollMap!RemoveAtProperties, PollMapIsMap
  <2>7. level' \in [SigFds -> SUBSET SigKinds] /\ \A f \in SigFds : f # fd => level'[f] = level[f]
    BY <1>1 DEF SigLive, SigTypes
  <2>8. SigTypes'
    BY <1>1, <2>1, <2>5, <2>61, <2>7 DEF SigLive, SigTypes
  <2>9. SigRequestsInv'
    <3> DEFINE at(j) == IF j < k THEN j ELSE j + 1
    <3>1. Len(requests) \in Nat /\ \A i \in 1..Len(requests) : requests[i].fd \in SigFds
      BY SigRequestFacts
    <3>2. \A j \in 1..Len(requests') : at(j) \in 1..Len(requests) /\ at(j) # k /\ requests'[j] = requests[at(j)]
      BY <2>4, <2>5, <3>1
    <3>3. \A i, j \in 1..Len(requests') : at(i) = at(j) => i = j
      BY <2>4, <2>5, <3>1
    <3> HIDE DEF at
    <3>4. /\ \A i \in 1..Len(requests) : /\ table.fds[requests[i].fd].m_next # -2
                                         /\ table.fds[requests[i].fd].m_mask = requests[i].mask
          /\ \A i, j \in 1..Len(requests) : requests[i].fd = requests[j].fd => i = j
      BY DEF SigLive, SigRequestsInv
    <3>5. \A j \in 1..Len(requests') : requests'[j].fd # fd /\ requests'[j].fd \in SigFds
      BY <2>4, <3>1, <3>2, <3>4
    <3>6. \A i \in 1..Len(requests') : /\ table'.fds[requests'[i].fd].m_next # -2
                                       /\ table'.fds[requests'[i].fd].m_mask = requests'[i].mask
      BY SMTT(30), <2>3, <3>2, <3>4, <3>5
    <3>7. \A i, j \in 1..Len(requests') : requests'[i].fd = requests'[j].fd => i = j
      BY <3>2, <3>3, <3>4
    <3> QED
      BY <3>6, <3>7 DEF SigRequestsInv
  <2>10. ASSUME NEW f \in SigFds PROVE SigKnows(f)'
    <3>1. SigKnows(f)
      BY <1>1 DEF SigLive
    <3>2. \A kind : SigAnnounced(f, kind)' <=> SigAnnounced(f, kind)
      BY <1>1 DEF SigAnnounced
    <3>3. CASE f = fd
      BY <2>3, <3>3 DEF SigKnows
    <3>4. CASE f # fd
      BY <1>1, <2>3, <2>7, <3>1, <3>2, <3>4 DEF SigKnows
    <3> QED
      BY <3>3, <3>4
  <2>11. ASSUME NEW f \in SigFds PROVE SigAsked(f)'
    <3>1. SUFFICES ASSUME f # fd, SigFollowed(f) PROVE SigFollowed(f)'
      BY <1>1, <2>1, <2>3 DEF SigLive, SigAsked
    <3>2. PICK i \in 1..Len(fallback) : fallback[i] = f
      BY <3>1 DEF SigFollowed
    <3>3. CASE i < n
      <4>1. i \in 1..Len(fallback) - 1 /\ fallback'[i] = f
        BY <2>61, <3>2, <3>3
      <4> QED
        BY <2>61, <4>1 DEF SigFollowed
    <3>4. CASE i > n
      <4>1. i - 1 \in 1..Len(fallback) - 1 /\ fallback'[i - 1] = f
        BY <2>61, <3>2, <3>4
      <4> QED
        BY <2>61, <4>1 DEF SigFollowed
    <3> QED
      BY <2>6, <2>61, <3>1, <3>2, <3>3, <3>4
  <2> QED
    BY <2>2, <2>8, <2>9, <2>10, <2>11 DEF SigInv, SigLive
<1> QED
  BY <1>15, <1>16

\* A mask is set in both tables, and the list follows.
LEMMA SigSetMask ==
    ASSUME SigLive, NEW fd \in SigFds, NEW value \in SUBSET SigKinds, Sig!SetMask(fd, value)
    PROVE  SigInv'
<1>1. /\ table.fds[fd].m_next # -2 /\ walk \in {"idle", "handler"}
      /\ UNCHANGED <<fallback, revents, queue, sigio, level, event>>
  BY DEF Sig!SetMask, Sig!Running, Sig!UNUSED, Sig!polled
<1>2. TableOK(table) /\ table \in SigTable
  BY DEF SigLive, TableOK
<1>3. CASE ~Sig!RequestIs(fd)
  <2>1. PICK t : t = [table EXCEPT !.failed = TRUE]
    OBVIOUS
  <2>2. t.failed
    BY <1>2, <2>1 DEF SigTable
  <2>3. Sig!Becomes(t)
    BY <1>3, <2>1 DEF Sig!SetMask
  <2> QED
    BY <2>2, <2>3, SigFails
<1>4. CASE Sig!RequestIs(fd)
  <2> DEFINE k == table.fds[fd].m_index
  <2>1. k \in 1..Len(requests) /\ requests[k].fd = fd
    BY <1>4, SigRequestFacts DEF Sig!RequestIs
  <2>2. PICK a : a = Masked(table, fd, value)
    OBVIOUS
  <2>3. PICK t : t = Sig!updateReady(a, fd)
    OBVIOUS
  <2>4. Sig!Becomes(t) /\ requests' = [requests EXCEPT ![k].mask = value]
    BY <1>4, <2>2, <2>3 DEF Sig!SetMask, Masked
  <2> HIDE DEF k
  <2>5. ItemSays(a, table, fd, value, table.fds[fd].m_ready)
    BY <1>2, <2>2, ItemTold
  <2>6. Updated(t, a, fd)
    <3>1. TableOK(a) /\ a.fds[fd].m_next # -2
      BY <1>1, <2>5 DEF ItemSays
    <3> QED
      BY <2>3, <3>1, UpdateReadyProperties
  <2>7. table' = t /\ walk' = walk /\ TableOK(table')
    <3>1. TableOK(t) /\ ~t.failed
      BY <2>6 DEF Updated, TableOK
    <3> QED
      BY <2>4, <3>1 DEF Sig!Becomes
  <2>8. /\ \A f \in SigFds : f # fd => /\ table'.fds[f].m_next = -2 <=> table.fds[f].m_next = -2
                                       /\ table'.fds[f].m_mask = table.fds[f].m_mask
                                       /\ table'.fds[f].m_ready = table.fds[f].m_ready
                                       /\ Sig!Linked(table', f) <=> Sig!Linked(table, f)
        /\ table'.fds[fd].m_next # -2 /\ table'.fds[fd].m_mask = value /\ table'.fds[fd].m_ready = table.fds[fd].m_ready
        /\ Sig!Linked(table', fd) <=> table.fds[fd].m_ready \cap value # {}
    BY <1>1, <2>5, <2>6, <2>7 DEF Updated, ItemSays, SameNews, SameItem
  <2>9. /\ Len(requests) \in Nat /\ requests \in Seq(SigRequest)
        /\ \A i \in 1..Len(requests) : requests[i] \in SigRequest /\ requests[i].fd \in SigFds
    BY SigRequestFacts DEF SigLive, SigTypes
  <2>10. PICK r : r = [requests[k] EXCEPT !.mask = value]
    OBVIOUS
  <2>11. r \in SigRequest /\ r.fd = fd /\ r.mask = value
    BY <2>1, <2>9, <2>10 DEF SigRequest
  <2>12. requests' = [requests EXCEPT ![k] = r]
    BY <2>4, <2>10
  <2>13. /\ requests' \in Seq(SigRequest) /\ Len(requests') = Len(requests)
         /\ \A i \in 1..Len(requests) : requests'[i] = IF i = k THEN r ELSE requests[i]
    BY <2>1, <2>9, <2>11, <2>12, ExceptSeq
  <2>14. SigTypes'
    BY <1>1, <2>7, <2>13 DEF SigLive, SigTypes
  <2>15. SigRequestsInv'
    <3>1. /\ \A i \in 1..Len(requests) : /\ table.fds[requests[i].fd].m_next # -2
                                         /\ table.fds[requests[i].fd].m_mask = requests[i].mask
          /\ \A i, j \in 1..Len(requests) : requests[i].fd = requests[j].fd => i = j
      BY DEF SigLive, SigRequestsInv
    <3>2. \A i \in 1..Len(requests) : requests'[i].fd = requests[i].fd /\ (requests[i].fd = fd <=> i = k)
      BY <2>1, <2>11, <2>13, <3>1
    <3>3. \A i \in 1..Len(requests') : /\ table'.fds[requests'[i].fd].m_next # -2
                                       /\ table'.fds[requests'[i].fd].m_mask = requests'[i].mask
      BY <2>8, <2>9, <2>11, <2>13, <3>1, <3>2
    <3> QED
      BY <2>13, <3>1, <3>2, <3>3 DEF SigRequestsInv
  <2>16. ASSUME NEW f \in SigFds PROVE SigKnows(f)'
    <3>1. SigKnows(f)
      BY <1>1 DEF SigLive
    <3>2. \A kind : SigAnnounced(f, kind)' <=> SigAnnounced(f, kind)
      BY <1>1 DEF SigAnnounced
    <3>3. CASE f = fd
      <4>1. \A kind \in level[fd] : kind \in table.fds[fd].m_ready \/ SigAnnounced(fd, kind)
        BY <1>1, <3>1, <3>3 DEF SigKnows
      <4>2. \A kind : kind \in table.fds[fd].m_ready \cap value => Sig!Linked(table', fd)
        BY <2>8
      <4> QED
        BY <1>1, <2>8, <3>2, <3>3, <4>1, <4>2 DEF SigKnows
    <3>4. CASE f # fd
      BY <1>1, <2>8, <3>1, <3>2, <3>4 DEF SigKnows
    <3> QED
      BY <3>3, <3>4
  <2>17. \A f \in SigFds : SigAsked(f)'
    BY <1>1, <2>7, <2>8, SigAskedSame
  <2> QED
    BY <2>7, <2>14, <2>15, <2>16, <2>17 DEF SigInv, SigLive
<1> QED
  BY <1>3, <1>4

LEMMA SigMasks ==
    ASSUME SigLive, NEW fd \in SigFds, NEW value \in SUBSET SigKinds,
           Sig!SetMask(fd, value) \/ Sig!AndMask(fd, value) \/ Sig!OrMask(fd, value)
    PROVE  SigInv'
<1>1. table.fds[fd].m_index \in DOMAIN requests => Sig!MaskOf(fd) \in SUBSET SigKinds
  BY SigRequestFacts DEF Sig!MaskOf
<1>2. CASE Sig!SetMask(fd, value)
  BY <1>2, SigSetMask
<1>3. CASE Sig!AndMask(fd, value)
  <2>1. PICK m : m = Sig!MaskOf(fd) \cap value
    OBVIOUS
  <2>2. m \in SUBSET SigKinds /\ Sig!SetMask(fd, m)
    BY <1>3, <2>1 DEF Sig!AndMask
  <2> QED
    BY <2>2, SigSetMask
<1>4. CASE Sig!OrMask(fd, value)
  <2>1. PICK m : m = Sig!MaskOf(fd) \cup value
    OBVIOUS
  <2>2. m \in SUBSET SigKinds /\ Sig!SetMask(fd, m)
    BY <1>1, <1>4, <2>1 DEF Sig!OrMask
  <2> QED
    BY <2>2, SigSetMask
<1> QED
  BY <1>2, <1>3, <1>4

LEMMA SigClear == ASSUME SigLive, Sig!Clear PROVE SigInv'
<1>1. /\ table' = Sig!NewTable /\ requests' = <<>> /\ walk # "polling"
      /\ UNCHANGED <<fallback, revents, queue, sigio, level, walk, event>>
  BY DEF Sig!Clear, Sig!Running, Sig!polled
<1>2. TableOK(table') /\ \A fd \in SigFds : SigKnows(fd)' /\ SigAsked(fd)'
  BY <1>1, NewTableOK DEF SigKnows, SigAsked
<1>3. SigRequestsInv'
  <2>1. 1..Len(requests') = {}
    BY <1>1
  <2> QED
    BY <2>1 DEF SigRequestsInv
<1>4. SigTypes'
  <2>1. requests' \in Seq(SigRequest)
    BY <1>1
  <2> QED
    BY <1>1, <2>1 DEF SigLive, SigTypes
<1> QED
  BY <1>1, <1>2, <1>3, <1>4 DEF SigInv, SigLive

\* Where the tables stay, it is enough that the news do not get lost.
LEMMA SigSame ==
    ASSUME SigLive, UNCHANGED <<requests, table, fallback>>, SigTypes', walk' = "polling" <=> walk = "polling",
           \A fd \in SigFds : (SigKnows(fd) => SigKnows(fd)') /\ (SigAsked(fd) => SigAsked(fd)')
    PROVE  SigInv'
<1>1. TableOK(table')
  BY DEF SigLive
<1>2. SigRequestsInv'
  BY DEF SigLive, SigRequestsInv
<1> QED
  BY <1>1, <1>2 DEF SigInv, SigLive

LEMMA SigAttachThrows == ASSUME SigLive, NEW fd \in SigFds, Sig!AttachThrows(fd) PROVE SigInv'
<1>1. UNCHANGED <<requests, table, fallback, revents, queue, sigio, level, walk, event>>
  BY DEF Sig!AttachThrows, Sig!polled
<1>2. SigTypes'
  BY <1>1 DEF SigLive, SigTypes
<1>3. \A f \in SigFds : (SigKnows(f) => SigKnows(f)') /\ (SigAsked(f) => SigAsked(f)')
  BY <1>1 DEF SigKnows, SigAnnounced, SigAsked, SigFollowed
<1> QED
  BY <1>1, <1>2, <1>3, SigSame

LEMMA SigNextNone == ASSUME SigLive, Sig!NextNone PROVE SigInv'
<1>1. UNCHANGED <<requests, table, fallback, revents, queue, sigio, level, event>> /\ walk = "next" /\ walk' = "idle"
  BY DEF Sig!NextNone, Sig!polled
<1>2. SigTypes'
  BY <1>1 DEF SigLive, SigTypes
<1>3. \A f \in SigFds : (SigKnows(f) => SigKnows(f)') /\ (SigAsked(f) => SigAsked(f)')
  BY <1>1 DEF SigKnows, SigAnnounced, SigAsked, SigFollowed
<1> QED
  BY <1>1, <1>2, <1>3, SigSame

\* What was handled is dealt with; the rest is on the list or announced.
LEMMA SigHandlerReturns == ASSUME SigLive, Sig!HandlerReturns PROVE SigInv'
<1>1. /\ walk = "handler" /\ walk' = "next" /\ event' = Sig!NoEvent
      /\ level' = [level EXCEPT ![event.source] = level[event.source] \ event.events]
      /\ UNCHANGED <<requests, table, fallback, revents, queue, sigio>>
  BY DEF Sig!HandlerReturns, Sig!polled
<1>2. event.source \in SigFds /\ level \in [SigFds -> SUBSET SigKinds]
  BY <1>1 DEF SigLive, SigTypes
<1>3. /\ level' \in [SigFds -> SUBSET SigKinds]
      /\ \A f \in SigFds : \A kind : kind \in level'[f] => kind \in level[f] /\ ~(f = event.source /\ kind \in event.events)
  BY <1>1, <1>2
<1>4. SigTypes'
  BY <1>1, <1>3 DEF SigLive, SigTypes
<1>5. \A f \in SigFds : (SigKnows(f) => SigKnows(f)') /\ (SigAsked(f) => SigAsked(f)')
  BY <1>1, <1>3 DEF SigKnows, SigAnnounced, SigAsked, SigFollowed
<1> QED
  BY <1>1, <1>4, <1>5, SigSame

\* Whatever arrives is announced, by its own signal or by SIGIO.
LEMMA SigArrive ==
    ASSUME SigLive, NEW fd \in SigFds, NEW kinds \in SUBSET SigKinds, Sig!Arrive(fd, kinds)
    PROVE  SigInv'
<1>1. /\ level' = [level EXCEPT ![fd] = level[fd] \cup kinds]
      /\ UNCHANGED <<requests, table, fallback, revents, walk, event>>
      /\ \/ queue' = Append(queue, [fd |-> fd, band |-> kinds]) /\ sigio' = sigio
         \/ sigio' = TRUE /\ queue' = queue
  BY DEF Sig!Arrive, Sig!polled
<1>2. /\ queue \in Seq(SigSignal) /\ level \in [SigFds -> SUBSET SigKinds] /\ sigio \in BOOLEAN /\ Len(queue) \in Nat
  BY LenProperties DEF SigLive, SigTypes
<1>3. level' \in [SigFds -> SUBSET SigKinds]
      /\ \A f \in SigFds : \A kind : kind \in level'[f] => kind \in level[f] \/ (f = fd /\ kind \in kinds)
  BY <1>1, <1>2
<1>4. [fd |-> fd, band |-> kinds] \in SigSignal
  BY DEF SigSignal
<1>5. /\ queue' \in Seq(SigSignal) /\ sigio' \in BOOLEAN
      /\ \A f, kind : SigAnnounced(f, kind) \/ (f = fd /\ kind \in kinds) => SigAnnounced(f, kind)'
  <2>1. CASE queue' = Append(queue, [fd |-> fd, band |-> kinds]) /\ sigio' = sigio
    <3>1. /\ queue' \in Seq(SigSignal) /\ Len(queue') = Len(queue) + 1
          /\ queue'[Len(queue) + 1] = [fd |-> fd, band |-> kinds]
          /\ \A i \in 1..Len(queue) : queue'[i] = queue[i]
      BY <1>2, <1>4, <2>1, AppendProperties
    <3>2. Len(queue) + 1 \in 1..Len(queue') /\ \A i \in 1..Len(queue) : i \in 1..Len(queue')
      BY <1>2, <3>1
    <3> QED
      BY <1>2, <2>1, <3>1, <3>2 DEF SigAnnounced
  <2>2. CASE sigio' = TRUE /\ queue' = queue
    BY <1>2, <2>2 DEF SigAnnounced
  <2> QED
    BY <1>1, <2>1, <2>2
<1>6. SigTypes'
  BY <1>1, <1>3, <1>5 DEF SigLive, SigTypes
<1>7. \A f \in SigFds : (SigKnows(f) => SigKnows(f)') /\ (SigAsked(f) => SigAsked(f)')
  BY <1>1, <1>3, <1>5 DEF SigKnows, SigAsked, SigFollowed
<1> QED
  BY <1>1, <1>6, <1>7, SigSame

\* The first of the list comes off it and is handled.
LEMMA SigNextFound == ASSUME SigLive, Sig!NextFound PROVE SigInv'
<1>1. /\ walk = "next" /\ table.nready > 0
      /\ UNCHANGED <<requests, fallback, revents, queue, sigio, level>>
  BY DEF Sig!NextFound, Sig!polled
<1>2. TableOK(table) /\ table \in SigTable /\ ~table.failed
  BY DEF SigLive, TableOK
<1>3. PICK c : Ring(table, c)
  BY <1>2 DEF TableOK
<1> DEFINE fd == table.readylist
<1>4. 1 \in 1..Len(c) /\ fd = c[1] /\ fd \in SigFds
  <2>1. Len(c) \in Nat /\ table.nready = Len(c) /\ \A i \in 1..Len(c) : c[i] \in SigFds
    BY <1>2, <1>3, RingFacts
  <2>2. 1 \in 1..Len(c) /\ Len(c) # 0
    BY <1>1, <2>1
  <2>3. fd = c[1]
    BY <1>3, <2>2 DEF Ring
  <2> QED
    BY <2>1, <2>2, <2>3
<1>5. PICK t : t = Sig!delReady(table, fd)
  OBVIOUS
<1>6. CASE ~Sig!RequestIs(fd)
  <2>1. table' = [table EXCEPT !.failed = TRUE] /\ walk' = "failed"
    BY <1>6 DEF Sig!NextFound
  <2>2. table'.failed
    BY <1>2, <2>1 DEF SigTable
  <2> QED
    BY <2>1, <2>2 DEF SigInv
<1>7. CASE Sig!RequestIs(fd)
  <2>1. /\ event' = [source |-> fd, events |-> Sig!MaskOf(fd) \cap table.fds[fd].m_ready]
        /\ table' = t /\ walk' = IF t.failed THEN "failed" ELSE "handler"
    BY <1>5, <1>7 DEF Sig!NextFound
  <2> HIDE DEF fd
  <2>2. /\ t \in SigTable /\ t.failed = table.failed /\ Ring(t, PollMap!RemoveAt(c, 1))
        /\ \A f \in SigFds : /\ SameItem(t.fds[f], table.fds[f])
                             /\ t.fds[f].m_next = -2 <=> table.fds[f].m_next = -2
                             /\ Sig!Linked(t, f) <=> Sig!Linked(table, f) /\ f # fd
    BY <1>2, <1>3, <1>4, <1>5, DelReadyProperties
  <2>3. TableOK(table') /\ walk' = "handler"
    BY <1>2, <2>1, <2>2 DEF TableOK
  <2>4. Sig!MaskOf(fd) = table.fds[fd].m_mask
    <3>1. table.fds[fd].m_index \in 1..Len(requests) /\ requests[table.fds[fd].m_index].fd = fd
      BY <1>7, SigRequestFacts DEF Sig!RequestIs
    <3> QED
      BY <3>1 DEF SigLive, SigRequestsInv, Sig!MaskOf
  <2>5. event' = [source |-> fd, events |-> table.fds[fd].m_mask \cap table.fds[fd].m_ready]
    BY <2>1, <2>4
  <2>6. table.fds[fd].m_mask \in SUBSET SigKinds
    BY <1>2, <1>4 DEF SigTable, SigItem
  <2>7. event' \in [source : SigFds, events : SUBSET SigKinds]
        /\ event'.source = fd /\ event'.events = table.fds[fd].m_mask \cap table.fds[fd].m_ready
    BY <1>4, <2>5, <2>6
  <2>8. SigTypes'
    BY <1>1, <2>3, <2>7 DEF SigLive, SigTypes
  <2>9. SigRequestsInv'
    <3>1. \A i \in 1..Len(requests) : requests[i].fd \in SigFds
      BY SigRequestFacts
    <3> QED
      BY <1>1, <2>1, <2>2, <3>1 DEF SigLive, SigRequestsInv, SameItem
  <2>10. event.source \notin SigFds
    <3>1. event = Sig!NoEvent
      BY <1>1 DEF SigLive, SigTypes
    <3>2. -1 \notin SigFds
      BY MethodsAssumption
    <3> QED
      BY <3>1, <3>2 DEF Sig!NoEvent
  <2>11. ASSUME NEW f \in SigFds PROVE SigKnows(f)'
    <3>1. SigKnows(f)
      BY <1>1 DEF SigLive
    <3>2. \A kind : SigAnnounced(f, kind)' <=> SigAnnounced(f, kind)
      BY <1>1 DEF SigAnnounced
    <3>3. /\ table'.fds[f].m_mask = table.fds[f].m_mask /\ table'.fds[f].m_ready = table.fds[f].m_ready
          /\ table'.fds[f].m_next = -2 <=> table.fds[f].m_next = -2
          /\ Sig!Linked(table', f) <=> Sig!Linked(table, f) /\ f # fd
      BY <2>1, <2>2 DEF SameItem
    <3>4. f # event.source
      BY <2>10
    <3> QED
      BY <1>1, <2>7, <3>1, <3>2, <3>3, <3>4 DEF SigKnows
  <2>12. \A f \in SigFds : SigAsked(f)'
    BY <1>1, <2>1, <2>2, <2>3, SigAskedSame
  <2> QED
    BY <2>3, <2>8, <2>9, <2>11, <2>12 DEF SigInv, SigLive
<1> QED
  BY <1>6, <1>7

-----------------------------------------------------------------------------
(* IOSelectSig: waiting.                                                   *)

TakesFrom(g, m) == g = [n \in 0..m |-> IF n = 0 THEN table ELSE Sig!Announced(g[n - 1], queue[n])]

\* The signals are taken one after the other.
LEMMA TakenInTurn ==
    ASSUME Len(queue) \in Nat
    PROVE  /\ Sig!TakenTo[0] = table
           /\ \A n \in 1..Len(queue) : Sig!TakenTo[n] = Sig!Announced(Sig!TakenTo[n - 1], queue[n])
<1> DEFINE bad == {m \in 0..Len(queue) : ~(\E g : TakesFrom(g, m))}
<1>1. bad = {}
  <2> SUFFICES ASSUME bad # {} PROVE FALSE
    OBVIOUS
  <2>1. bad \in SUBSET Nat
    OBVIOUS
  <2>2. PICK m \in bad : \A k \in bad : m <= k
    BY <2>1, Lowest
  <2>3. m # 0
    <3>1. TakesFrom([n \in 0..0 |-> table], 0)
      BY DEF TakesFrom
    <3> QED
      BY <3>1
  <2>4. m - 1 \in 0..Len(queue) /\ m - 1 \notin bad /\ m \in 1..Len(queue)
    BY <2>2, <2>3
  <2>5. PICK g : TakesFrom(g, m - 1)
    BY <2>4
  <2> DEFINE h == [n \in 0..m |-> IF n = m THEN Sig!Announced(g[m - 1], queue[m]) ELSE g[n]]
  <2>6. \A n \in 0..m : h[n] = IF n = 0 THEN table ELSE Sig!Announced(h[n - 1], queue[n])
    <3> SUFFICES ASSUME NEW n \in 0..m
                 PROVE  h[n] = IF n = 0 THEN table ELSE Sig!Announced(h[n - 1], queue[n])
      OBVIOUS
    <3>1. CASE n = m
      <4>1. h[n] = Sig!Announced(g[m - 1], queue[m]) /\ h[m - 1] = g[m - 1]
        BY <2>4, <3>1
      <4> QED
        BY <2>3, <3>1, <4>1
    <3>2. CASE n # m
      <4>1. n \in 0..m - 1 /\ h[n] = g[n]
        BY <2>4, <3>2
      <4>2. g[n] = IF n = 0 THEN table ELSE Sig!Announced(g[n - 1], queue[n])
        BY <2>5, <4>1 DEF TakesFrom
      <4>3. n # 0 => h[n - 1] = g[n - 1]
        BY <2>4, <4>1
      <4> QED
        BY <4>1, <4>2, <4>3
    <3> QED
      BY <3>1, <3>2
  <2>7. h = [n \in 0..m |-> h[n]]
    OBVIOUS
  <2>8. TakesFrom(h, m)
    BY <2>6, <2>7, Zenon DEF TakesFrom
  <2> QED
    BY <2>2, <2>8
<1>2. \E g : TakesFrom(g, Len(queue))
  BY <1>1
<1>3. Sig!TakenTo = CHOOSE g : TakesFrom(g, Len(queue))
  BY DEF Sig!TakenTo, TakesFrom
<1>4. TakesFrom(Sig!TakenTo, Len(queue))
  BY <1>2, <1>3
<1> QED
  BY <1>4 DEF TakesFrom

\* Masks and attachments are the client's.
SameClient(t, f) == t.fds[f].m_mask = table.fds[f].m_mask /\ (t.fds[f].m_next = -2 <=> table.fds[f].m_next = -2)

\* Table t after n signals: what they say is known, and, unless none was about it,
\* a descriptor that wants some of it is on the list.
TakesTo(t, n) ==
    /\ TableOK(t)
    /\ \A f \in SigFds : SameClient(t, f)
    /\ \A f \in SigFds : table.fds[f].m_next # -2 =>
           /\ table.fds[f].m_ready \subseteq t.fds[f].m_ready
           /\ \A i \in 1..n : queue[i].fd = f => queue[i].band \subseteq t.fds[f].m_ready
           /\ \/ /\ \A i \in 1..n : queue[i].fd # f
                 /\ t.fds[f].m_ready = table.fds[f].m_ready /\ (Sig!Linked(t, f) <=> Sig!Linked(table, f))
              \/ t.fds[f].m_ready \cap t.fds[f].m_mask # {} => Sig!Linked(t, f)

LEMMA TakesOneMore ==
    ASSUME SigLive, NEW n \in 1..Len(queue), NEW t, TakesTo(t, n - 1), NEW u, u = Sig!Announced(t, queue[n])
    PROVE  TakesTo(u, n)
<1>0. /\ TableOK(t)
      /\ \A f \in SigFds : SameClient(t, f)
      /\ \A f \in SigFds : table.fds[f].m_next # -2 =>
             /\ table.fds[f].m_ready \subseteq t.fds[f].m_ready
             /\ \A i \in 1..n - 1 : queue[i].fd = f => queue[i].band \subseteq t.fds[f].m_ready
             /\ \/ /\ \A i \in 1..n - 1 : queue[i].fd # f
                   /\ t.fds[f].m_ready = table.fds[f].m_ready /\ (Sig!Linked(t, f) <=> Sig!Linked(table, f))
                \/ t.fds[f].m_ready \cap t.fds[f].m_mask # {} => Sig!Linked(t, f)
  BY DEF TakesTo
<1>1. /\ queue[n].fd \in SigFds /\ queue[n].band \in SUBSET SigKinds
      /\ \A i \in 1..n : i \in 1..n - 1 \/ i = n
  <2>1. queue \in Seq(SigSignal) /\ Len(queue) \in Nat
    BY LenProperties DEF SigLive, SigTypes
  <2>2. queue[n] \in SigSignal
    BY <2>1, ElementOfSeq
  <2>3. n \in Nat
    BY <2>1
  <2> QED
    BY <2>2, <2>3 DEF SigSignal
<1> DEFINE fd == queue[n].fd
<1>2. CASE t.fds[fd].m_next = -2
  <2>1. u = t
    BY <1>2 DEF Sig!Announced, Sig!UNUSED
  <2>2. table.fds[fd].m_next = -2
    BY <1>0, <1>1, <1>2 DEF SameClient
  <2>3. ASSUME NEW f \in SigFds, table.fds[f].m_next # -2
        PROVE  \A i \in 1..n : queue[i].fd = f => i \in 1..n - 1
    BY <1>1, <2>2, <2>3
  <2>4. ASSUME NEW f \in SigFds, table.fds[f].m_next # -2
        PROVE  /\ table.fds[f].m_ready \subseteq u.fds[f].m_ready
               /\ \A i \in 1..n : queue[i].fd = f => queue[i].band \subseteq u.fds[f].m_ready
               /\ \/ /\ \A i \in 1..n : queue[i].fd # f
                     /\ u.fds[f].m_ready = table.fds[f].m_ready /\ (Sig!Linked(u, f) <=> Sig!Linked(table, f))
                  \/ u.fds[f].m_ready \cap u.fds[f].m_mask # {} => Sig!Linked(u, f)
    BY <1>0, <2>1, <2>3, <2>4
  <2> QED
    BY <1>0, <2>1, <2>4 DEF TakesTo
<1>3. CASE t.fds[fd].m_next # -2
  <2>1. t.fds[fd].m_ready \cup queue[n].band \in SUBSET SigKinds
    BY <1>0, <1>1 DEF TableOK, SigTable, SigItem
  <2>2. PICK ready \in SUBSET SigKinds : ready = t.fds[fd].m_ready \cup queue[n].band
    BY <2>1
  <2>3. PICK a : a = Told(t, fd, ready)
    OBVIOUS
  <2>4. u = Sig!updateReady(a, fd)
    BY <1>3, <2>2, <2>3 DEF Sig!Announced, Sig!UNUSED, Told
  <2>5. ItemSays(a, t, fd, t.fds[fd].m_mask, ready)
    BY <1>0, <1>1, <2>3, ItemTold
  <2>6. Updated(u, a, fd)
    <3>1. TableOK(a) /\ a.fds[fd].m_next # -2
      BY <1>3, <2>5 DEF ItemSays
    <3> QED
      BY <1>1, <2>4, <3>1, UpdateReadyProperties
  <2> HIDE DEF fd
  <2>7. fd \in SigFds
    BY <1>1 DEF fd
  <2>8. /\ TableOK(u)
        /\ u.fds[fd].m_mask = t.fds[fd].m_mask /\ u.fds[fd].m_ready = ready
        /\ Sig!Linked(u, fd) <=> ready \cap t.fds[fd].m_mask # {}
        /\ u.fds[fd].m_next # -2
        /\ \A f \in SigFds : f # fd => /\ u.fds[f].m_mask = t.fds[f].m_mask /\ u.fds[f].m_ready = t.fds[f].m_ready
                                       /\ u.fds[f].m_next = -2 <=> t.fds[f].m_next = -2
                                       /\ Sig!Linked(u, f) <=> Sig!Linked(t, f)
    BY <1>3, <2>5, <2>6, <2>7 DEF Updated, ItemSays, SameNews, SameItem
  <2>9. \A f \in SigFds : SameClient(u, f)
    BY <1>0, <1>3, <2>8 DEF SameClient
  <2>10. ASSUME NEW f \in SigFds, table.fds[f].m_next # -2
         PROVE  /\ table.fds[f].m_ready \subseteq u.fds[f].m_ready
                /\ \A i \in 1..n : queue[i].fd = f => queue[i].band \subseteq u.fds[f].m_ready
                /\ \/ /\ \A i \in 1..n : queue[i].fd # f
                      /\ u.fds[f].m_ready = table.fds[f].m_ready /\ (Sig!Linked(u, f) <=> Sig!Linked(table, f))
                   \/ u.fds[f].m_ready \cap u.fds[f].m_mask # {} => Sig!Linked(u, f)
    <3>1. CASE f = fd
      <4>1. table.fds[f].m_ready \subseteq u.fds[f].m_ready
        BY <1>0, <2>2, <2>8, <2>10, <3>1
      <4>2. \A i \in 1..n : queue[i].fd = f => queue[i].band \subseteq u.fds[f].m_ready
        BY <1>0, <1>1, <2>2, <2>8, <2>10, <3>1
      <4> QED
        BY <2>8, <3>1, <4>1, <4>2
    <3>2. CASE f # fd
      <4>1. \A i \in 1..n : queue[i].fd = f => i \in 1..n - 1
        BY <1>1, <3>2 DEF fd
      <4> QED
        BY <1>0, <2>8, <2>10, <3>2, <4>1
    <3> QED
      BY <3>1, <3>2
  <2> QED
    BY <2>8, <2>9, <2>10 DEF TakesTo
<1> QED
  BY <1>2, <1>3

LEMMA TakenTakes == ASSUME SigLive PROVE \A n \in 0..Len(queue) : TakesTo(Sig!TakenTo[n], n)
<1>1. Len(queue) \in Nat
  BY LenProperties DEF SigLive, SigTypes
<1> DEFINE bad == {n \in 0..Len(queue) : ~TakesTo(Sig!TakenTo[n], n)}
<1>2. bad = {}
  <2> SUFFICES ASSUME bad # {} PROVE FALSE
    OBVIOUS
  <2>1. bad \in SUBSET Nat
    OBVIOUS
  <2>2. PICK n \in bad : \A k \in bad : n <= k
    BY <2>1, Lowest
  <2>3. n # 0
    <3>1. TakesTo(table, 0)
      BY DEF TakesTo, SameClient, SigLive
    <3> QED
      BY <1>1, <3>1, TakenInTurn
  <2>4. n - 1 \in 0..Len(queue) /\ n - 1 \notin bad /\ n \in 1..Len(queue)
    BY <1>1, <2>2, <2>3
  <2>5. TakesTo(Sig!TakenTo[n - 1], n - 1)
    BY <2>4
  <2>6. TakesTo(Sig!Announced(Sig!TakenTo[n - 1], queue[n]), n)
    BY <2>4, <2>5, TakesOneMore
  <2> QED
    BY <1>1, <2>2, <2>4, <2>6, TakenInTurn
<1> QED
  BY <1>2

\* The requests go with a table that has the client's masks.
LEMMA SameClientRequests ==
    ASSUME SigLive, UNCHANGED requests, \A f \in SigFds : SameClient(table', f)
    PROVE  SigRequestsInv'
<1>1. \A i \in 1..Len(requests) : requests[i].fd \in SigFds
  BY SigRequestFacts
<1> QED
  BY <1>1 DEF SigLive, SigRequestsInv, SameClient

\* A wait keeps what the client told, and what is ready is on the list.
LEMMA SigWaits == ASSUME SigLive, Sig!Wait \/ Sig!WaitScribbled PROVE SigInv'
<1>1. PICK t : t = Sig!Taken
  OBVIOUS
<1>2. TakesTo(t, Len(queue)) /\ TableOK(t)
  <2>1. Len(queue) \in 0..Len(queue)
    BY LenProperties DEF SigLive, SigTypes
  <2> QED
    BY <1>1, <2>1, TakenTakes DEF TakesTo, Sig!Taken
<1>3. CASE Sig!WaitScribbled
  <2>1. table' = [t EXCEPT !.failed = TRUE] /\ walk' = "failed"
    BY <1>1, <1>3 DEF Sig!WaitScribbled
  <2>2. table'.failed
    BY <1>2, <2>1 DEF TableOK, SigTable
  <2> QED
    BY <2>1, <2>2 DEF SigInv
<1>4. CASE Sig!Wait
  <2>1. /\ walk = "idle" /\ ~sigio /\ queue' = <<>> /\ table' = t /\ walk' = Sig!Walks(table')
        /\ UNCHANGED <<requests, fallback, revents, sigio, level, event>>
    BY <1>1, <1>4 DEF Sig!Wait, Sig!polled
  <2>2. \A f \in SigFds : SameClient(t, f)
    BY <1>2 DEF TakesTo
  <2>3. TableOK(table') /\ ~table'.failed /\ walk' \in {"idle", "next"}
    BY <1>2, <2>1 DEF TableOK, Sig!Walks
  <2>4. SigRequestsInv'
    BY <2>1, <2>2, SameClientRequests
  <2>5. event = Sig!NoEvent
    BY <2>1 DEF SigLive, SigTypes
  <2>6. SigTypes'
    <3>1. queue' \in Seq(SigSignal)
      BY <2>1
    <3> QED
      BY <2>1, <2>3, <2>5, <3>1 DEF SigLive, SigTypes
  <2>7. ASSUME NEW f \in SigFds PROVE SigKnows(f)'
    <3>1. SigKnows(f)
      BY <2>1 DEF SigLive
    <3>2. SameClient(t, f)
      BY <2>2
    <3>3. SUFFICES ASSUME table.fds[f].m_next # -2, NEW kind \in level[f]
                   PROVE  /\ kind \in t.fds[f].m_ready
                          /\ kind \in t.fds[f].m_ready \cap t.fds[f].m_mask => Sig!Linked(t, f)
      BY <2>1, <3>2 DEF SigKnows, SameClient
    <3>4. /\ table.fds[f].m_ready \subseteq t.fds[f].m_ready
          /\ \A i \in 1..Len(queue) : queue[i].fd = f => queue[i].band \subseteq t.fds[f].m_ready
          /\ \/ /\ \A i \in 1..Len(queue) : queue[i].fd # f
                /\ t.fds[f].m_ready = table.fds[f].m_ready /\ (Sig!Linked(t, f) <=> Sig!Linked(table, f))
             \/ t.fds[f].m_ready \cap t.fds[f].m_mask # {} => Sig!Linked(t, f)
      BY <1>2, <3>3 DEF TakesTo
    <3>5. kind \in t.fds[f].m_ready
      BY <2>1, <3>1, <3>3, <3>4 DEF SigKnows, SigAnnounced
    <3>6. f # event.source
      <4>1. -1 \notin SigFds
        BY MethodsAssumption
      <4> QED
        BY <2>5, <4>1 DEF Sig!NoEvent
    <3>7. kind \in t.fds[f].m_ready \cap t.fds[f].m_mask => Sig!Linked(t, f)
      <4>1. CASE t.fds[f].m_ready \cap t.fds[f].m_mask # {} => Sig!Linked(t, f)
        BY <4>1
      <4>2. CASE /\ \A i \in 1..Len(queue) : queue[i].fd # f
                 /\ t.fds[f].m_ready = table.fds[f].m_ready /\ (Sig!Linked(t, f) <=> Sig!Linked(table, f))
        <5>1. ~SigAnnounced(f, kind)
          BY <2>1, <4>2 DEF SigAnnounced
        <5> QED
          BY <3>1, <3>2, <3>3, <3>6, <4>2, <5>1 DEF SigKnows, SameClient
      <4> QED
        BY <3>4, <4>1, <4>2
    <3> QED
      BY <3>5, <3>7
  <2>8. \A f \in SigFds : SigAsked(f)'
    <3>1. \A f \in SigFds : table.fds[f].m_next = -2 => table'.fds[f].m_next = -2
      BY <2>1, <2>2 DEF SameClient
    <3> QED
      BY <2>1, <2>3, <3>1, SigAskedSame
  <2> QED
    BY <2>3, <2>4, <2>6, <2>7, <2>8 DEF SigInv, SigLive
<1> QED
  BY <1>3, <1>4

\* After an overflow the fallback sees what signals do not announce any more.
LEMMA SigOverflows == ASSUME SigLive, Sig!WaitOverflown PROVE SigInv'
<1>1. PICK n \in 0..Len(queue) : table' = Sig!TakenTo[n]
  BY DEF Sig!WaitOverflown
<1>2. /\ walk = "idle" /\ sigio' = FALSE /\ queue' = <<>> /\ revents' = level
      /\ walk' = IF table'.failed THEN "failed" ELSE "polling"
      /\ UNCHANGED <<requests, fallback, level, event>>
  BY DEF Sig!WaitOverflown
<1>3. TakesTo(table', n)
  BY <1>1, TakenTakes
<1>4. TableOK(table') /\ \A f \in SigFds : SameClient(table', f)
  BY <1>3 DEF TakesTo
<1>5. walk' = "polling"
  BY <1>2, <1>4 DEF TableOK
<1>6. SigRequestsInv'
  BY <1>2, <1>4, SameClientRequests
<1>7. SigTypes'
  <2>1. queue' \in Seq(SigSignal)
    BY <1>2
  <2> QED
    BY <1>2, <1>5, <2>1 DEF SigLive, SigTypes
<1>8. \A f \in SigFds : SigAsked(f)'
  BY <1>2, <1>4 DEF SigLive, SigAsked, SigFollowed, SameClient
<1> QED
  BY <1>4, <1>5, <1>6, <1>7, <1>8 DEF SigInv, SigLive

\* Where the fallback saw nothing, what is ready has been announced since.
LEMMA SigFallbackNone == ASSUME SigLive, Sig!FallbackNone PROVE SigInv'
<1>1. /\ walk = "polling" /\ walk' = Sig!Walks(table) /\ revents' = Sig!Quiet
      /\ \A i \in DOMAIN fallback : revents[fallback[i]] = {}
      /\ UNCHANGED <<requests, table, fallback, queue, sigio, level, event>>
  BY DEF Sig!FallbackNone, Sig!Shown
<1>2. TableOK(table') /\ SigRequestsInv' /\ walk' \in {"idle", "next"}
  BY <1>1 DEF SigLive, SigRequestsInv, TableOK, Sig!Walks
<1>3. DOMAIN fallback = 1..Len(fallback)
  BY LenProperties DEF SigLive, SigTypes
<1>4. SigTypes'
  <2>1. revents' \in [SigFds -> SUBSET SigKinds]
    BY <1>1 DEF Sig!Quiet
  <2>2. event = Sig!NoEvent
    BY <1>1 DEF SigLive, SigTypes
  <2> QED
    BY <1>1, <1>2, <2>1, <2>2 DEF SigLive, SigTypes
<1>5. ASSUME NEW f \in SigFds PROVE SigKnows(f)' /\ SigAsked(f)'
  <2>1. SigAsked(f)
    BY DEF SigLive
  <2>2. table.fds[f].m_next # -2 => SigFollowed(f) /\ revents[f] = {}
    BY <1>1, <1>3, <2>1 DEF SigAsked, SigFollowed
  <2>3. table.fds[f].m_next # -2 => \A kind \in level[f] : SigAnnounced(f, kind)
    BY <1>1, <2>1, <2>2 DEF SigAsked
  <2> QED
    BY <1>1, <1>2, <2>2, <2>3 DEF SigKnows, SigAsked, SigFollowed, SigAnnounced
<1> QED
  BY <1>2, <1>4, <1>5 DEF SigInv, SigLive

\* What the fallback answers replaces what was known; the list follows all the same.
LEMMA PolledProperties ==
    ASSUME SigLive, NEW fd \in SigFds, NEW events \in SUBSET SigKinds, NEW u, u = Sig!Polled(table, fd, events)
    PROVE  TableOK(u) /\ \A f \in SigFds : SameClient(u, f)
<1>1. TableOK(table)
  BY DEF SigLive
<1>2. CASE table.fds[fd].m_next = -2 \/ table.fds[fd].m_ready = events
  BY <1>1, <1>2 DEF Sig!Polled, Sig!UNUSED, SameClient
<1>3. CASE ~(table.fds[fd].m_next = -2 \/ table.fds[fd].m_ready = events)
  <2>1. PICK a : a = Told(table, fd, events)
    OBVIOUS
  <2>2. u = Sig!updateReady(a, fd)
    BY <1>3, <2>1 DEF Sig!Polled, Sig!UNUSED, Told
  <2>3. ItemSays(a, table, fd, table.fds[fd].m_mask, events)
    BY <1>1, <2>1, ItemTold
  <2>4. Updated(u, a, fd)
    <3>1. TableOK(a) /\ a.fds[fd].m_next # -2
      BY <1>3, <2>3 DEF ItemSays
    <3> QED
      BY <2>2, <3>1, UpdateReadyProperties
  <2> QED
    BY <2>3, <2>4 DEF SameClient, Updated, ItemSays, SameNews, SameItem
<1> QED
  BY <1>2, <1>3

LEMMA SigFallbackFound == ASSUME SigLive, Sig!FallbackFound PROVE SigInv'
<1>1. /\ walk = "polling" /\ UNCHANGED <<requests, fallback, revents, queue, sigio, level, event>>
  BY DEF Sig!FallbackFound
<1>2. PICK last \in DOMAIN fallback :
          IF last = Len(fallback) THEN Sig!Becomes([table EXCEPT !.failed = TRUE])
          ELSE Sig!Becomes(Sig!Polled(table, fallback[last + 1], revents[fallback[last]]))
  BY DEF Sig!FallbackFound, Sig!Shown
<1>3. table \in SigTable /\ fallback \in Seq(SigFds) /\ revents \in [SigFds -> SUBSET SigKinds]
  BY DEF SigLive, TableOK, SigTypes
<1>4. CASE last = Len(fallback)
  <2>1. PICK t : t = [table EXCEPT !.failed = TRUE]
    OBVIOUS
  <2>2. t.failed /\ Sig!Becomes(t)
    BY <1>2, <1>3, <1>4, <2>1 DEF SigTable
  <2> QED
    BY <2>2, SigFails
<1>5. CASE last # Len(fallback)
  <2>1. last \in 1..Len(fallback) /\ last + 1 \in 1..Len(fallback)
    BY <1>3, <1>5, LenProperties
  <2>2. fallback[last] \in SigFds /\ fallback[last + 1] \in SigFds
    BY <1>3, <2>1, ElementOfSeq
  <2>3. PICK events \in SUBSET SigKinds : events = revents[fallback[last]]
    BY <1>3, <2>2
  <2>4. PICK t : t = Sig!Polled(table, fallback[last + 1], events)
    OBVIOUS
  <2>5. Sig!Becomes(t)
    BY <1>2, <1>5, <2>3, <2>4
  <2>6. TableOK(t) /\ \A f \in SigFds : SameClient(t, f)
    BY <2>2, <2>4, PolledProperties
  <2>7. table' = t /\ walk' = "polling"
    BY <1>1, <2>5, <2>6 DEF Sig!Becomes, TableOK
  <2>8. SigRequestsInv'
    BY <1>1, <2>6, <2>7, SameClientRequests
  <2>9. SigTypes'
    BY <1>1, <2>7 DEF SigLive, SigTypes
  <2>10. \A f \in SigFds : SigAsked(f)'
    BY <1>1, <2>6, <2>7 DEF SigLive, SigAsked, SigFollowed, SigAnnounced, SameClient
  <2> QED
    BY <2>6, <2>7, <2>8, <2>9, <2>10 DEF SigInv, SigLive
<1> QED
  BY <1>4, <1>5

LEMMA SigKeeps == ASSUME SigInv, Sig!Next PROVE SigInv'
<1>1. SigLive
  <2>1. walk # "failed"
    BY DEF Sig!Next, Sig!Attach, Sig!AttachThrows, Sig!Detach, Sig!Clear, Sig!SetMask, Sig!AndMask, Sig!OrMask, Sig!Wait,
           Sig!WaitScribbled, Sig!WaitOverflown, Sig!FallbackNone, Sig!FallbackFound, Sig!NextFound, Sig!NextNone, Sig!HandlerReturns, Sig!Arrive, Sig!Running
  <2> QED
    BY <2>1 DEF SigInv
<1>2. ASSUME NEW fd \in SigFds, Sig!Detach(fd) \/ Sig!AttachThrows(fd) PROVE SigInv'
  BY <1>1, <1>2, SigDetach, SigAttachThrows
<1>3. ASSUME NEW fd \in SigFds, NEW mask \in SUBSET SigKinds,
             \/ Sig!Attach(fd, mask) \/ Sig!SetMask(fd, mask) \/ Sig!AndMask(fd, mask)
             \/ Sig!OrMask(fd, mask) \/ Sig!Arrive(fd, mask)
      PROVE  SigInv'
  BY <1>1, <1>3, SigAttach, SigMasks, SigArrive
<1>4. CASE Sig!Clear
  BY <1>1, <1>4, SigClear
<1>5. CASE Sig!Wait \/ Sig!WaitScribbled \/ Sig!WaitOverflown \/ Sig!FallbackNone \/ Sig!FallbackFound
  BY <1>1, <1>5, SigWaits, SigOverflows, SigFallbackNone, SigFallbackFound
<1>6. CASE Sig!NextFound \/ Sig!NextNone \/ Sig!HandlerReturns
  BY <1>1, <1>6, SigNextFound, SigNextNone, SigHandlerReturns
<1> QED
  BY <1>2, <1>3, <1>4, <1>5, <1>6 DEF Sig!Next

-----------------------------------------------------------------------------
(* The program uses one method.                                            *)

MethodsInv ==
    /\ method \in {"poll", "kqueue", "sig"}
    /\ method = "poll" => PollInv
    /\ method = "kqueue" => KqueueInv
    /\ method = "sig" => SigInv
    /\ method # "kqueue" => reported = {}

LEMMA MethodsStart == MCInit => MethodsInv
<1> SUFFICES ASSUME MCInit PROVE MethodsInv
  OBVIOUS
<1>1. CASE method \in {"poll", "sig"} /\ Poll!Init /\ reported = {}
  <2>1. PollInv /\ SigInv
    BY <1>1, PollStarts, SigStarts DEF MCInit
  <2> QED
    BY <1>1, <2>1 DEF MethodsInv
<1>2. CASE method = "kqueue" /\ Kqueue!Init
  <2>1. KqueueInv
    BY <1>2, KqueueStarts
  <2> QED
    BY <1>2, <2>1 DEF MethodsInv
<1> QED
  BY <1>1, <1>2 DEF MCInit

\* A step keeps the invariant, and does not end a walk over results with any left.
LEMMA MethodsKeep ==
    ASSUME MethodsInv, [MCNext]_MCvars
    PROVE  MethodsInv' /\ (walk = "next" /\ walk' = "idle" => reported' = {})
<1>1. CASE method = "poll" /\ Poll!Next /\ UNCHANGED <<method, kqueueOnly, sigOnly>>
  <2>1. PollInv'
    BY <1>1, PollKeeps DEF MethodsInv
  <2>2. method' = "poll" /\ reported' = {}
    BY <1>1 DEF MethodsInv, kqueueOnly
  <2> QED
    BY <2>1, <2>2 DEF MethodsInv
<1>2. CASE method = "kqueue" /\ Kqueue!Next /\ UNCHANGED <<method, pollOnly, sigOnly>>
  <2>1. KqueueInv' /\ (walk = "next" /\ walk' = "idle" => reported' = {})
    BY <1>2, KqueueKeeps DEF MethodsInv
  <2> QED
    BY <1>2, <2>1 DEF MethodsInv
<1>3. CASE method = "sig" /\ Sig!Next /\ UNCHANGED <<method, fd2req, fds, pollOnly, kqueueOnly>>
  <2>1. SigInv'
    BY <1>3, SigKeeps DEF MethodsInv
  <2>2. method' = "sig" /\ reported' = {}
    BY <1>3 DEF MethodsInv, kqueueOnly
  <2> QED
    BY <2>1, <2>2 DEF MethodsInv
<1>4. CASE UNCHANGED MCvars
  <2>1. UNCHANGED <<method, requests, fd2req, fds, polls, current, nready, walk, event, changes, unread, kernel, open,
                    reported, lost, table, fallback, revents, queue, sigio, level>>
    BY <1>4 DEF MCvars, mapOf, pollOnly, kqueueOnly, sigOnly
  <2>2. PollInv => PollInv'
    BY <2>1 DEF PollInv, Poll!TypeOK, Poll!MapTypeOK, Poll!MapInv, Poll!PollsInv
  <2>3. KqueueInv => KqueueInv'
    <3>1. \A fd \in KqueueFds : Kqueue!Registered(fd)' <=> Kqueue!Registered(fd)
      BY <2>1 DEF Kqueue!Registered
    <3>2. \A fd \in KqueueFds, kind \in KqueueKinds : Wants(fd, kind)' <=> Wants(fd, kind)
      BY <2>1 DEF Wants, Kqueue!Registered, Kqueue!Mask
    <3>3. KqueueTypes => KqueueTypes'
      BY <2>1 DEF KqueueTypes
    <3>4. KqueueQueueInv => KqueueQueueInv'
      BY <2>1, <3>1, <3>2 DEF KqueueQueueInv
    <3>5. KqueueResultsInv => KqueueResultsInv'
      BY <2>1 DEF KqueueResultsInv, Kqueue!Registered
    <3>6. Kqueue!MapTypeOK /\ Kqueue!MapInv => Kqueue!MapTypeOK' /\ Kqueue!MapInv'
      BY <2>1 DEF Kqueue!MapTypeOK, Kqueue!MapInv
    <3> QED
      BY <3>3, <3>4, <3>5, <3>6 DEF KqueueInv
  <2>4. SigInv => SigInv'
    <3>1. SigLive => SigInv'
      <4>1. SigLive => SigTypes'
        BY <2>1 DEF SigLive, SigTypes
      <4>2. \A fd \in SigFds : (SigKnows(fd) => SigKnows(fd)') /\ (SigAsked(fd) => SigAsked(fd)')
        BY <2>1 DEF SigKnows, SigAnnounced, SigAsked, SigFollowed
      <4> QED
        BY <2>1, <4>1, <4>2, SigSame
    <3> QED
      BY <2>1, <3>1 DEF SigInv
  <2> QED
    BY <2>1, <2>2, <2>3, <2>4 DEF MethodsInv
<1> QED
  BY <1>1, <1>2, <1>3, <1>4 DEF MCNext

(* Whatever is attached, detached and masked, the vector for poll () and   *)
(* the table of descriptors follow the requests, and what is queued for    *)
(* kevent () brings the kernel to the masks (IOSelectPoll.cpp attach,      *)
(* detach, setMask; IOSelectKqueue.cpp attach to wait; IOSelectFdMap.cpp). *)
THEOREM MethodsFollowMasksCorrect == MCSpec => []MethodsFollowMasks
<1>1. MethodsInv => MethodsFollowMasks
  <2> SUFFICES ASSUME MethodsInv PROVE MethodsFollowMasks
    OBVIOUS
  <2>1. KqueueInv => Kqueue!TypeOK /\ Kqueue!MasksArrive
    BY KqueueInvSays
  <2> QED
    BY <2>1 DEF MethodsInv, MethodsFollowMasks, PollInv
<1> QED
  BY <1>1, MethodsStart, MethodsKeep, PTL DEF MCSpec, MCvars

(* The ready list stays whole, and nothing that is ready and wanted is off *)
(* it and unannounced, unless the fallback is being asked (IOSelectSig.cpp *)
(* addReady, delReady, updateReady, attach to wait).                       *)
THEOREM SignalsSufficeCorrect == MCSpec => []SignalsSuffice
<1>1. MethodsInv => SignalsSuffice
  BY SigInvSays DEF MethodsInv, SignalsSuffice
<1> QED
  BY <1>1, MethodsStart, MethodsKeep, PTL DEF MCSpec, MCvars

(* The walk over what kevent () returned ends when all of it was handed    *)
(* out (IOSelectKqueue.cpp next).                                          *)
THEOREM ResultsHandedOutCorrect == MCSpec => ResultsHandedOut
<1>1. MethodsInv /\ [MCNext]_MCvars => [walk = "next" /\ walk' = "idle" => reported' = {}]_(Kqueue!vars)
  BY MethodsKeep
<1> QED
  BY <1>1, MethodsStart, MethodsKeep, PTL DEF MCSpec, MCvars, ResultsHandedOut, Kqueue!NothingLost

=============================================================================
