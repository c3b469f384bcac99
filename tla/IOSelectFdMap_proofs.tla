------------------------ MODULE IOSelectFdMap_proofs ------------------------
(***************************************************************************)
(* Facts about the table of IOSelectFdMap and the vector of requests it    *)
(* leads into, used in the proofs about the selection methods.             *)
(***************************************************************************)
EXTENDS IOSelectFdMap, TLAPS, SequenceTheorems

(* Erasing element i of a sequence: what is left, and where it went.       *)
LEMMA RemoveAtProperties ==
    ASSUME NEW S, NEW s \in Seq(S), NEW i \in DOMAIN s
    PROVE  /\ RemoveAt(s, i) \in Seq(S)
           /\ Len(RemoveAt(s, i)) = Len(s) - 1
           /\ DOMAIN RemoveAt(s, i) = 1..(Len(s) - 1)
           /\ \A j \in 1..(Len(s) - 1) :
                  RemoveAt(s, i)[j] = IF j < i THEN s[j] ELSE s[j + 1]
<1> DEFINE front == SubSeq(s, 1, i - 1)
           back == SubSeq(s, i + 1, Len(s))
<1>1. Len(s) \in Nat /\ DOMAIN s = 1..Len(s) /\ i \in 1..Len(s)
  BY LenProperties
<1>2. \A j \in 1..Len(s) : s[j] \in S
  BY ElementOfSeq
<1>3. RemoveAt(s, i) = front \o back
  BY DEF RemoveAt
<1>4. /\ front \in Seq(S)
      /\ Len(front) = i - 1
      /\ \A j \in 1..(i - 1) : front[j] = s[j]
  <2>1. i - 1 \in Int /\ 1 \in Int /\ \A j \in 1..(i - 1) : s[j] \in S
    BY <1>1, <1>2
  <2>2. /\ SubSeq(s, 1, i - 1) \in Seq(S)
        /\ Len(SubSeq(s, 1, i - 1)) = IF 1 <= i - 1 THEN i - 1 - 1 + 1 ELSE 0
        /\ \A j \in 1..(i - 1 - 1 + 1) : SubSeq(s, 1, i - 1)[j] = s[1 + j - 1]
    BY <2>1, SubSeqProperties
  <2> QED
    BY <1>1, <2>2
<1>5. /\ back \in Seq(S)
      /\ Len(back) = Len(s) - i
      /\ \A j \in 1..(Len(s) - i) : back[j] = s[i + j]
  <2>1. i + 1 \in Int /\ Len(s) \in Int /\ \A j \in (i + 1)..Len(s) : s[j] \in S
    BY <1>1, <1>2
  <2>2. /\ SubSeq(s, i + 1, Len(s)) \in Seq(S)
        /\ Len(SubSeq(s, i + 1, Len(s))) =
               IF i + 1 <= Len(s) THEN Len(s) - (i + 1) + 1 ELSE 0
        /\ \A j \in 1..(Len(s) - (i + 1) + 1) :
               SubSeq(s, i + 1, Len(s))[j] = s[i + 1 + j - 1]
    BY <2>1, SubSeqProperties
  <2> QED
    BY <1>1, <2>2
<1> HIDE DEF front, back
<1>6. /\ front \o back \in Seq(S)
      /\ Len(front \o back) = Len(front) + Len(back)
      /\ \A j \in 1..(Len(front) + Len(back)) :
             (front \o back)[j] = IF j <= Len(front) THEN front[j]
                                  ELSE back[j - Len(front)]
  BY <1>4, <1>5, ConcatProperties
<1>7. \A j \in 1..(Len(s) - 1) :
          RemoveAt(s, i)[j] = IF j < i THEN s[j] ELSE s[j + 1]
  <2> TAKE j \in 1..(Len(s) - 1)
  <2>1. (front \o back)[j] = IF j <= i - 1 THEN front[j] ELSE back[j - (i - 1)]
    BY SMTT(30), <1>1, <1>4, <1>5, <1>6
  <2>2. CASE j < i
    <3>1. j \in 1..(i - 1) /\ j <= i - 1
      BY <1>1, <2>2
    <3>2. (front \o back)[j] = front[j] /\ front[j] = s[j]
      BY <1>4, <2>1, <3>1
    <3> QED
      BY <1>3, <2>2, <3>2
  <2>3. CASE ~(j < i)
    <3>1. j - (i - 1) \in 1..(Len(s) - i) /\ i + (j - (i - 1)) = j + 1
      BY <1>1, <2>3
    <3>2. back[j - (i - 1)] = s[i + (j - (i - 1))]
      BY <1>5, <3>1
    <3>3. back[j - (i - 1)] = s[j + 1]
      BY <3>1, <3>2
    <3>4. ~(j <= i - 1)
      BY <1>1, <2>3
    <3>5. (front \o back)[j] = back[j - (i - 1)]
      BY <2>1, <3>4
    <3> QED
      BY <1>3, <2>3, <3>3, <3>5
  <2> QED
    BY <2>2, <2>3
<1>8. Len(RemoveAt(s, i)) = Len(s) - 1 /\ RemoveAt(s, i) \in Seq(S)
  BY <1>1, <1>3, <1>4, <1>5, <1>6
<1> QED
  BY <1>7, <1>8, LenProperties

(* What MapInv says of one descriptor: it is registered just when its      *)
(* entry is used, and then the entry leads to its own request.             *)
LEMMA RegisteredEntry ==
    ASSUME MapTypeOK, MapInv, NEW fd \in Fds
    PROVE  /\ Registered(fd) <=> fd2req[fd] # Unused
           /\ Registered(fd) => /\ fd2req[fd] \in 1..Len(requests)
                                /\ requests[fd2req[fd]] \in Request
                                /\ requests[fd2req[fd]].fd = fd
<1>1. /\ DOMAIN requests = 1..Len(requests)
      /\ \A i \in 1..Len(requests) : requests[i] \in Request
  BY LenProperties, ElementOfSeq DEF MapTypeOK
<1> QED
  BY <1>1 DEF MapInv, Registered, Unused

(* Appending the request of an unused descriptor keeps the table and the   *)
(* vector inverse to each other, and the request of every other one.       *)
LEMMA AddRequestProperties ==
    ASSUME MapTypeOK, MapInv, NEW req \in Request, FdMapAsserts(req.fd),
           AddRequest(req)
    PROVE  /\ MapTypeOK'
           /\ MapInv'
           /\ \A fd \in Fds : Registered(fd)' <=> Registered(fd) \/ fd = req.fd
           /\ \A fd \in Fds : Registered(fd)' =>
                  requests'[fd2req'[fd]] = IF fd = req.fd THEN req
                                           ELSE requests[fd2req[fd]]
<1>1. /\ Len(requests) \in Nat
      /\ DOMAIN requests = 1..Len(requests)
      /\ \A i \in 1..Len(requests) : requests[i] \in Request
  BY LenProperties, ElementOfSeq DEF MapTypeOK
<1>2. req.fd \in Fds /\ req.fd \in Nat
  BY FdsAssumption DEF Request
<1>3. /\ requests' \in Seq(Request)
      /\ Len(requests') = Len(requests) + 1
      /\ DOMAIN requests' = 1..(Len(requests) + 1)
      /\ \A i \in 1..Len(requests) : requests'[i] = requests[i]
      /\ requests'[Len(requests) + 1] = req
  BY <1>1, AppendProperties, LenProperties DEF AddRequest, MapTypeOK
<1>4. /\ fd2req' \in [Fds -> Nat]
      /\ \A fd \in Fds : fd2req'[fd] = IF fd = req.fd THEN Len(requests) + 1
                                       ELSE fd2req[fd]
  BY <1>1, <1>2 DEF AddRequest, MapTypeOK
<1>5. fds' \in Nat /\ fds' >= fds /\ req.fd < fds'
  BY <1>2 DEF AddRequest, MapTypeOK
<1>6. MapTypeOK'
  BY <1>3, <1>4, <1>5 DEF MapTypeOK
<1>7. \A fd \in Fds : Registered(fd)' <=> Registered(fd) \/ fd = req.fd
  <2> TAKE fd \in Fds
  <2>1. Registered(fd) <=> fd2req[fd] # Unused
    BY RegisteredEntry
  <2>2. fd2req[fd] \in Nat /\ (fd2req[fd] # Unused => fd2req[fd] \in 1..Len(requests))
    BY <1>1 DEF MapTypeOK, MapInv
  <2> QED
    BY <1>1, <1>3, <1>4, <2>1, <2>2 DEF Registered, Unused
<1>8. MapInv'
  <2>1. \A i \in DOMAIN requests' : fd2req'[requests'[i].fd] = i
    <3> TAKE i \in DOMAIN requests'
    <3>1. CASE i \in 1..Len(requests)
      <4>1. requests[i].fd \in Fds /\ fd2req[requests[i].fd] = i
        BY <1>1, <3>1 DEF MapInv, Request
      <4>2. requests[i].fd # req.fd
        BY <3>1, <4>1 DEF FdMapAsserts, Unused
      <4> QED
        BY <1>3, <1>4, <3>1, <4>1, <4>2
    <3>2. CASE i = Len(requests) + 1
      BY <1>2, <1>3, <1>4, <3>2
    <3> QED
      BY <1>1, <1>3, <3>1, <3>2
  <2>2. \A fd \in Fds : fd2req'[fd] # Unused =>
            /\ fd2req'[fd] \in DOMAIN requests'
            /\ requests'[fd2req'[fd]].fd = fd
            /\ fd < fds'
    <3> SUFFICES ASSUME NEW fd \in Fds, fd2req'[fd] # Unused
                 PROVE  /\ fd2req'[fd] \in DOMAIN requests'
                        /\ requests'[fd2req'[fd]].fd = fd
                        /\ fd < fds'
      OBVIOUS
    <3>1. CASE fd = req.fd
      BY <1>1, <1>3, <1>4, <1>5, <3>1
    <3>2. CASE fd # req.fd
      <4>1. /\ fd2req'[fd] = fd2req[fd]
            /\ fd2req[fd] \in 1..Len(requests)
            /\ requests[fd2req[fd]].fd = fd
            /\ fd < fds
        BY <1>1, <1>4, <3>2 DEF MapInv
      <4>2. fd \in Nat /\ fds \in Nat
        BY FdsAssumption DEF MapTypeOK
      <4> QED
        BY <1>1, <1>3, <1>5, <4>1, <4>2
    <3> QED
      BY <3>1, <3>2
  <2> QED
    BY <2>1, <2>2 DEF MapInv
<1>9. \A fd \in Fds : Registered(fd)' =>
          requests'[fd2req'[fd]] = IF fd = req.fd THEN req
                                   ELSE requests[fd2req[fd]]
  <2> SUFFICES ASSUME NEW fd \in Fds, Registered(fd)'
               PROVE  requests'[fd2req'[fd]] = IF fd = req.fd THEN req
                                               ELSE requests[fd2req[fd]]
    OBVIOUS
  <2>1. CASE fd = req.fd
    BY <1>3, <1>4, <2>1
  <2>2. CASE fd # req.fd
    <3>1. fd2req[fd] \in 1..Len(requests)
      BY <1>1, <1>7, <2>2 DEF Registered
    <3> QED
      BY <1>3, <1>4, <2>2, <3>1
  <2> QED
    BY <2>1, <2>2
<1> QED
  BY <1>6, <1>7, <1>8, <1>9

(* Removing the request of a descriptor: the loop of fdclear renumbers     *)
(* just what the erase moves, and every other descriptor keeps its request.*)
LEMMA RemoveRequestProperties ==
    ASSUME MapTypeOK, MapInv, NEW fd \in Fds, Registered(fd), RemoveRequest(fd)
    PROVE  /\ MapTypeOK'
           /\ MapInv'
           /\ \A f \in Fds : Registered(f)' <=> Registered(f) /\ f # fd
           /\ \A f \in Fds : Registered(f)' =>
                  requests'[fd2req'[f]] = requests[fd2req[f]]
<1> DEFINE n == Len(requests)
           at == fd2req[fd]
<1>1. /\ n \in Nat
      /\ DOMAIN requests = 1..n
      /\ \A i \in 1..n : requests[i] \in Request
  BY LenProperties, ElementOfSeq DEF MapTypeOK
<1>2. at \in 1..n /\ requests[at].fd = fd
  BY <1>1, RegisteredEntry
<1>3. /\ requests' \in Seq(Request)
      /\ DOMAIN requests' = 1..(n - 1)
      /\ \A j \in 1..(n - 1) :
             requests'[j] = IF j < at THEN requests[j] ELSE requests[j + 1]
  BY <1>1, <1>2, RemoveAtProperties DEF RemoveRequest, MapTypeOK
<1>4. \A f \in Fds : /\ fd2req[f] \in 0..n
                     /\ f # fd => fd2req[f] # at
  BY <1>1, <1>2, RegisteredEntry DEF MapTypeOK, MapInv, Unused
<1>5. /\ fd2req' \in [Fds -> Nat]
      /\ \A f \in Fds : fd2req'[f] = IF f = fd THEN 0
                                     ELSE IF fd2req[f] > at THEN fd2req[f] - 1
                                     ELSE fd2req[f]
  BY <1>1, <1>2, <1>4 DEF RemoveRequest, FdClear, Unused
<1> HIDE DEF n, at
<1>6. MapTypeOK'
  BY <1>3, <1>5 DEF MapTypeOK, RemoveRequest
<1>7. \A f \in Fds : f # fd /\ fd2req[f] # 0 =>
          /\ fd2req'[f] \in 1..(n - 1)
          /\ requests'[fd2req'[f]] = requests[fd2req[f]]
  <2> SUFFICES ASSUME NEW f \in Fds, f # fd, fd2req[f] # 0
               PROVE  /\ fd2req'[f] \in 1..(n - 1)
                      /\ requests'[fd2req'[f]] = requests[fd2req[f]]
    OBVIOUS
  <2>1. fd2req[f] \in 1..n /\ fd2req[f] # at
    BY <1>1, <1>4
  <2>2. CASE fd2req[f] > at
    <3>1. /\ fd2req'[f] = fd2req[f] - 1
          /\ fd2req'[f] \in 1..(n - 1)
          /\ ~(fd2req'[f] < at)
          /\ fd2req'[f] + 1 = fd2req[f]
      BY <1>1, <1>2, <1>5, <2>1, <2>2
    <3> QED
      BY <1>3, <3>1
  <2>3. CASE fd2req[f] < at
    <3>1. fd2req'[f] = fd2req[f] /\ fd2req'[f] \in 1..(n - 1) /\ fd2req'[f] < at
      BY <1>1, <1>2, <1>5, <2>1, <2>3
    <3> QED
      BY <1>3, <3>1
  <2> QED
    BY <1>1, <1>2, <2>1, <2>2, <2>3
<1>8. \A f \in Fds : Registered(f) <=> fd2req[f] # 0
  BY RegisteredEntry DEF Unused
<1>9. \A f \in Fds : Registered(f)' <=> Registered(f) /\ f # fd
  <2> TAKE f \in Fds
  <2>1. Registered(f)' <=> fd2req'[f] \in 1..(n - 1)
    BY <1>3 DEF Registered
  <2>2. CASE f = fd
    BY <1>5, <2>1, <2>2
  <2>3. CASE f # fd /\ fd2req[f] = 0
    BY <1>1, <1>2, <1>5, <1>8, <2>1, <2>3
  <2>4. CASE f # fd /\ fd2req[f] # 0
    BY <1>7, <1>8, <2>1, <2>4
  <2> QED
    BY <2>2, <2>3, <2>4
<1>10. MapInv'
  <2>1. \A i \in DOMAIN requests' : fd2req'[requests'[i].fd] = i
    <3> SUFFICES ASSUME NEW i \in 1..(n - 1)
                 PROVE  fd2req'[requests'[i].fd] = i
      BY <1>3
    <3> DEFINE k == IF i < at THEN i ELSE i + 1
    <3>1. k \in 1..n /\ k # at /\ (k < at => i = k) /\ (k > at => i = k - 1)
      BY <1>1, <1>2
    <3>2. requests'[i] = requests[k]
      BY <1>3
    <3> HIDE DEF k
    <3>3. requests[k].fd \in Fds /\ fd2req[requests[k].fd] = k
      BY <1>1, <3>1 DEF MapInv, Request
    <3>4. requests[k].fd # fd
      BY <3>1, <3>3 DEF at
    <3>5. fd2req'[requests[k].fd] = IF k > at THEN k - 1 ELSE k
      BY <1>5, <3>3, <3>4
    <3> QED
      BY <1>1, <1>2, <3>1, <3>2, <3>5
  <2>2. \A f \in Fds : fd2req'[f] # Unused =>
            /\ fd2req'[f] \in DOMAIN requests'
            /\ requests'[fd2req'[f]].fd = f
            /\ f < fds'
    <3> SUFFICES ASSUME NEW f \in Fds, fd2req'[f] # 0
                 PROVE  /\ fd2req'[f] \in DOMAIN requests'
                        /\ requests'[fd2req'[f]].fd = f
                        /\ f < fds'
      BY DEF Unused
    <3>1. f # fd
      BY <1>5
    <3>2. fd2req[f] # 0
      BY <1>1, <1>2, <1>5, <3>1
    <3>3. requests[fd2req[f]].fd = f /\ f < fds
      BY <3>2 DEF MapInv, Unused
    <3>4. fds' = fds
      BY DEF RemoveRequest
    <3> QED
      BY <1>3, <1>7, <3>1, <3>2, <3>3, <3>4
  <2> QED
    BY <2>1, <2>2 DEF MapInv
<1>11. \A f \in Fds : Registered(f)' => requests'[fd2req'[f]] = requests[fd2req[f]]
  BY <1>7, <1>8, <1>9
<1> QED
  BY <1>6, <1>9, <1>10, <1>11

(* Changing the mask of a registered descriptor touches nothing else.      *)
LEMMA AssignMaskProperties ==
    ASSUME MapTypeOK, MapInv, NEW fd \in Fds, Registered(fd),
           NEW mask \in SUBSET Kinds, AssignMask(fd, mask)
    PROVE  /\ MapTypeOK'
           /\ MapInv'
           /\ \A f \in Fds : Registered(f)' <=> Registered(f)
           /\ \A f \in Fds : Registered(f)' =>
                  requests'[fd2req'[f]] =
                      IF f = fd THEN [requests[fd2req[fd]] EXCEPT !.mask = mask]
                      ELSE requests[fd2req[f]]
<1>1. /\ Len(requests) \in Nat
      /\ DOMAIN requests = 1..Len(requests)
      /\ \A i \in 1..Len(requests) : requests[i] \in Request
  BY LenProperties, ElementOfSeq DEF MapTypeOK
<1>2. fd2req[fd] \in 1..Len(requests) /\ requests[fd2req[fd]].fd = fd
  BY RegisteredEntry
<1> DEFINE new == [requests[fd2req[fd]] EXCEPT !.mask = mask]
<1>3. new \in Request /\ new.fd = fd
  BY <1>1, <1>2 DEF Request
<1>4. requests' = [requests EXCEPT ![fd2req[fd]] = new]
  BY DEF AssignMask
<1> HIDE DEF new
<1>5. /\ requests' \in Seq(Request)
      /\ DOMAIN requests' = 1..Len(requests)
      /\ \A i \in 1..Len(requests) :
             requests'[i] = IF i = fd2req[fd] THEN new ELSE requests[i]
  <2>1. requests \in [1..Len(requests) -> Request]
    BY LenProperties DEF MapTypeOK
  <2>2. requests' \in [1..Len(requests) -> Request]
    BY <1>3, <1>4, <2>1
  <2> QED
    BY <1>1, <1>4, <2>1, <2>2, IsASeq
<1>6. fd2req' = fd2req /\ fds' = fds
  BY DEF AssignMask
<1>7. MapTypeOK'
  BY <1>5, <1>6 DEF MapTypeOK
<1>8. \A i \in 1..Len(requests) : requests'[i].fd = requests[i].fd
  BY <1>2, <1>3, <1>5
<1>9. MapInv'
  BY <1>1, <1>5, <1>6, <1>8 DEF MapInv
<1>10. \A f \in Fds : Registered(f)' <=> Registered(f)
  BY <1>1, <1>5, <1>6 DEF Registered
<1>11. \A f \in Fds : Registered(f) =>
           requests'[fd2req'[f]] = IF f = fd THEN new ELSE requests[fd2req[f]]
  <2> SUFFICES ASSUME NEW f \in Fds, Registered(f)
               PROVE  requests'[fd2req'[f]] = IF f = fd THEN new
                                              ELSE requests[fd2req[f]]
    OBVIOUS
  <2>1. fd2req[f] \in 1..Len(requests) /\ requests[fd2req[f]].fd = f
    BY RegisteredEntry
  <2> QED
    BY <1>2, <1>5, <1>6, <2>1
<1> QED
  BY <1>7, <1>9, <1>10, <1>11 DEF new

(* The empty table and the empty vector.                                   *)
LEMMA EmptyMapProperties ==
    /\ MapInit => MapTypeOK /\ MapInv /\ \A fd \in Fds : ~Registered(fd)
    /\ MapClear => MapTypeOK' /\ MapInv' /\ \A fd \in Fds : ~Registered(fd)'
<1>1. EmptyRequests \in Seq(Request) /\ DOMAIN EmptyRequests = {}
  BY DEF EmptyRequests
<1>2. EmptyMap \in [Fds -> Nat] /\ \A fd \in Fds : EmptyMap[fd] = Unused
  BY DEF EmptyMap, Unused
<1>3. ASSUME MapInit
      PROVE  MapTypeOK /\ MapInv /\ \A fd \in Fds : ~Registered(fd)
  <2>1. requests = EmptyRequests /\ fd2req = EmptyMap /\ fds = 0
    BY <1>3 DEF MapInit
  <2> QED
    BY <1>1, <1>2, <2>1 DEF MapTypeOK, MapInv, Registered
<1>4. ASSUME MapClear
      PROVE  MapTypeOK' /\ MapInv' /\ \A fd \in Fds : ~Registered(fd)'
  <2>1. requests' = EmptyRequests /\ fd2req' = EmptyMap /\ fds' = 0
    BY <1>4 DEF MapClear
  <2>2. MapTypeOK'
    BY <1>1, <1>2, <2>1 DEF MapTypeOK
  <2>3. MapInv'
    BY <1>1, <1>2, <2>1 DEF MapInv
  <2>4. \A fd \in Fds : ~Registered(fd)'
    BY <1>1, <2>1 DEF Registered
  <2> QED
    BY <2>2, <2>3, <2>4
<1> QED
  BY <1>3, <1>4
=============================================================================
