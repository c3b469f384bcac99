------------------------- MODULE IOSelector_proofs -------------------------
(***************************************************************************)
(* Proofs about IOSelector over IOSelectSelect.                            *)
(*                                                                         *)
(* The first part needs no rule of the client: the types, the table of     *)
(* descriptors, the interest sets and the limit are right after any        *)
(* sequence of calls.  The second part is about clients that keep all the  *)
(* rules: no assertion fails, and what select () reported is delivered     *)
(* once, to the channel it was reported for.                               *)
(***************************************************************************)
EXTENDS IOSelector, IOSelectFdMap_proofs, FiniteSetTheorems

-----------------------------------------------------------------------------
(* The status sets are finite, so that counting their bits gives a number. *)
LEMMA BitsFinite ==
    ASSUME NEW s
    PROVE  /\ IsFiniteSet(Bits(s))
           /\ Cardinality(Bits(s)) \in Nat
<1>1. IsFiniteSet(Kinds \X Fds)
  BY FiniteAssumption, FS_Product
<1>2. Bits(s) \subseteq Kinds \X Fds
  BY DEF Bits
<1> QED
  BY <1>1, <1>2, FS_Subset, FS_CardinalityType

LEMMA EventsFinite ==
    ASSUME NEW fd
    PROVE  /\ IsFiniteSet(Events(fd))
           /\ Cardinality(Events(fd)) \in Nat
<1>1. Events(fd) \subseteq Kinds
  BY DEF Events
<1> QED
  BY <1>1, FiniteAssumption, FS_Subset, FS_CardinalityType

(* An attached channel is the source of some registered descriptor.        *)
LEMMA AttachedIsRegistered ==
    ASSUME MapTypeOK, MapInv, NEW c \in Channels
    PROVE  Attached(c) <=> \E fd \in Fds : Registered(fd) /\ Source(fd) = c
<1>1. ASSUME NEW i \in DOMAIN requests, requests[i].channel = c
      PROVE  \E fd \in Fds : Registered(fd) /\ Source(fd) = c
  <2>1. requests[i] \in Request
    BY LenProperties, ElementOfSeq DEF MapTypeOK
  <2>2. requests[i].fd \in Fds /\ fd2req[requests[i].fd] = i
    BY <2>1 DEF Request, MapInv
  <2> QED
    BY <1>1, <2>2 DEF Registered, Source
<1>2. ASSUME NEW fd \in Fds, Registered(fd), Source(fd) = c
      PROVE  Attached(c)
  BY <1>2 DEF Registered, Source, Attached
<1> QED
  BY <1>1, <1>2 DEF Attached

-----------------------------------------------------------------------------
(* What each operation of IOSelectSelect keeps.                            *)

SelectInv == MapTypeOK /\ SelectTypeOK /\ MapInv /\ WantInv /\ LimitInv

LEMMA SelectInitKeeps == SelectInit => SelectInv
<1> SUFFICES ASSUME SelectInit PROVE SelectInv
  OBVIOUS
<1>1. /\ MapTypeOK /\ MapInv
      /\ \A fd \in Fds : ~Registered(fd)
  BY EmptyMapProperties DEF SelectInit
<1>2. want = NoFds /\ status = NoFds /\ maxfd = -1 /\ current = -1 /\ nready = 0
  BY DEF SelectInit
<1> QED
  BY <1>1, <1>2 DEF SelectInv, SelectTypeOK, WantInv, LimitInv, NoFds

LEMMA SelectClearKeeps ==
    ASSUME SelectInv, SelectClear
    PROVE  SelectInv' /\ \A fd \in Fds : ~Registered(fd)'
<1>1. /\ MapTypeOK' /\ MapInv'
      /\ \A fd \in Fds : ~Registered(fd)'
  BY EmptyMapProperties DEF SelectClear
<1>2. /\ want' = NoFds /\ maxfd' = -1 /\ current' = -1 /\ nready' = 0
      /\ status' = status
  BY DEF SelectClear
<1>3. SelectTypeOK'
  BY <1>2 DEF SelectInv, SelectTypeOK, NoFds
<1>4. WantInv'
  BY <1>1, <1>2 DEF WantInv, NoFds
<1>5. LimitInv'
  BY <1>2 DEF LimitInv, NoFds
<1> QED
  BY <1>1, <1>3, <1>4, <1>5 DEF SelectInv

LEMMA SelectAttachKeeps ==
    ASSUME SelectInv, NEW req \in Request, SelectAttachAsserts(req.fd),
           SelectAttach(req)
    PROVE  /\ SelectInv'
           /\ \A fd \in Fds : Registered(fd)' <=> Registered(fd) \/ fd = req.fd
           /\ \A fd \in Fds : Registered(fd)' =>
                  requests'[fd2req'[fd]] = IF fd = req.fd THEN req
                                           ELSE requests[fd2req[fd]]
<1> USE DEF SelectInv
<1>1. /\ MapTypeOK' /\ MapInv'
      /\ \A fd \in Fds : Registered(fd)' <=> Registered(fd) \/ fd = req.fd
      /\ \A fd \in Fds : Registered(fd)' =>
             requests'[fd2req'[fd]] = IF fd = req.fd THEN req
                                      ELSE requests[fd2req[fd]]
  BY AddRequestProperties DEF SelectAttachAsserts, SelectAttach
<1>2. req.fd \in Fds /\ req.fd \in Nat /\ req.mask \in SUBSET Kinds
  BY FdsAssumption DEF Request
<1>3. /\ maxfd' = IF req.fd > maxfd THEN req.fd ELSE maxfd
      /\ status' = status /\ current' = current /\ nready' = nready
      /\ want' = [k \in Kinds |-> IF k \in req.mask THEN want[k] \cup {req.fd}
                                  ELSE want[k]]
  BY DEF SelectAttach
<1>4. SelectTypeOK'
  BY <1>2, <1>3 DEF SelectTypeOK
<1>5. ~Registered(req.fd)
  BY <1>2, RegisteredEntry DEF SelectAttachAsserts, FdMapAsserts
<1>6. WantInv'
  <2> SUFFICES ASSUME NEW fd \in Fds, NEW k \in Kinds
               PROVE  fd \in want'[k] <=>
                          Registered(fd)' /\ k \in requests'[fd2req'[fd]].mask
    BY DEF WantInv
  <2>1. fd \in want[k] <=> Registered(fd) /\ k \in requests[fd2req[fd]].mask
    BY DEF WantInv
  <2>2. fd \in want'[k] <=> fd \in want[k] \/ (fd = req.fd /\ k \in req.mask)
    BY <1>3
  <2>3. CASE fd = req.fd
    BY <1>1, <1>5, <2>1, <2>2, <2>3
  <2>4. CASE fd # req.fd
    BY <1>1, <2>1, <2>2, <2>4
  <2> QED
    BY <2>3, <2>4
<1>7. LimitInv'
  <2> SUFFICES ASSUME NEW k \in Kinds, NEW fd \in want'[k]
               PROVE  fd <= maxfd'
    BY DEF LimitInv
  <2>1. fd \in want[k] \/ fd = req.fd
    BY <1>3
  <2>2. fd \in want[k] => fd <= maxfd /\ fd \in Nat
    BY FdsAssumption DEF LimitInv, SelectTypeOK
  <2>3. maxfd \in Int
    BY FdsAssumption DEF SelectTypeOK
  <2> QED
    BY <1>2, <1>3, <2>1, <2>2, <2>3
<1> QED
  BY <1>1, <1>4, <1>6, <1>7

LEMMA SelectSetMaskKeeps ==
    ASSUME SelectInv, NEW fd \in Fds, NEW mask \in SUBSET Kinds,
           SelectMaskAsserts(fd), SelectSetMask(fd, mask)
    PROVE  /\ SelectInv'
           /\ \A f \in Fds : Registered(f)' <=> Registered(f)
           /\ \A f \in Fds : Registered(f)' =>
                  requests'[fd2req'[f]] =
                      IF f = fd THEN [requests[fd2req[fd]] EXCEPT !.mask = mask]
                      ELSE requests[fd2req[f]]
<1> USE DEF SelectInv
<1>1. Registered(fd) /\ fd <= maxfd
  BY DEF SelectMaskAsserts
<1>2. /\ MapTypeOK' /\ MapInv'
      /\ \A f \in Fds : Registered(f)' <=> Registered(f)
      /\ \A f \in Fds : Registered(f)' =>
             requests'[fd2req'[f]] =
                 IF f = fd THEN [requests[fd2req[fd]] EXCEPT !.mask = mask]
                 ELSE requests[fd2req[f]]
  BY <1>1, AssignMaskProperties DEF SelectSetMask
<1>3. /\ maxfd' = maxfd /\ status' = status /\ current' = current /\ nready' = nready
      /\ want' = [k \in Kinds |-> IF k \in mask THEN want[k] \cup {fd}
                                  ELSE want[k] \ {fd}]
  BY DEF SelectSetMask, WantWith
<1>4. SelectTypeOK'
  BY <1>3 DEF SelectTypeOK
<1>5. requests[fd2req[fd]] \in Request
  BY <1>1, RegisteredEntry
<1>6. WantInv'
  <2> SUFFICES ASSUME NEW f \in Fds, NEW k \in Kinds
               PROVE  f \in want'[k] <=>
                          Registered(f)' /\ k \in requests'[fd2req'[f]].mask
    BY DEF WantInv
  <2>1. f \in want[k] <=> Registered(f) /\ k \in requests[fd2req[f]].mask
    BY DEF WantInv
  <2>2. CASE f = fd
    <3>1. requests'[fd2req'[f]].mask = mask
      BY <1>1, <1>2, <1>5, <2>2 DEF Request
    <3> QED
      BY <1>1, <1>2, <1>3, <2>2, <3>1
  <2>3. CASE f # fd
    BY <1>2, <1>3, <2>1, <2>3
  <2> QED
    BY <2>2, <2>3
<1>7. LimitInv'
  BY <1>1, <1>3 DEF LimitInv
<1> QED
  BY <1>2, <1>4, <1>6, <1>7

LEMMA SelectDetachKeeps ==
    ASSUME SelectInv, NEW fd \in Fds, Registered(fd), SelectDetach(fd)
    PROVE  /\ SelectInv'
           /\ \A f \in Fds : Registered(f)' <=> Registered(f) /\ f # fd
           /\ \A f \in Fds : Registered(f)' =>
                  requests'[fd2req'[f]] = requests[fd2req[f]]
<1> USE DEF SelectInv
<1>1. /\ MapTypeOK' /\ MapInv'
      /\ \A f \in Fds : Registered(f)' <=> Registered(f) /\ f # fd
      /\ \A f \in Fds : Registered(f)' =>
             requests'[fd2req'[f]] = requests[fd2req[f]]
  BY RemoveRequestProperties DEF SelectDetach
<1>2. /\ status' = status /\ current' = current /\ nready' = nready
      /\ want' = [k \in Kinds |-> want[k] \ {fd}]
  BY DEF SelectDetach, WantWith
<1>3. PICK m \in (-1)..maxfd :
          /\ m >= 0 => \E k \in Kinds : m \in want'[k]
          /\ \A f \in (m + 1)..maxfd : \A k \in Kinds : f \notin want'[k]
          /\ maxfd' = m
  BY DEF SelectDetach, Shrink
<1>4. want' \in [Kinds -> SUBSET Fds]
  BY <1>2 DEF SelectTypeOK
<1>5. maxfd \in Int /\ m \in Int
  BY FdsAssumption DEF SelectTypeOK
<1>6. maxfd' \in Fds \cup {-1}
  BY <1>3, <1>4, <1>5
<1>7. SelectTypeOK'
  BY <1>2, <1>4, <1>6 DEF SelectTypeOK
<1>8. WantInv'
  BY <1>1, <1>2 DEF WantInv
<1>9. LimitInv'
  <2> SUFFICES ASSUME NEW k \in Kinds, NEW f \in want'[k]
               PROVE  f <= maxfd'
    BY DEF LimitInv
  <2>1. f \in Nat /\ f <= maxfd
    BY <1>2, FdsAssumption DEF LimitInv, SelectTypeOK
  <2> QED
    BY <1>3, <1>5, <2>1
<1> QED
  BY <1>1, <1>7, <1>8, <1>9

-----------------------------------------------------------------------------
(* The types of what the client and the loops keep.                        *)
ClientTypeOK ==
    /\ chan \in [Channels -> Fds \cup {Invalid}]
    /\ pc \in {"client", "loop", "detach", "handler", "failed"}
    /\ mode \in {"manual", "dispatch", "pump"}
    /\ event \in [source : Channels, events : SUBSET Kinds] \cup {NoEvent}
    /\ reported \in [Channels -> SUBSET Kinds]

BaseInv == SelectInv /\ ClientTypeOK /\ SourceInv

LEMMA OpenFd ==
    ASSUME ClientTypeOK, NEW c \in Channels, IsOpen(c)
    PROVE  chan[c] \in Fds
  BY DEF ClientTypeOK, IsOpen

LEMMA SelectInvStutters ==
    SelectInv /\ UNCHANGED <<mapVars, selectVars>> => SelectInv'
<1> SUFFICES ASSUME SelectInv, UNCHANGED <<mapVars, selectVars>>
             PROVE  SelectInv'
  OBVIOUS
<1>1. /\ requests' = requests /\ fd2req' = fd2req /\ fds' = fds
      /\ want' = want /\ status' = status /\ maxfd' = maxfd
      /\ current' = current /\ nready' = nready
  BY DEF mapVars, selectVars
<1>2. MapTypeOK' /\ MapInv'
  BY <1>1 DEF SelectInv, MapTypeOK, MapInv
<1>3. SelectTypeOK' /\ LimitInv'
  BY <1>1 DEF SelectInv, SelectTypeOK, LimitInv
<1>4. WantInv'
  BY <1>1 DEF SelectInv, WantInv, Registered
<1> QED
  BY <1>2, <1>3, <1>4 DEF SelectInv

\* Nothing but the walk and the status sets of the selection changes.
LEMMA SelectInvWalks ==
    ASSUME SelectInv, UNCHANGED <<mapVars, want, maxfd>>,
           status' \in [Kinds -> SUBSET Fds],
           current' \in Nat \cup {-1},
           nready' \in Nat \cup {-1}
    PROVE  SelectInv'
<1>1. /\ requests' = requests /\ fd2req' = fd2req /\ fds' = fds
      /\ want' = want /\ maxfd' = maxfd
  BY DEF mapVars
<1>2. MapTypeOK' /\ MapInv'
  BY <1>1 DEF SelectInv, MapTypeOK, MapInv
<1>3. SelectTypeOK' /\ LimitInv'
  BY <1>1 DEF SelectInv, SelectTypeOK, LimitInv
<1>4. WantInv'
  BY <1>1 DEF SelectInv, WantInv, Registered
<1> QED
  BY <1>2, <1>3, <1>4 DEF SelectInv

LEMMA AbortKeeps == BaseInv /\ Abort => BaseInv'
<1> SUFFICES ASSUME BaseInv, Abort PROVE BaseInv'
  OBVIOUS
<1>1. SelectInv'
  BY SelectInvStutters DEF BaseInv, Abort
<1>2. ClientTypeOK' /\ SourceInv'
  BY DEF BaseInv, Abort, ClientTypeOK, SourceInv
<1> QED
  BY <1>1, <1>2 DEF BaseInv

\* An action of the client that keeps its hands off pc and event keeps
\* SourceInv: where the client runs nothing is about to be detached.
LEMMA ClientKeepsSource ==
    SourceInv /\ ClientRuns /\ UNCHANGED <<pc, event>> => SourceInv'
  BY DEF SourceInv, ClientRuns

LEMMA BaseInvInit == Init => BaseInv
<1> SUFFICES ASSUME Init PROVE BaseInv
  OBVIOUS
<1>1. SelectInv
  BY SelectInitKeeps DEF Init
<1>2. ClientTypeOK /\ SourceInv
  BY DEF Init, ClientTypeOK, SourceInv, Nothing
<1> QED
  BY <1>1, <1>2 DEF BaseInv

LEMMA OpenKeeps ==
    ASSUME BaseInv, NEW c \in Channels, Open(c)
    PROVE  BaseInv'
<1>1. SelectInv'
  BY SelectInvStutters DEF BaseInv, Open
<1>2. ClientTypeOK' /\ SourceInv'
  BY ClientKeepsSource DEF BaseInv, Open, ClientTypeOK
<1> QED
  BY <1>1, <1>2 DEF BaseInv

LEMMA CloseKeeps ==
    ASSUME BaseInv, NEW c \in Channels, Close(c)
    PROVE  BaseInv'
<1>1. SelectInv'
  BY SelectInvStutters DEF BaseInv, Close
<1>2. ClientTypeOK'
  <2>1. chan' \in [Channels -> Fds \cup {Invalid}]
    BY DEF BaseInv, Close, ClientTypeOK
  <2>2. reported' \in [Channels -> SUBSET Kinds]
    BY DEF BaseInv, Close, ClientTypeOK
  <2> QED
    BY <2>1, <2>2 DEF BaseInv, Close, ClientTypeOK
<1>3. SourceInv'
  BY ClientKeepsSource DEF BaseInv, Close
<1> QED
  BY <1>1, <1>2, <1>3 DEF BaseInv

LEMMA AttachKeeps ==
    ASSUME BaseInv, NEW c \in Channels, NEW mask \in SUBSET Kinds, Attach(c, mask)
    PROVE  BaseInv'
<1>1. CASE Abort
  BY <1>1, AbortKeeps
<1>2. CASE /\ AttachAsserts(c)
           /\ SelectAttach([fd |-> chan[c], channel |-> c, mask |-> mask])
           /\ UNCHANGED clientVars
  <2> DEFINE req == [fd |-> chan[c], channel |-> c, mask |-> mask]
  <2>1. req \in Request /\ SelectAttachAsserts(req.fd)
    BY <1>2, OpenFd DEF BaseInv, Request, AttachAsserts
  <2>2. SelectAttach(req)
    BY <1>2
  <2> HIDE DEF req
  <2>3. SelectInv'
    BY <2>1, <2>2, SelectAttachKeeps DEF BaseInv
  <2>4. ClientTypeOK' /\ SourceInv'
    BY <1>2, ClientKeepsSource DEF BaseInv, Attach, clientVars, ClientTypeOK
  <2> QED
    BY <2>3, <2>4 DEF BaseInv
<1> QED
  BY <1>1, <1>2 DEF Attach

\* detach, by the client and by the loops.
LEMMA DetachEffectKeeps ==
    ASSUME BaseInv, NEW c \in Channels, DetachAsserts(c), DetachEffect(c)
    PROVE  SelectInv'
<1>1. CASE IsOpen(c)
  <2>1. chan[c] \in Fds /\ Registered(chan[c]) /\ SelectDetach(chan[c])
    BY <1>1, OpenFd
       DEF BaseInv, DetachAsserts, DetachEffect, SelectDetachAsserts, SelectMaskAsserts
  <2> QED
    BY <2>1, SelectDetachKeeps DEF BaseInv
<1>2. CASE ~IsOpen(c)
  BY <1>2, SelectInvStutters DEF BaseInv, DetachEffect
<1> QED
  BY <1>1, <1>2

LEMMA DetachKeeps ==
    ASSUME BaseInv, NEW c \in Channels, Detach(c)
    PROVE  BaseInv'
<1>1. CASE Abort
  BY <1>1, AbortKeeps
<1>2. CASE DetachAsserts(c) /\ DetachEffect(c) /\ UNCHANGED clientVars
  <2>1. SelectInv'
    BY <1>2, DetachEffectKeeps
  <2>2. ClientTypeOK' /\ SourceInv'
    BY <1>2, ClientKeepsSource DEF BaseInv, Detach, clientVars, ClientTypeOK
  <2> QED
    BY <2>1, <2>2 DEF BaseInv
<1> QED
  BY <1>1, <1>2 DEF Detach

\* setMask, andMask and orMask.
LEMMA SetMaskToKeeps ==
    ASSUME BaseInv, ClientRuns, NEW c \in Channels, NEW mask \in SUBSET Kinds,
           MaskAsserts(c), SetMaskTo(c, mask)
    PROVE  BaseInv'
<1>1. chan[c] \in Fds /\ SelectMaskAsserts(chan[c]) /\ SelectSetMask(chan[c], mask)
  BY OpenFd DEF BaseInv, MaskAsserts, SetMaskTo
<1>2. SelectInv'
  BY <1>1, SelectSetMaskKeeps DEF BaseInv
<1>3. ClientTypeOK' /\ SourceInv'
  BY ClientKeepsSource DEF BaseInv, SetMaskTo, clientVars, ClientTypeOK
<1> QED
  BY <1>2, <1>3 DEF BaseInv

LEMMA MaskOfType ==
    ASSUME BaseInv, NEW c \in Channels, MaskAsserts(c)
    PROVE  MaskOf(c) \in SUBSET Kinds
<1>1. chan[c] \in Fds /\ Registered(chan[c])
  BY OpenFd DEF BaseInv, MaskAsserts, SelectMaskAsserts
<1>2. requests[fd2req[chan[c]]] \in Request
  BY <1>1, RegisteredEntry DEF BaseInv, SelectInv
<1> QED
  BY <1>2 DEF MaskOf, Request

LEMMA MasksKeep ==
    ASSUME BaseInv, NEW c \in Channels, NEW value \in SUBSET Kinds,
           SetMask(c, value) \/ AndMask(c, value) \/ OrMask(c, value)
    PROVE  BaseInv'
<1>1. CASE Abort
  BY <1>1, AbortKeeps
<1>2. CASE /\ MaskAsserts(c)
           /\ \/ SetMaskTo(c, value)
              \/ SetMaskTo(c, MaskOf(c) \cap value)
              \/ SetMaskTo(c, MaskOf(c) \cup value)
  <2>1. PICK mask \in SUBSET Kinds : SetMaskTo(c, mask)
    <3>1. MaskOf(c) \cap value \in SUBSET Kinds /\ MaskOf(c) \cup value \in SUBSET Kinds
      BY <1>2, MaskOfType
    <3> QED
      BY <1>2, <3>1
  <2>2. ClientRuns
    BY DEF SetMask, AndMask, OrMask
  <2> QED
    BY <1>2, <2>1, <2>2, SetMaskToKeeps
<1> QED
  BY <1>1, <1>2 DEF SetMask, AndMask, OrMask

LEMMA ClearKeeps == BaseInv /\ Clear => BaseInv'
<1> SUFFICES ASSUME BaseInv, Clear PROVE BaseInv'
  OBVIOUS
<1>1. SelectInv'
  BY SelectClearKeeps DEF BaseInv, Clear
<1>2. ClientTypeOK'
  BY DEF BaseInv, Clear, ClientTypeOK, Nothing
<1>3. SourceInv'
  BY ClientKeepsSource DEF BaseInv, Clear
<1> QED
  BY <1>1, <1>2, <1>3 DEF BaseInv

LEMMA WaitReturnsKeeps ==
    ASSUME BaseInv, NEW ready \in [Kinds -> SUBSET Fds], WaitReturns(ready)
    PROVE  /\ SelectInv'
           /\ reported' \in [Channels -> SUBSET Kinds]
           /\ nready' \in Nat
<1>1. nready' \in Nat
  BY BitsFinite DEF WaitReturns, SelectWaitReturns
<1>2. SelectInv'
  BY <1>1, SelectInvWalks DEF BaseInv, WaitReturns, SelectWaitReturns
<1>3. reported' \in [Channels -> SUBSET Kinds]
  BY DEF WaitReturns
<1> QED
  BY <1>1, <1>2, <1>3

LEMMA WaitsKeep ==
    ASSUME BaseInv, Wait \/ WaitThrows \/ Start("dispatch") \/ Start("pump")
    PROVE  BaseInv'
<1>1. CASE Wait
  <2>1. PICK ready \in [Kinds -> SUBSET Fds] : WaitReturns(ready)
    BY <1>1 DEF Wait
  <2>2. SelectInv' /\ reported' \in [Channels -> SUBSET Kinds]
    BY <2>1, WaitReturnsKeeps
  <2>3. ClientTypeOK' /\ SourceInv'
    BY <1>1, <2>1, <2>2
       DEF BaseInv, Wait, WaitReturns, ClientTypeOK, SourceInv
  <2> QED
    BY <2>2, <2>3 DEF BaseInv
<1>2. CASE WaitThrows
  <2>1. SelectInv'
    BY <1>2, SelectInvWalks
       DEF BaseInv, WaitThrows, SelectWaitThrows, SelectInv, SelectTypeOK
  <2>2. ClientTypeOK' /\ SourceInv'
    BY <1>2 DEF BaseInv, WaitThrows, ClientTypeOK, SourceInv, Nothing
  <2> QED
    BY <2>1, <2>2 DEF BaseInv
<1>3. ASSUME NEW m \in {"dispatch", "pump"}, Start(m)
      PROVE  BaseInv'
  <2>1. PICK ready \in [Kinds -> SUBSET Fds] :
            WaitReturns(ready) /\ pc' = IF nready' > 0 THEN "loop" ELSE "client"
    BY <1>3 DEF Start
  <2>2. SelectInv' /\ reported' \in [Channels -> SUBSET Kinds]
    BY <2>1, WaitReturnsKeeps
  <2>3. ClientTypeOK' /\ SourceInv'
    BY <1>3, <2>1, <2>2
       DEF BaseInv, Start, WaitReturns, ClientTypeOK, SourceInv
  <2> QED
    BY <2>2, <2>3 DEF BaseInv
<1> QED
  BY <1>1, <1>2, <1>3

\* The event of a descriptor that next () stopped at.
LEMMA EventOfType ==
    ASSUME BaseInv, NEW fd \in Fds, Registered(fd)
    PROVE  /\ EventOf(fd) \in [source : Channels, events : SUBSET Kinds]
           /\ EventOf(fd).source = Source(fd)
           /\ Source(fd) \in Channels
           /\ Attached(Source(fd))
<1>1. requests[fd2req[fd]] \in Request
  BY RegisteredEntry DEF BaseInv, SelectInv
<1>2. /\ requests[fd2req[fd]].channel \in Channels
      /\ requests[fd2req[fd]].mask \cap Events(fd) \in SUBSET Kinds
  BY <1>1 DEF Request
<1>3. Attached(Source(fd))
  BY DEF Attached, Source, Registered
<1> QED
  BY <1>2, <1>3 DEF EventOf, Source

LEMMA NextReadyFoundKeeps ==
    ASSUME BaseInv, NEW fd \in Fds, NextReadyFound(fd)
    PROVE  BaseInv'
<1>1. CASE Abort
  BY <1>1, AbortKeeps
<1>2. CASE /\ SelectNextAsserts(fd)
           /\ SelectNextFound(fd)
           /\ event' = EventOf(fd)
           /\ reported' = [reported EXCEPT ![EventOf(fd).source] = {}]
           /\ pc' = IF mode = "pump" THEN "detach" ELSE "handler"
           /\ UNCHANGED <<mapVars, chan, mode>>
  <2>1. /\ EventOf(fd) \in [source : Channels, events : SUBSET Kinds]
        /\ EventOf(fd).source \in Channels
        /\ Attached(EventOf(fd).source)
    BY <1>2, EventOfType DEF SelectNextAsserts
  <2>2. SelectInv'
    <3>1. current' \in Nat
      BY <1>2, FdsAssumption DEF SelectNextFound
    <3>2. nready \in Nat
      BY DEF BaseInv, SelectInv, SelectTypeOK, NextReadyFound, NextStopsAt
    <3>3. nready' \in Nat
      BY <1>2, <3>2, EventsFinite DEF SelectNextAsserts, SelectNextFound
    <3> QED
      BY <1>2, <3>1, <3>3, SelectInvWalks
         DEF BaseInv, SelectInv, SelectTypeOK, SelectNextFound
  <2>3. ClientTypeOK'
    BY <1>2, <2>1 DEF BaseInv, ClientTypeOK
  <2>4. SourceInv'
    <3>1. event'.source \in Channels /\ reported'[event'.source] = {}
      BY <1>2, <2>1 DEF BaseInv, ClientTypeOK
    <3>2. Attached(event.source)'
      BY <1>2, <2>1 DEF Attached, mapVars
    <3> QED
      BY <3>1, <3>2 DEF SourceInv, MayDetach
  <2> QED
    BY <2>2, <2>3, <2>4 DEF BaseInv
<1> QED
  BY <1>1, <1>2 DEF NextReadyFound

LEMMA NextReadyNoneKeeps == BaseInv /\ NextReadyNone => BaseInv'
<1> SUFFICES ASSUME BaseInv, NextReadyNone PROVE BaseInv'
  OBVIOUS
<1>1. current' \in Nat \cup {-1}
  BY FdsAssumption
     DEF BaseInv, SelectInv, SelectTypeOK, NextReadyNone, SelectNextNone
<1>2. SelectInv'
  BY <1>1, SelectInvWalks
     DEF BaseInv, SelectInv, SelectTypeOK, NextReadyNone, SelectNextNone
<1>3. ClientTypeOK' /\ SourceInv'
  BY DEF BaseInv, NextReadyNone, ClientTypeOK, SourceInv
<1> QED
  BY <1>2, <1>3 DEF BaseInv

LEMMA ReturnKeeps ==
    ASSUME BaseInv, NEW value \in BOOLEAN, Return(value)
    PROVE  BaseInv'
<1>1. SelectInv'
  BY SelectInvStutters DEF BaseInv, Return
<1>2. pc' \in {"client", "detach", "loop"}
  BY DEF Return
<1>3. ClientTypeOK'
  BY <1>2 DEF BaseInv, ClientTypeOK, Return
<1>4. SourceInv'
  <2>1. requests' = requests /\ reported' = reported /\ event' = event
    BY DEF Return, mapVars
  <2>2. event.source \in Channels
    BY DEF BaseInv, SourceInv, Return
  <2>3. ASSUME pc' = "detach" PROVE MayDetach(event.source)
    BY <2>3 DEF Return
  <2> QED
    BY <1>2, <2>1, <2>2, <2>3 DEF SourceInv, MayDetach, Attached
<1> QED
  BY <1>1, <1>3, <1>4 DEF BaseInv

LEMMA DetachSourceKeeps == BaseInv /\ DetachSource => BaseInv'
<1> SUFFICES ASSUME BaseInv, DetachSource PROVE BaseInv'
  OBVIOUS
<1>1. CASE Abort
  BY <1>1, AbortKeeps
<1>2. CASE /\ DetachAsserts(event.source)
           /\ DetachEffect(event.source)
           /\ pc' = IF mode = "pump" THEN "handler" ELSE "loop"
           /\ UNCHANGED <<chan, mode, event, reported>>
  <2>1. event.source \in Channels
    BY DEF BaseInv, SourceInv, DetachSource
  <2>2. SelectInv'
    BY <1>2, <2>1, DetachEffectKeeps
  <2>3. ClientTypeOK' /\ SourceInv'
    BY <1>2, <2>1 DEF BaseInv, ClientTypeOK, SourceInv
  <2> QED
    BY <2>2, <2>3 DEF BaseInv
<1> QED
  BY <1>1, <1>2 DEF DetachSource

LEMMA BaseInvStutters == BaseInv /\ UNCHANGED vars => BaseInv'
<1> SUFFICES ASSUME BaseInv, UNCHANGED vars PROVE BaseInv'
  OBVIOUS
<1>1. SelectInv'
  BY SelectInvStutters DEF BaseInv, vars
<1>2. /\ chan' = chan /\ pc' = pc /\ mode' = mode /\ event' = event
      /\ reported' = reported /\ requests' = requests
  BY DEF vars, clientVars, mapVars
<1>3. ClientTypeOK'
  BY <1>2 DEF BaseInv, ClientTypeOK
<1>4. SourceInv'
  BY <1>2 DEF BaseInv, SourceInv, MayDetach, Attached
<1> QED
  BY <1>1, <1>3, <1>4 DEF BaseInv

LEMMA BaseInvNext == BaseInv /\ [Next]_vars => BaseInv'
<1> SUFFICES ASSUME BaseInv, [Next]_vars PROVE BaseInv'
  OBVIOUS
<1>1. CASE UNCHANGED vars
  BY <1>1, BaseInvStutters
<1>2. CASE ClientStep
  <2>1. ASSUME NEW c \in Channels, Open(c) \/ Close(c) \/ Detach(c) PROVE BaseInv'
    BY <2>1, OpenKeeps, CloseKeeps, DetachKeeps
  <2>2. ASSUME NEW c \in Channels, NEW mask \in SUBSET Kinds,
               \/ Attach(c, mask) \/ SetMask(c, mask)
               \/ AndMask(c, mask) \/ OrMask(c, mask)
        PROVE  BaseInv'
    BY <2>2, AttachKeeps, MasksKeep
  <2> QED
    BY <1>2, <2>1, <2>2, ClearKeeps, WaitsKeep DEF ClientStep
<1>3. CASE LoopStep
  BY <1>3, NextReadyFoundKeeps, NextReadyNoneKeeps, DetachSourceKeeps DEF LoopStep
<1>4. CASE HandlerReturns
  BY <1>4, ReturnKeeps DEF HandlerReturns
<1> QED
  BY <1>1, <1>2, <1>3, <1>4 DEF Next

LEMMA BaseInvAlways == Spec => []BaseInv
  BY BaseInvInit, BaseInvNext, PTL DEF Spec

(* The variables of IOSelector and its method keep their types: the limit  *)
(* is a descriptor, the walk and the count of ready bits never go wrong    *)
(* before an ASSERT stops them.                                            *)
THEOREM TypeCorrect == Spec => []TypeOK
<1>1. BaseInv => TypeOK
  BY DEF BaseInv, SelectInv, ClientTypeOK, TypeOK
<1> QED
  BY <1>1, BaseInvAlways, PTL

(* IOSelectFdMap stays a bijection between registrations and descriptors,  *)
(* whatever the client attaches and detaches and in whatever order.        *)
THEOREM MapCorrect == Spec => []MapInv
<1>1. BaseInv => MapInv
  BY DEF BaseInv, SelectInv
<1> QED
  BY <1>1, BaseInvAlways, PTL

(* What select () is asked for is what the registrations say.              *)
THEOREM WantCorrect == Spec => []WantInv
<1>1. BaseInv => WantInv
  BY DEF BaseInv, SelectInv
<1> QED
  BY <1>1, BaseInvAlways, PTL

(* The limit handed to select () covers everything that is asked for.      *)
THEOREM LimitCorrect == Spec => []LimitInv
<1>1. BaseInv => LimitInv
  BY DEF BaseInv, SelectInv
<1> QED
  BY <1>1, BaseInvAlways, PTL

(* The table of descriptors, the requests, the interest sets and the limit *)
(* agree for any client.                                                   *)
THEOREM TablesCorrect == Spec => []TablesAgree
<1>1. BaseInv => TablesAgree
  BY DEF BaseInv, SelectInv, TablesAgree
<1> QED
  BY <1>1, BaseInvAlways, PTL

-----------------------------------------------------------------------------
(* Clients that keep all the rules.  The invariant joins BaseInv, which    *)
(* holds for every client, with ChannelInv (a registration and the channel *)
(* it was made for belong together) and ReadyInv (what is left of the      *)
(* status sets, the count of ready bits and the reports not delivered yet  *)
(* are the same thing).  It makes every assertion true, so that Abort is   *)
(* never taken.                                                            *)

KeepsAll == AllRules \subseteq Rules

RulesInv == BaseInv /\ ChannelInv /\ ReadyInv /\ NoAssertFails

LEMMA EveryRule ==
    ASSUME KeepsAll
    PROVE  /\ Keeps("once") /\ Keeps("open") /\ Keeps("nonempty")
           /\ Keeps("settled") /\ Keeps("small")
  BY DEF KeepsAll, AllRules, Keeps

-----------------------------------------------------------------------------
(* Registrations and channels.                                             *)

\* The owner of a registered descriptor is open, on that very descriptor.
LEMMA RegisteredSource ==
    ASSUME BaseInv, ChannelInv, NEW fd \in Fds, Registered(fd)
    PROVE  /\ Source(fd) \in Channels
           /\ IsOpen(Source(fd))
           /\ chan[Source(fd)] = fd
           /\ Attached(Source(fd))
<1>1. Source(fd) \in Channels /\ Attached(Source(fd))
  BY EventOfType
<1>2. chan[Source(fd)] = fd
  BY DEF ChannelInv
<1>3. fd # Invalid
  BY FdsAssumption DEF Invalid
<1> QED
  BY <1>1, <1>2, <1>3 DEF IsOpen

\* An attached channel is open and registered under its descriptor.
LEMMA AttachedChannel ==
    ASSUME BaseInv, ChannelInv, NEW c \in Channels, Attached(c)
    PROVE  /\ IsOpen(c)
           /\ chan[c] \in Fds
           /\ Registered(chan[c])
           /\ Source(chan[c]) = c
<1>1. PICK fd \in Fds : Registered(fd) /\ Source(fd) = c
  BY AttachedIsRegistered DEF BaseInv, SelectInv
<1> QED
  BY <1>1, RegisteredSource

\* Two registrations of one channel are one.
LEMMA SourceInjective ==
    ASSUME BaseInv, ChannelInv, NEW fd \in Fds, NEW c \in Channels,
           Registered(fd), IsOpen(c)
    PROVE  Source(fd) = c <=> chan[c] = fd
<1>1. Source(fd) \in Channels /\ IsOpen(Source(fd)) /\ chan[Source(fd)] = fd
  BY RegisteredSource
<1> QED
  BY <1>1 DEF ChannelInv

\* A registered descriptor is of interest, and so within the limit.
LEMMA RegisteredLimit ==
    ASSUME BaseInv, ChannelInv, NEW fd \in Fds, Registered(fd)
    PROVE  fd <= maxfd
<1>1. requests[fd2req[fd]].mask # {} /\ requests[fd2req[fd]] \in Request
  BY RegisteredEntry DEF ChannelInv, BaseInv, SelectInv
<1>2. PICK k \in Kinds : k \in requests[fd2req[fd]].mask
  BY <1>1 DEF Request
<1>3. fd \in want[k]
  BY <1>2 DEF BaseInv, SelectInv, WantInv
<1> QED
  BY <1>3 DEF BaseInv, SelectInv, LimitInv

\* The assertions of detach and of the masks hold for what is attached.
LEMMA AttachedAsserts ==
    ASSUME BaseInv, ChannelInv, NEW c \in Channels, Attached(c)
    PROVE  MaskAsserts(c) /\ SelectDetachAsserts(chan[c], c)
<1>1. IsOpen(c) /\ chan[c] \in Fds /\ Registered(chan[c]) /\ Source(chan[c]) = c
  BY AttachedChannel
<1>2. chan[c] <= maxfd
  BY <1>1, RegisteredLimit
<1>3. requests[fd2req[chan[c]]].fd = chan[c]
  BY <1>1, RegisteredEntry DEF BaseInv, SelectInv
<1> QED
  BY <1>1, <1>2, <1>3
     DEF MaskAsserts, SelectMaskAsserts, SelectDetachAsserts, RemoveReqAsserts, Source

\* The assertions of attach hold for an open channel that is not attached.
LEMMA DetachedAsserts ==
    ASSUME BaseInv, ChannelInv, NEW c \in Channels, IsOpen(c), ~Attached(c)
    PROVE  AttachAsserts(c) /\ ~Registered(chan[c])
<1>1. chan[c] \in Fds
  BY OpenFd DEF BaseInv
<1>2. ~Registered(chan[c])
  BY <1>1, SourceInjective, RegisteredSource
<1>3. fd2req[chan[c]] = Unused
  BY <1>1, <1>2, RegisteredEntry DEF BaseInv, SelectInv
<1>4. chan[c] < FdSetSize
  BY DEF ChannelInv
<1> QED
  BY <1>2, <1>3, <1>4 DEF AttachAsserts, SelectAttachAsserts, FdMapAsserts

-----------------------------------------------------------------------------
(* The reports and the bits that are left.                                 *)

LEMMA LeftFinite == IsFiniteSet(Left) /\ Cardinality(Left) \in Nat
<1>1. Left \subseteq Bits(status)
  BY DEF Left
<1> QED
  BY <1>1, BitsFinite, FS_Subset, FS_CardinalityType

LEMMA LeftBit ==
    ASSUME NEW k \in Kinds, NEW fd \in Fds
    PROVE  <<k, fd>> \in Left <=> fd \in status[k] /\ fd > current
  BY DEF Left, Bits

LEMMA LeftIsPair ==
    ASSUME NEW b \in Left
    PROVE  b[1] \in Kinds /\ b[2] \in Fds /\ b = <<b[1], b[2]>>
  BY DEF Left, Bits

\* ReadyInv survives whatever leaves the walk and the reports alone, keeps
\* the registrations that bits are left for and keeps the channels that
\* reports are left for.
LEMMA ReadyInvKept ==
    ASSUME ReadyInv,
           status' = status, current' = current, nready' = nready,
           reported' = reported,
           \A b \in Left : nready >= 1 /\ Registered(b[2]) /\ b[1] \in reported[Source(b[2])]
               => Registered(b[2])' /\ Source(b[2])' = Source(b[2]),
           \A c \in Channels : reported[c] # {} /\ Attached(c)
               => Attached(c)' /\ chan'[c] = chan[c]
    PROVE  ReadyInv'
<1>1. Left' = Left
  BY DEF Left, Bits
<1>2. nready' >= 1 =>
          /\ nready' = Cardinality(Left')
          /\ \A b \in Left' : Registered(b[2])' /\ b[1] \in reported'[Source(b[2])']
  BY <1>1 DEF ReadyInv
<1>3. \A c \in Channels : \A k \in reported'[c] :
          nready' >= 1 /\ Attached(c)' /\ <<k, chan'[c]>> \in Left'
  BY <1>1 DEF ReadyInv
<1> QED
  BY <1>2, <1>3 DEF ReadyInv

\* Nothing is reported and nothing is left once the count is gone.
LEMMA ReadyInvNothing ==
    ASSUME reported' = Nothing, ~(nready' >= 1)
    PROVE  ReadyInv'
  BY DEF ReadyInv, Nothing

-----------------------------------------------------------------------------
(* One lemma per action: ChannelInv and ReadyInv, and no assertion fails.  *)

Kept == ChannelInv' /\ ReadyInv' /\ NoAssertFails'

LEMMA OpenRules ==
    ASSUME KeepsAll, RulesInv, NEW c \in Channels, Open(c)
    PROVE  Kept
<1> USE DEF RulesInv
<1>1. PICK fd \in Fds :
          /\ \A d \in Channels : chan[d] # fd
          /\ fd < FdSetSize
          /\ chan' = [chan EXCEPT ![c] = fd]
  BY EveryRule DEF Open
<1>2. /\ requests' = requests /\ fd2req' = fd2req /\ status' = status
      /\ current' = current /\ nready' = nready /\ reported' = reported /\ pc' = pc
      /\ ~IsOpen(c)
  BY DEF Open, mapVars, selectVars
<1>3. chan \in [Channels -> Fds \cup {Invalid}]
  BY DEF BaseInv, ClientTypeOK
<1>4. \A f \in Fds : Registered(f)' <=> Registered(f)
  BY <1>2 DEF Registered
<1>5. \A f \in Fds : Registered(f) =>
          Source(f)' = Source(f) /\ Source(f) \in Channels /\ Source(f) # c
  BY <1>2, RegisteredSource DEF Source
<1>6. ChannelInv'
  <2>1. \A f \in Fds : Registered(f)' =>
            chan'[Source(f)'] = f /\ requests'[fd2req'[f]].mask # {}
    BY <1>1, <1>2, <1>3, <1>4, <1>5 DEF ChannelInv
  <2>2. \A d, e \in Channels : chan'[d] # Invalid /\ chan'[d] = chan'[e] => d = e
    BY <1>1, <1>3 DEF ChannelInv, IsOpen
  <2>3. \A d \in Channels : chan'[d] < FdSetSize
    BY <1>1, <1>3 DEF ChannelInv
  <2> QED
    BY <2>1, <2>2, <2>3 DEF ChannelInv, IsOpen
<1>7. ReadyInv'
  <2>1. \A b \in Left : Registered(b[2])
            => Registered(b[2])' /\ Source(b[2])' = Source(b[2])
    BY <1>4, <1>5, LeftIsPair
  <2>2. \A d \in Channels : Attached(d) => Attached(d)' /\ chan'[d] = chan[d]
    BY <1>1, <1>2, <1>3, AttachedChannel DEF Attached
  <2> QED
    BY <1>2, <2>1, <2>2, ReadyInvKept
<1> QED
  BY <1>2, <1>6, <1>7 DEF NoAssertFails, Kept

LEMMA CloseRules ==
    ASSUME KeepsAll, RulesInv, NEW c \in Channels, Close(c)
    PROVE  Kept
<1> USE DEF RulesInv
<1>1. /\ requests' = requests /\ fd2req' = fd2req /\ status' = status
      /\ current' = current /\ nready' = nready /\ pc' = pc
      /\ chan' = [chan EXCEPT ![c] = Invalid]
      /\ reported' = [reported EXCEPT ![c] = {}]
      /\ ~Attached(c)
  BY EveryRule DEF Close, mapVars, selectVars
<1>2. /\ chan \in [Channels -> Fds \cup {Invalid}]
      /\ reported \in [Channels -> SUBSET Kinds]
  BY DEF BaseInv, ClientTypeOK
<1>3. \A f \in Fds : Registered(f)' <=> Registered(f)
  BY <1>1 DEF Registered
<1>4. \A f \in Fds : Registered(f) =>
          Source(f)' = Source(f) /\ Source(f) \in Channels /\ Source(f) # c
  BY <1>1, RegisteredSource DEF Source
<1>5. ChannelInv'
  <2>1. \A f \in Fds : Registered(f)' =>
            chan'[Source(f)'] = f /\ requests'[fd2req'[f]].mask # {}
    BY <1>1, <1>2, <1>3, <1>4 DEF ChannelInv
  <2>2. \A d, e \in Channels : chan'[d] # Invalid /\ chan'[d] = chan'[e] => d = e
    BY <1>1, <1>2 DEF ChannelInv, IsOpen
  <2>3. \A d \in Channels : chan'[d] < FdSetSize
    BY <1>1, <1>2, FdSetSizeAssumption DEF ChannelInv, Invalid
  <2> QED
    BY <2>1, <2>2, <2>3 DEF ChannelInv, IsOpen
<1>6. ReadyInv'
  <2>1. Left' = Left
    BY <1>1 DEF Left, Bits
  <2>2. nready' >= 1 =>
            /\ nready' = Cardinality(Left')
            /\ \A b \in Left' : Registered(b[2])' /\ b[1] \in reported'[Source(b[2])']
    BY <1>1, <1>2, <1>3, <1>4, <2>1, LeftIsPair DEF ReadyInv
  <2>3. \A d \in Channels : \A k \in reported'[d] :
            nready' >= 1 /\ Attached(d)' /\ <<k, chan'[d]>> \in Left'
    BY <1>1, <1>2, <2>1 DEF ReadyInv, Attached
  <2> QED
    BY <2>2, <2>3 DEF ReadyInv
<1> QED
  BY <1>1, <1>5, <1>6 DEF NoAssertFails, Kept

LEMMA AttachRules ==
    ASSUME KeepsAll, RulesInv, NEW c \in Channels, NEW mask \in SUBSET Kinds,
           Attach(c, mask)
    PROVE  Kept
<1> USE DEF RulesInv
<1>1. IsOpen(c) /\ ~Attached(c) /\ mask # {}
  BY EveryRule DEF Attach
<1>2. AttachAsserts(c) /\ ~Registered(chan[c]) /\ chan[c] \in Fds
  BY <1>1, DetachedAsserts, OpenFd DEF BaseInv
<1> DEFINE req == [fd |-> chan[c], channel |-> c, mask |-> mask]
<1>3. SelectAttach(req) /\ UNCHANGED clientVars
  BY <1>2 DEF Attach
<1>4. req \in Request /\ req.fd = chan[c] /\ req.channel = c /\ req.mask = mask
  BY <1>2 DEF Request
<1>5. SelectAttachAsserts(req.fd)
  BY <1>2 DEF AttachAsserts
<1> HIDE DEF req
<1>6. /\ \A fd \in Fds : Registered(fd)' <=> Registered(fd) \/ fd = chan[c]
      /\ \A fd \in Fds : Registered(fd)' =>
             requests'[fd2req'[fd]] = IF fd = chan[c] THEN req
                                      ELSE requests[fd2req[fd]]
  BY <1>3, <1>4, <1>5, SelectAttachKeeps DEF BaseInv
<1>7. /\ status' = status /\ current' = current /\ nready' = nready
      /\ chan' = chan /\ reported' = reported /\ pc' = pc
  BY <1>3 DEF SelectAttach, clientVars
<1>8. \A fd \in Fds : Registered(fd) =>
          Registered(fd)' /\ fd # chan[c] /\ Source(fd)' = Source(fd)
  BY <1>2, <1>6 DEF Source
<1>9. ChannelInv'
  <2>1. \A fd \in Fds : Registered(fd)' =>
            chan'[Source(fd)'] = fd /\ requests'[fd2req'[fd]].mask # {}
    BY <1>1, <1>4, <1>6, <1>7 DEF ChannelInv, Source
  <2> QED
    BY <1>7, <2>1 DEF ChannelInv, IsOpen
<1>10. ReadyInv'
  <2>1. \A b \in Left : Registered(b[2])
            => Registered(b[2])' /\ Source(b[2])' = Source(b[2])
    BY <1>8, LeftIsPair
  <2>2. \A d \in Channels : Attached(d) => Attached(d)' /\ chan'[d] = chan[d]
    <3> TAKE d \in Channels
    <3> HAVE Attached(d)
    <3>1. chan[d] \in Fds /\ Registered(chan[d]) /\ Source(chan[d]) = d
      BY AttachedChannel
    <3>2. Registered(chan[d])' /\ Source(chan[d])' = d
      BY <1>7, <1>8, <3>1 DEF Registered, Source
    <3> QED
      BY <1>7, <3>2 DEF Attached, Registered, Source
  <2> QED
    BY <1>7, <2>1, <2>2, ReadyInvKept
<1> QED
  BY <1>7, <1>9, <1>10 DEF NoAssertFails, Kept

\* The masks of a request change, never its owner.
LEMMA SetMaskToRules ==
    ASSUME KeepsAll, RulesInv, ClientRuns, NEW c \in Channels, MaskAsserts(c),
           NEW mask \in SUBSET Kinds, SetMaskTo(c, mask)
    PROVE  Kept
<1> USE DEF RulesInv
<1>1. mask # {}
  BY EveryRule DEF SetMaskTo
<1>2. chan[c] \in Fds /\ SelectMaskAsserts(chan[c]) /\ SelectSetMask(chan[c], mask)
  BY OpenFd DEF BaseInv, MaskAsserts, SetMaskTo
<1>3. requests[fd2req[chan[c]]] \in Request
  BY <1>2, RegisteredEntry DEF BaseInv, SelectInv, SelectMaskAsserts
<1>4. /\ \A f \in Fds : Registered(f)' <=> Registered(f)
      /\ \A f \in Fds : Registered(f)' =>
             requests'[fd2req'[f]] =
                 IF f = chan[c] THEN [requests[fd2req[chan[c]]] EXCEPT !.mask = mask]
                 ELSE requests[fd2req[f]]
  BY <1>2, SelectSetMaskKeeps DEF BaseInv
<1>5. \A f \in Fds : Registered(f) =>
          /\ Source(f)' = Source(f)
          /\ requests'[fd2req'[f]].mask # {}
  BY <1>1, <1>3, <1>4 DEF Source, Request, ChannelInv
<1>6. /\ status' = status /\ current' = current /\ nready' = nready
      /\ chan' = chan /\ reported' = reported /\ pc' = pc
  BY DEF SetMaskTo, SelectSetMask, clientVars
<1>7. ChannelInv'
  <2>1. \A fd \in Fds : Registered(fd)' =>
            chan'[Source(fd)'] = fd /\ requests'[fd2req'[fd]].mask # {}
    BY <1>4, <1>5, <1>6 DEF ChannelInv
  <2> QED
    BY <1>6, <2>1 DEF ChannelInv, IsOpen
<1>8. ReadyInv'
  <2>1. \A b \in Left : Registered(b[2])
            => Registered(b[2])' /\ Source(b[2])' = Source(b[2])
    BY <1>4, <1>5, LeftIsPair
  <2>2. \A d \in Channels : Attached(d) => Attached(d)' /\ chan'[d] = chan[d]
    <3> TAKE d \in Channels
    <3> HAVE Attached(d)
    <3>1. chan[d] \in Fds /\ Registered(chan[d]) /\ Source(chan[d]) = d
      BY AttachedChannel
    <3>2. Registered(chan[d])' /\ Source(chan[d])' = d
      BY <1>4, <1>5, <1>6, <3>1 DEF Registered, Source
    <3> QED
      BY <1>6, <3>2 DEF Attached, Registered, Source
  <2> QED
    BY <1>6, <2>1, <2>2, ReadyInvKept
<1> QED
  BY <1>6, <1>7, <1>8 DEF NoAssertFails, Kept

LEMMA MasksRules ==
    ASSUME KeepsAll, RulesInv, NEW c \in Channels, NEW value \in SUBSET Kinds,
           SetMask(c, value) \/ AndMask(c, value) \/ OrMask(c, value)
    PROVE  Kept
<1> USE DEF RulesInv
<1>1. Attached(c) /\ ClientRuns
  BY EveryRule DEF SetMask, AndMask, OrMask
<1>2. MaskAsserts(c)
  BY <1>1, AttachedAsserts
<1>3. MaskOf(c) \cap value \in SUBSET Kinds /\ MaskOf(c) \cup value \in SUBSET Kinds
  BY <1>2, MaskOfType
<1>4. PICK mask \in SUBSET Kinds : SetMaskTo(c, mask)
  BY <1>2, <1>3 DEF SetMask, AndMask, OrMask
<1> QED
  BY <1>1, <1>2, <1>4, SetMaskToRules

\* detach of an attached channel with nothing left to be delivered, by the
\* client or by a loop.
LEMMA DetachEffectRules ==
    ASSUME KeepsAll, RulesInv, NEW c \in Channels, MayDetach(c), DetachEffect(c),
           chan' = chan, reported' = reported
    PROVE  ChannelInv' /\ ReadyInv' /\ ~Attached(c)'
<1> USE DEF RulesInv
<1>1. Attached(c) /\ reported[c] = {}
  BY EveryRule DEF MayDetach
<1>2. IsOpen(c) /\ chan[c] \in Fds /\ Registered(chan[c]) /\ Source(chan[c]) = c
  BY <1>1, AttachedChannel
<1>3. SelectDetach(chan[c])
  BY <1>2 DEF DetachEffect
<1>4. /\ SelectInv'
      /\ \A f \in Fds : Registered(f)' <=> Registered(f) /\ f # chan[c]
      /\ \A f \in Fds : Registered(f)' =>
             requests'[fd2req'[f]] = requests[fd2req[f]]
  BY <1>2, <1>3, SelectDetachKeeps DEF BaseInv
<1>5. status' = status /\ current' = current /\ nready' = nready
  BY <1>3 DEF SelectDetach
<1>6. ChannelInv'
  <2>1. \A fd \in Fds : Registered(fd)' =>
            chan'[Source(fd)'] = fd /\ requests'[fd2req'[fd]].mask # {}
    BY <1>4 DEF ChannelInv, Source
  <2> QED
    BY <2>1 DEF ChannelInv, IsOpen
<1>7. ReadyInv'
  <2>1. \A b \in Left : Registered(b[2]) /\ b[1] \in reported[Source(b[2])]
            => Registered(b[2])' /\ Source(b[2])' = Source(b[2])
    BY <1>1, <1>2, <1>4, LeftIsPair DEF Source
  <2>2. \A d \in Channels : reported[d] # {} /\ Attached(d) => Attached(d)'
    <3> TAKE d \in Channels
    <3> HAVE reported[d] # {} /\ Attached(d)
    <3>1. chan[d] \in Fds /\ Registered(chan[d]) /\ Source(chan[d]) = d
      BY AttachedChannel
    <3>2. chan[d] # chan[c]
      BY <1>1, <1>2, <3>1
    <3>3. /\ fd2req'[chan[d]] \in DOMAIN requests'
          /\ requests'[fd2req'[chan[d]]].channel = d
      BY <1>4, <3>1, <3>2 DEF Registered, Source
    <3> QED
      BY <3>3 DEF Attached
  <2> QED
    BY <1>5, <2>1, <2>2, ReadyInvKept
<1>8. ~Attached(c)'
  <2> SUFFICES ASSUME NEW i \in DOMAIN requests', requests'[i].channel = c
               PROVE  FALSE
    BY DEF Attached
  <2>1. requests'[i] \in Request
    BY <1>4, LenProperties, ElementOfSeq DEF SelectInv, MapTypeOK
  <2>2. PICK f \in Fds : fd2req'[f] = i
    BY <1>4, <2>1 DEF SelectInv, MapInv, Request
  <2>3. Registered(f)' /\ Source(f) = c
    BY <1>4, <2>2 DEF Registered, Source
  <2>4. Registered(f) /\ f # chan[c]
    BY <1>4, <2>3
  <2> QED
    BY <1>2, <2>3, <2>4, SourceInjective
<1> QED
  BY <1>6, <1>7, <1>8

LEMMA MayDetachAsserts ==
    ASSUME KeepsAll, RulesInv, NEW c \in Channels, MayDetach(c)
    PROVE  DetachAsserts(c)
  BY EveryRule, AttachedAsserts DEF RulesInv, MayDetach, DetachAsserts

LEMMA DetachRules ==
    ASSUME KeepsAll, RulesInv, NEW c \in Channels, Detach(c)
    PROVE  Kept
<1>1. MayDetach(c) /\ DetachEffect(c) /\ UNCHANGED clientVars
  BY MayDetachAsserts DEF Detach
<1>2. chan' = chan /\ reported' = reported /\ pc' = pc
  BY <1>1 DEF clientVars
<1> QED
  BY <1>1, <1>2, DetachEffectRules DEF RulesInv, NoAssertFails, Kept

LEMMA ClearRules == RulesInv /\ Clear => Kept
<1> SUFFICES ASSUME RulesInv, Clear PROVE Kept
  OBVIOUS
<1>1. \A fd \in Fds : ~Registered(fd)'
  BY SelectClearKeeps DEF RulesInv, BaseInv, Clear
<1>2. /\ chan' = chan /\ reported' = Nothing /\ pc' = pc /\ nready' = 0
  BY DEF Clear, SelectClear
<1>3. ChannelInv'
  BY <1>1, <1>2 DEF RulesInv, ChannelInv, IsOpen
<1>4. ReadyInv'
  BY <1>2, ReadyInvNothing
<1> QED
  BY <1>2, <1>3, <1>4 DEF RulesInv, NoAssertFails, Kept

\* wait (): the bits that are left are all that select () left in the sets.
LEMMA WaitReturnsRules ==
    ASSUME RulesInv, NEW ready \in [Kinds -> SUBSET Fds], WaitReturns(ready)
    PROVE  ChannelInv' /\ ReadyInv'
<1> USE DEF RulesInv
<1>1. /\ requests' = requests /\ fd2req' = fd2req /\ chan' = chan
      /\ status' = ready /\ current' = -1
      /\ nready' = Cardinality(Bits(ready))
      /\ reported' = [c \in Channels |-> {k \in Kinds : chan[c] \in ready[k]}]
      /\ \A k \in Kinds : ready[k] \subseteq want[k]
  BY DEF WaitReturns, SelectWaitReturns, Ready, mapVars
<1>2. \A f \in Fds : (Registered(f)' <=> Registered(f)) /\ Source(f)' = Source(f)
  BY <1>1 DEF Registered, Source
<1>3. ChannelInv'
  BY <1>1, <1>2 DEF ChannelInv, IsOpen
<1>4. Left' = Bits(ready)
  <2>1. Left' = {b \in Bits(ready) : b[2] > -1}
    BY <1>1 DEF Left, Bits
  <2>2. ASSUME NEW b \in Bits(ready) PROVE b[2] > -1
    <3>1. b[2] \in Fds
      BY DEF Bits
    <3>2. b[2] \in Nat
      BY <3>1, FdsAssumption
    <3> QED
      BY <3>2
  <2> QED
    BY <2>1, <2>2
<1>5. ASSUME NEW k \in Kinds, NEW fd \in ready[k]
      PROVE  fd \in Fds /\ Registered(fd)
  BY <1>1 DEF BaseInv, SelectInv, WantInv
<1>6. \A b \in Left' : Registered(b[2])' /\ b[1] \in reported'[Source(b[2])']
  <2> SUFFICES ASSUME NEW b \in Bits(ready)
               PROVE  Registered(b[2])' /\ b[1] \in reported'[Source(b[2])']
    BY <1>4
  <2>1. b[1] \in Kinds /\ b[2] \in Fds /\ b[2] \in ready[b[1]]
    BY DEF Bits
  <2>2. Registered(b[2])
    BY <1>5, <2>1
  <2>3. Source(b[2]) \in Channels /\ chan[Source(b[2])] = b[2]
    BY <2>1, <2>2, RegisteredSource
  <2> QED
    BY <1>1, <1>2, <2>1, <2>2, <2>3
<1>7. ASSUME NEW c \in Channels, NEW k \in reported'[c]
      PROVE  nready' >= 1 /\ Attached(c)' /\ <<k, chan'[c]>> \in Left'
  <2>1. k \in Kinds /\ chan[c] \in ready[k]
    BY <1>1
  <2>2. chan[c] \in Fds /\ Registered(chan[c])
    BY <1>5, <2>1
  <2>3. Source(chan[c]) = c
    <3>1. IsOpen(c)
      BY <2>2, FdsAssumption DEF IsOpen, Invalid
    <3>2. PICK fd \in Fds : fd = chan[c] /\ Registered(fd)
      BY <2>2
    <3>3. Source(fd) = c
      BY <3>1, <3>2, SourceInjective
    <3> QED
      BY <3>2, <3>3
  <2>4. Attached(c)'
    BY <1>1, <2>2, <2>3 DEF Attached, Registered, Source
  <2>5. <<k, chan'[c]>> \in Left'
    BY <1>1, <1>4, <2>1, <2>2 DEF Bits
  <2>6. nready' >= 1
    <3>1. IsFiniteSet(Bits(ready)) /\ Cardinality(Bits(ready)) \in Nat
      BY BitsFinite
    <3>2. Bits(ready) # {}
      BY <1>4, <2>5
    <3>3. Cardinality(Bits(ready)) # 0
      BY <3>1, <3>2, FS_EmptySet
    <3> QED
      BY <1>1, <3>1, <3>3
  <2> QED
    BY <2>4, <2>5, <2>6
<1>8. ReadyInv'
  BY <1>1, <1>4, <1>6, <1>7 DEF ReadyInv
<1> QED
  BY <1>3, <1>8

LEMMA WaitsRules ==
    ASSUME RulesInv, Wait \/ WaitThrows \/ Start("dispatch") \/ Start("pump")
    PROVE  Kept
<1>1. CASE Wait
  <2>1. PICK ready \in [Kinds -> SUBSET Fds] : WaitReturns(ready)
    BY <1>1 DEF Wait
  <2> QED
    BY <1>1, <2>1, WaitReturnsRules DEF Wait, Kept, RulesInv, NoAssertFails
<1>2. CASE WaitThrows
  <2>1. /\ requests' = requests /\ fd2req' = fd2req /\ chan' = chan
        /\ reported' = Nothing /\ nready' = -1 /\ pc' = pc
    BY <1>2 DEF WaitThrows, SelectWaitThrows, mapVars
  <2>2. ChannelInv'
    BY <2>1 DEF RulesInv, ChannelInv, IsOpen, Registered, Source
  <2>3. ReadyInv'
    BY <2>1, ReadyInvNothing
  <2> QED
    BY <2>1, <2>2, <2>3 DEF Kept, RulesInv, NoAssertFails
<1>3. ASSUME NEW m \in {"dispatch", "pump"}, Start(m)
      PROVE  Kept
  <2>1. PICK ready \in [Kinds -> SUBSET Fds] :
            WaitReturns(ready) /\ pc' = IF nready' > 0 THEN "loop" ELSE "client"
    BY <1>3 DEF Start
  <2> QED
    BY <2>1, WaitReturnsRules DEF Kept, NoAssertFails
<1> QED
  BY <1>1, <1>2, <1>3

\* The bits of the descriptor that next () stops at.
Here(fd) == Events(fd) \X {fd}

\* next () at a descriptor: its bits are some of those left, and only they
\* are passed.
LEMMA StopsAt ==
    ASSUME RulesInv, NEW fd \in Fds, NextStopsAt(fd)
    PROVE  /\ SelectNextAsserts(fd)
           /\ Events(fd) \subseteq reported[Source(fd)]
           /\ Here(fd) \subseteq Left
           /\ Cardinality(Here(fd)) = Cardinality(Events(fd))
<1> USE DEF RulesInv
<1>1. nready >= 1 /\ fd > current /\ Events(fd) # {} /\ Events(fd) \subseteq Kinds
  BY FdsAssumption DEF NextStopsAt, Events, BaseInv, SelectInv, SelectTypeOK
<1>2. Here(fd) \subseteq Left
  <2> SUFFICES ASSUME NEW b \in Here(fd) PROVE b \in Left
    OBVIOUS
  <2>1. PICK k \in Events(fd) : b = <<k, fd>>
    BY DEF Here
  <2> QED
    BY <1>1, <2>1, LeftBit DEF Events
<1>3. \A k \in Events(fd) : Registered(fd) /\ k \in reported[Source(fd)]
  <2> TAKE k \in Events(fd)
  <2>1. <<k, fd>> \in Left
    BY <1>2 DEF Here
  <2>2. /\ Registered(<<k, fd>>[2])
        /\ <<k, fd>>[1] \in reported[Source(<<k, fd>>[2])]
    BY <1>1, <2>1 DEF ReadyInv
  <2>3. <<k, fd>>[1] = k /\ <<k, fd>>[2] = fd
    OBVIOUS
  <2> QED
    BY <2>2, <2>3
<1>4. Cardinality(Here(fd)) = Cardinality(Events(fd))
  <2>1. IsFiniteSet({fd}) /\ Cardinality({fd}) = 1
    BY FS_Singleton
  <2>2. Cardinality(Here(fd)) = Cardinality(Events(fd)) * Cardinality({fd})
    BY <2>1, EventsFinite, FS_Product DEF Here
  <2> QED
    BY <2>1, <2>2, EventsFinite
<1>5. Cardinality(Here(fd)) <= Cardinality(Left)
  BY <1>2, LeftFinite, FS_Subset
<1>6. nready = Cardinality(Left)
  BY <1>1 DEF ReadyInv
<1> QED
  BY <1>1, <1>2, <1>3, <1>4, <1>5, <1>6 DEF SelectNextAsserts

LEMMA NextReadyFoundRules ==
    ASSUME RulesInv, NEW fd \in Fds, NextReadyFound(fd)
    PROVE  Kept
<1> USE DEF RulesInv
<1>1. NextStopsAt(fd)
  BY DEF NextReadyFound
<1>2. /\ Registered(fd) /\ Here(fd) \subseteq Left
      /\ Cardinality(Here(fd)) = Cardinality(Events(fd))
  BY <1>1, StopsAt DEF SelectNextAsserts
<1>3. /\ SelectNextFound(fd)
      /\ reported' = [reported EXCEPT ![Source(fd)] = {}]
      /\ pc' \in {"detach", "handler"}
      /\ UNCHANGED <<mapVars, chan, mode>>
  BY <1>1, <1>2, StopsAt, EventOfType DEF NextReadyFound
<1>4. /\ current' = fd /\ status' = status
      /\ nready' = nready - Cardinality(Events(fd))
      /\ requests' = requests /\ fd2req' = fd2req /\ chan' = chan
  BY <1>3 DEF SelectNextFound, mapVars
<1>5. \A f \in Fds : (Registered(f)' <=> Registered(f)) /\ Source(f)' = Source(f)
  BY <1>4 DEF Registered, Source
<1>6. ChannelInv'
  BY <1>4, <1>5 DEF ChannelInv, IsOpen
<1>7. /\ Source(fd) \in Channels
      /\ \A f \in Fds : Registered(f) /\ f # fd =>
             Source(f) \in Channels /\ Source(f) # Source(fd)
  BY <1>2, RegisteredSource
<1>8. /\ reported \in [Channels -> SUBSET Kinds]
      /\ current \in Int /\ fd \in Nat
  BY FdsAssumption DEF BaseInv, ClientTypeOK, SelectInv, SelectTypeOK
<1>9. Left' = Left \ Here(fd)
  <2>1. ASSUME NEW k \in Kinds, NEW f \in Fds
        PROVE  f \in status[k] /\ f > fd <=>
                   f \in status[k] /\ f > current /\ f # fd
    <3>1. fd > current /\ \A g \in (current + 1)..(fd - 1) : Events(g) = {}
      BY <1>1, <1>8 DEF NextStopsAt
    <3>2. f \in Nat
      BY FdsAssumption
    <3>3. f > current /\ f < fd => f \notin status[k]
      BY <1>8, <3>1, <3>2 DEF Events
    <3> QED
      BY <1>8, <3>1, <3>2, <3>3
  <2>2. \A b \in Kinds \X Fds : b \in Here(fd) <=> b[2] = fd /\ fd \in status[b[1]]
    BY DEF Here, Events
  <2> QED
    BY <1>4, <2>1, <2>2 DEF Left, Bits
<1>10. nready' = Cardinality(Left')
  <2>1. Cardinality(Left \ Here(fd)) = Cardinality(Left) - Cardinality(Left \cap Here(fd))
    BY LeftFinite, FS_Difference
  <2>2. Left \cap Here(fd) = Here(fd)
    BY <1>2
  <2>3. nready = Cardinality(Left)
    BY <1>1 DEF NextStopsAt, ReadyInv
  <2> QED
    BY <1>2, <1>4, <1>9, <2>1, <2>2, <2>3
<1>11. \A b \in Left' : Registered(b[2])' /\ b[1] \in reported'[Source(b[2])']
  <2> TAKE b \in Left'
  <2>1. b \in Left /\ b[2] \in Fds /\ b[2] # fd
    BY <1>4, <1>8, <1>9, LeftIsPair DEF Left
  <2>2. Registered(b[2]) /\ b[1] \in reported[Source(b[2])]
    BY <1>1, <2>1 DEF NextStopsAt, ReadyInv
  <2> QED
    BY <1>3, <1>5, <1>7, <1>8, <2>1, <2>2
<1>12. ASSUME NEW c \in Channels, NEW k \in reported'[c]
       PROVE  nready' >= 1 /\ Attached(c)' /\ <<k, chan'[c]>> \in Left'
  <2>1. c # Source(fd) /\ k \in reported[c]
    BY <1>3, <1>8
  <2>2. Attached(c) /\ <<k, chan[c]>> \in Left
    BY <2>1 DEF ReadyInv
  <2>3. chan[c] # fd
    BY <2>1, <2>2, AttachedChannel
  <2>4. <<k, chan'[c]>> \in Left'
    BY <1>4, <1>9, <2>2, <2>3 DEF Here
  <2>5. IsFiniteSet(Left') /\ Left' # {}
    BY <1>9, <2>4, LeftFinite, FS_Subset
  <2>6. Cardinality(Left') \in Nat /\ Cardinality(Left') # 0
    BY <2>5, FS_EmptySet, FS_CardinalityType
  <2> QED
    BY <1>4, <1>10, <2>2, <2>4, <2>6 DEF Attached
<1>13. ReadyInv'
  BY <1>10, <1>11, <1>12 DEF ReadyInv
<1> QED
  BY <1>3, <1>6, <1>13 DEF NoAssertFails, Kept

\* next () ends only when nothing is left.
LEMMA FindsNone ==
    ASSUME RulesInv, NextFindsNone
    PROVE  ~(nready >= 1) /\ reported = Nothing
<1> USE DEF RulesInv
<1>1. ~(nready >= 1)
  <2> SUFFICES ASSUME nready >= 1 PROVE FALSE
    OBVIOUS
  <2>1. nready = Cardinality(Left)
    BY DEF ReadyInv
  <2>2. PICK b \in Left : TRUE
    BY <2>1, LeftFinite, FS_EmptySet
  <2>3. b[1] \in Kinds /\ b[2] \in Fds /\ b[2] \in status[b[1]] /\ b[2] > current
    BY DEF Left, Bits
  <2>4. b[2] <= maxfd
    <3>1. Registered(b[2])
      BY DEF ReadyInv
    <3>2. PICK f \in Fds : f = b[2]
      BY <2>3
    <3>3. Registered(f)
      BY <3>1, <3>2
    <3>4. f <= maxfd
      BY <3>3, RegisteredLimit
    <3> QED
      BY <3>2, <3>4
  <2>5. current \in Int /\ maxfd \in Int /\ b[2] \in Nat
    <3>1. current \in Int /\ maxfd \in Int
      BY FdsAssumption DEF BaseInv, SelectInv, SelectTypeOK
    <3>2. b[2] \in Nat
      BY <2>3, FdsAssumption
    <3> QED
      BY <3>1, <3>2
  <2>6. Events(b[2]) = {}
    BY <2>3, <2>4, <2>5 DEF NextFindsNone
  <2> QED
    BY <2>3, <2>6 DEF Events
<1>2. reported \in [Channels -> SUBSET Kinds]
  BY DEF BaseInv, ClientTypeOK
<1>3. \A c \in Channels : reported[c] = {}
  BY <1>1 DEF ReadyInv
<1> QED
  BY <1>1, <1>2, <1>3 DEF Nothing

LEMMA NextReadyNoneRules == RulesInv /\ NextReadyNone => Kept /\ reported' = Nothing
<1> SUFFICES ASSUME RulesInv, NextReadyNone PROVE Kept /\ reported' = Nothing
  OBVIOUS
<1>1. ~(nready >= 1) /\ reported = Nothing
  BY FindsNone DEF NextReadyNone
<1>2. /\ requests' = requests /\ fd2req' = fd2req /\ chan' = chan
      /\ nready' = nready /\ reported' = reported /\ pc' = "client"
  BY DEF NextReadyNone, SelectNextNone, mapVars
<1>3. ChannelInv'
  BY <1>2 DEF RulesInv, ChannelInv, IsOpen, Registered, Source
<1>4. ReadyInv'
  BY <1>1, <1>2, ReadyInvNothing
<1> QED
  BY <1>1, <1>2, <1>3, <1>4 DEF Kept, NoAssertFails

\* Steps that change nothing but pc.
LEMMA UnchangedRules ==
    ASSUME RulesInv, UNCHANGED <<mapVars, selectVars, chan, reported>>
    PROVE  ChannelInv' /\ ReadyInv'
<1>1. /\ requests' = requests /\ fd2req' = fd2req /\ chan' = chan
      /\ status' = status /\ current' = current /\ nready' = nready
      /\ reported' = reported
  BY DEF mapVars, selectVars
<1>2. ChannelInv'
  BY <1>1 DEF RulesInv, ChannelInv, IsOpen, Registered, Source
<1>3. ReadyInv'
  BY <1>1 DEF RulesInv, ReadyInv, Left, Bits, Registered, Source, Attached
<1> QED
  BY <1>2, <1>3

LEMMA ReturnRules ==
    ASSUME RulesInv, NEW value \in BOOLEAN, Return(value)
    PROVE  Kept
<1>1. pc' \in {"client", "detach", "loop"}
  BY DEF Return
<1> QED
  BY <1>1, UnchangedRules DEF Return, Kept, NoAssertFails

LEMMA DetachSourceRules ==
    ASSUME KeepsAll, RulesInv, DetachSource
    PROVE  /\ Kept
           /\ ~Attached(event.source)'
<1>1. event.source \in Channels /\ MayDetach(event.source)
  BY DEF RulesInv, BaseInv, SourceInv, DetachSource
<1>2. /\ DetachEffect(event.source)
      /\ pc' \in {"handler", "loop"}
      /\ chan' = chan /\ reported' = reported /\ event' = event
  BY <1>1, MayDetachAsserts DEF DetachSource
<1>3. PICK c \in Channels : c = event.source
  BY <1>1
<1>4. ChannelInv' /\ ReadyInv' /\ ~Attached(c)'
  BY <1>1, <1>2, <1>3, DetachEffectRules
<1> QED
  BY <1>2, <1>3, <1>4 DEF Kept, NoAssertFails, Attached

-----------------------------------------------------------------------------
(* The invariant and the properties.                                       *)

LEMMA RulesInvInit == Init => RulesInv
<1> SUFFICES ASSUME Init PROVE RulesInv
  OBVIOUS
<1>1. BaseInv /\ \A fd \in Fds : ~Registered(fd)
  BY BaseInvInit, EmptyMapProperties DEF Init, SelectInit
<1>2. ChannelInv
  <2>1. \A c \in Channels : chan[c] = Invalid /\ chan[c] < FdSetSize
    BY FdSetSizeAssumption DEF Init, Invalid
  <2> QED
    BY <1>1, <2>1 DEF ChannelInv, IsOpen
<1>3. ReadyInv
  BY DEF Init, SelectInit, ReadyInv, Nothing
<1> QED
  BY <1>1, <1>2, <1>3 DEF RulesInv, Init, NoAssertFails

LEMMA RulesInvNext ==
    ASSUME KeepsAll
    PROVE  RulesInv /\ [Next]_vars => RulesInv'
<1> SUFFICES ASSUME RulesInv, [Next]_vars PROVE RulesInv'
  OBVIOUS
<1>1. BaseInv'
  BY BaseInvNext DEF RulesInv
<1>2. Kept
  <2>1. CASE UNCHANGED vars
    <3>1. UNCHANGED <<mapVars, selectVars, chan, reported, pc>>
      BY <2>1 DEF vars, clientVars
    <3> QED
      BY <3>1, UnchangedRules DEF RulesInv, Kept, NoAssertFails
  <2>2. CASE ClientStep
    <3>1. ASSUME NEW c \in Channels, Open(c) \/ Close(c) \/ Detach(c) PROVE Kept
      BY <3>1, OpenRules, CloseRules, DetachRules
    <3>2. ASSUME NEW c \in Channels, NEW mask \in SUBSET Kinds,
                 \/ Attach(c, mask) \/ SetMask(c, mask)
                 \/ AndMask(c, mask) \/ OrMask(c, mask)
          PROVE  Kept
      BY <3>2, AttachRules, MasksRules
    <3> QED
      BY <2>2, <3>1, <3>2, ClearRules, WaitsRules DEF ClientStep
  <2>3. CASE LoopStep
    BY <2>3, NextReadyFoundRules, NextReadyNoneRules, DetachSourceRules DEF LoopStep
  <2>4. CASE HandlerReturns
    BY <2>4, ReturnRules DEF HandlerReturns
  <2> QED
    BY <2>1, <2>2, <2>3, <2>4 DEF Next
<1> QED
  BY <1>1, <1>2 DEF RulesInv, Kept

LEMMA RulesInvAlways ==
    ASSUME KeepsAll
    PROVE  Spec => []RulesInv
<1>1. RulesInv /\ [Next]_vars => RulesInv'
  BY RulesInvNext
<1> QED
  BY <1>1, RulesInvInit, PTL DEF Spec

(* A client that keeps the five rules never makes an ASSERT of IOSelector  *)
(* or IOSelectSelect fail, in handlers and between the calls.              *)
THEOREM NoAssertCorrect ==
    ASSUME KeepsAll
    PROVE  Spec => []NoAssertFails
<1>1. RulesInv => NoAssertFails
  BY DEF RulesInv
<1> QED
  BY <1>1, RulesInvAlways, PTL

(* With the rules kept, registrations and open channels belong together.   *)
THEOREM ChannelCorrect ==
    ASSUME KeepsAll
    PROVE  Spec => []ChannelInv
<1>1. RulesInv => ChannelInv
  BY DEF RulesInv
<1> QED
  BY <1>1, RulesInvAlways, PTL

(* With the rules kept, m_nready counts the status bits that next () has   *)
(* not passed, and they are the reports nobody received yet.               *)
THEOREM ReadyCorrect ==
    ASSUME KeepsAll
    PROVE  Spec => []ReadyInv
<1>1. RulesInv => ReadyInv
  BY DEF RulesInv
<1> QED
  BY <1>1, RulesInvAlways, PTL

\* Only nextReady () hands anything out.
LEMMA OnlyNextHandsOut ==
    ASSUME RulesInv, Next, HandsOut
    PROVE  \E fd \in Fds : NextReadyFound(fd)
<1>1. pc \in {"client", "loop"} /\ pc' \in {"handler", "detach"}
  BY DEF HandsOut, Iterates
<1>2. CASE ClientStep
  <2>1. ~Wait /\ ~WaitThrows /\ ~Clear /\ ~Start("dispatch") /\ ~Start("pump")
    BY <1>1 DEF Wait, WaitThrows, Clear, Start
  <2>2. ASSUME NEW c \in Channels, Open(c) \/ Close(c) \/ Detach(c) PROVE FALSE
    BY <1>1, <2>2 DEF Open, Close, Detach, Abort, clientVars
  <2>3. ASSUME NEW c \in Channels, NEW mask \in SUBSET Kinds,
               \/ Attach(c, mask) \/ SetMask(c, mask)
               \/ AndMask(c, mask) \/ OrMask(c, mask)
        PROVE  FALSE
    BY <1>1, <2>3
       DEF Attach, SetMask, AndMask, OrMask, SetMaskTo, Abort, clientVars
  <2> QED
    BY <1>2, <2>1, <2>2, <2>3 DEF ClientStep
<1>3. CASE LoopStep
  BY <1>1, <1>3 DEF LoopStep, NextReadyNone, DetachSource
<1>4. CASE HandlerReturns
  BY <1>1, <1>4 DEF HandlerReturns, Return
<1> QED
  BY <1>2, <1>3, <1>4 DEF Next

(* Every event handed out names only I/O that the last wait () reported    *)
(* for that channel and that was not handed out before.                    *)
THEOREM SpuriousCorrect ==
    ASSUME KeepsAll
    PROVE  Spec => NothingSpurious
<1>1. RulesInv /\ [Next]_vars =>
          [HandsOut => event'.events \subseteq reported[event'.source]]_vars
  <2> SUFFICES ASSUME RulesInv, Next, HandsOut
               PROVE  event'.events \subseteq reported[event'.source]
    OBVIOUS
  <2>1. PICK fd \in Fds : NextReadyFound(fd)
    BY OnlyNextHandsOut
  <2>2. SelectNextAsserts(fd) /\ Events(fd) \subseteq reported[Source(fd)]
    BY <2>1, StopsAt DEF NextReadyFound
  <2>3. event' = EventOf(fd)
    BY <2>1, <2>2 DEF NextReadyFound
  <2> QED
    BY <2>2, <2>3 DEF EventOf, Source
<1> QED
  BY <1>1, RulesInvAlways, PTL DEF Spec, NothingSpurious

(* The loops of dispatch () and pump () end only when every channel that   *)
(* was reported, and is still attached, had its event.                     *)
THEOREM LostCorrect ==
    ASSUME KeepsAll
    PROVE  Spec => NothingLost
<1>1. RulesInv /\ [Next]_vars =>
          [pc = "loop" /\ pc' = "client" => reported' = Nothing]_vars
  <2> SUFFICES ASSUME RulesInv, Next, pc = "loop", pc' = "client"
               PROVE  reported' = Nothing
    OBVIOUS
  <2>1. CASE ClientStep
    BY <2>1
       DEF ClientStep, ClientRuns, Open, Close, Detach, Attach, SetMask, AndMask,
           OrMask, Clear, Wait, WaitThrows, Start
  <2>2. CASE LoopStep
    <3>1. ~DetachSource
      BY DEF DetachSource
    <3>2. ASSUME NEW fd \in Fds, NextReadyFound(fd) PROVE FALSE
      BY <3>2 DEF NextReadyFound, Abort
    <3> QED
      BY <2>2, <3>1, <3>2, NextReadyNoneRules DEF LoopStep
  <2>3. CASE HandlerReturns
    BY <2>3 DEF HandlerReturns, Return
  <2> QED
    BY <2>1, <2>2, <2>3 DEF Next
<1> QED
  BY <1>1, RulesInvAlways, PTL DEF Spec, NothingLost

(* A channel whose handler returned true is not registered any more when   *)
(* dispatch () goes on.                                                    *)
THEOREM RemovesCorrect ==
    ASSUME KeepsAll
    PROVE  Spec => ReturnTrueRemoves
<1>1. RulesInv /\ [Next]_vars =>
          [pc = "detach" /\ pc' = "loop" => ~Attached(event.source)']_vars
  <2> SUFFICES ASSUME RulesInv, Next, pc = "detach"
               PROVE  ~Attached(event.source)'
    OBVIOUS
  <2>1. CASE ClientStep
    BY <2>1
       DEF ClientStep, ClientRuns, Open, Close, Detach, Attach, SetMask, AndMask,
           OrMask, Clear, Wait, WaitThrows, Start
  <2>2. CASE LoopStep
    BY <2>2, DetachSourceRules DEF LoopStep, NextReadyFound, NextReadyNone, Iterates
  <2>3. CASE HandlerReturns
    BY <2>3 DEF HandlerReturns, Return
  <2> QED
    BY <2>1, <2>2, <2>3 DEF Next
<1> QED
  BY <1>1, RulesInvAlways, PTL DEF Spec, ReturnTrueRemoves

(* The three together: what is reported is delivered, once, to its channel *)
(* and no other, until its handler answers true.                           *)
THEOREM DeliveryCorrect ==
    ASSUME KeepsAll
    PROVE  Spec => EventsDelivered
  BY SpuriousCorrect, LostCorrect, RemovesCorrect DEF EventsDelivered

-----------------------------------------------------------------------------
(* IOSelector over IOSelectSelect implements ReadyDelivery for clients     *)
(* that keep all the rules.  RulesInv makes the refinement mapping simple: *)
(* what is pending, defined by the walk over the status sets, is the       *)
(* history variable reported.  Each action then maps to one of             *)
(* ReadyDelivery, or to a stutter.                                         *)

LEMMA PendingIsReported == RulesInv => PendingReports = reported
<1> SUFFICES ASSUME RulesInv PROVE PendingReports = reported
  OBVIOUS
<1> USE DEF RulesInv
<1>1. reported \in [Channels -> SUBSET Kinds]
  BY DEF BaseInv, ClientTypeOK
<1>2. ASSUME NEW c \in Channels, NEW k \in reported[c]
      PROVE  k \in PendingOf(c)
  <2>1. nready >= 1 /\ <<k, chan[c]>> \in Left
    BY <1>2 DEF ReadyInv
  <2>2. <<k, chan[c]>>[1] = k /\ <<k, chan[c]>>[2] = chan[c]
    OBVIOUS
  <2>3. k \in Kinds /\ chan[c] \in status[k] /\ chan[c] > current
    BY <1>1, <2>1, <2>2 DEF Left, Bits
  <2> QED
    BY <2>1, <2>3 DEF PendingOf
<1>3. ASSUME NEW c \in Channels, NEW k \in PendingOf(c)
      PROVE  k \in reported[c]
  <2>1. k \in Kinds /\ nready >= 1 /\ chan[c] > current /\ chan[c] \in status[k]
    BY <1>3 DEF PendingOf
  <2>2. PICK fd \in Fds : fd = chan[c]
    BY <2>1 DEF BaseInv, SelectInv, SelectTypeOK
  <2>3. <<k, fd>> \in Left
    BY <2>1, <2>2, LeftBit
  <2>4. Registered(<<k, fd>>[2]) /\ <<k, fd>>[1] \in reported[Source(<<k, fd>>[2])]
    BY <2>1, <2>3 DEF ReadyInv
  <2>5. <<k, fd>>[1] = k /\ <<k, fd>>[2] = fd
    OBVIOUS
  <2>6. Registered(fd) /\ k \in reported[Source(fd)]
    BY <2>4, <2>5
  <2>7. IsOpen(c)
    BY <2>2, FdsAssumption DEF IsOpen, Invalid
  <2> QED
    BY <2>2, <2>6, <2>7, SourceInjective
<1>4. \A c \in Channels : PendingOf(c) = reported[c]
  BY <1>1, <1>2, <1>3 DEF PendingOf
<1> QED
  BY <1>1, <1>4 DEF PendingReports

-----------------------------------------------------------------------------
(* What the steps do to the attached channels and their masks.             *)

SameInterest == AttachedChannels' = AttachedChannels /\ Interest' = Interest

LEMMA RegistrationsKept ==
    ASSUME requests' = requests, fd2req' = fd2req,
           \A c \in Channels : Attached(c) => chan'[c] = chan[c]
    PROVE  SameInterest
<1>1. \A c \in Channels : Attached(c)' <=> Attached(c)
  BY DEF Attached
<1>2. \A c \in Channels : Attached(c) => MaskOf(c)' = MaskOf(c)
  BY DEF MaskOf
<1> QED
  BY <1>1, <1>2 DEF SameInterest, AttachedChannels, Interest

\* Which channels are attached, and with which mask, by descriptor.
AttachedAt ==
    \A c \in Channels :
        /\ Attached(c) <=> IsOpen(c) /\ Registered(chan[c])
        /\ IsOpen(c) => chan[c] \in Fds

LEMMA AttachedWhere == RulesInv => AttachedAt
<1> SUFFICES ASSUME RulesInv, NEW c \in Channels
             PROVE  /\ Attached(c) <=> IsOpen(c) /\ Registered(chan[c])
                    /\ IsOpen(c) => chan[c] \in Fds
  BY DEF AttachedAt
<1> USE DEF RulesInv
<1>1. Attached(c) => IsOpen(c) /\ Registered(chan[c])
  BY AttachedChannel
<1>2. IsOpen(c) => chan[c] \in Fds
  BY OpenFd DEF BaseInv
<1>3. IsOpen(c) /\ Registered(chan[c]) => Attached(c)
  BY <1>2, SourceInjective, RegisteredSource
<1> QED
  BY <1>1, <1>2, <1>3

\* A step that keeps the channels and every registration but that of c.
LEMMA OtherRegistrations ==
    ASSUME RulesInv, RulesInv', chan' = chan, NEW c \in Channels, IsOpen(c),
           \A fd \in Fds : fd # chan[c] =>
               /\ Registered(fd)' <=> Registered(fd)
               /\ Registered(fd) => requests'[fd2req'[fd]] = requests[fd2req[fd]]
    PROVE  \A d \in Channels : d # c =>
               /\ d \in AttachedChannels' <=> d \in AttachedChannels
               /\ Interest'[d] = Interest[d]
<1>1. AttachedAt /\ AttachedAt'
  BY AttachedWhere, PTL
<1> SUFFICES ASSUME NEW d \in Channels, d # c
             PROVE  /\ Attached(d)' <=> Attached(d)
                    /\ Attached(d) => MaskOf(d)' = MaskOf(d)
  BY DEF AttachedChannels, Interest
<1>2. IsOpen(d)' <=> IsOpen(d)
  BY DEF IsOpen
<1>3. ASSUME IsOpen(d)
      PROVE  /\ Registered(chan[d])' <=> Registered(chan[d])
             /\ Registered(chan[d]) => MaskOf(d)' = MaskOf(d)
  <2>1. chan[d] \in Fds /\ chan[d] # chan[c]
    BY <1>1, <1>3 DEF AttachedAt, RulesInv, ChannelInv
  <2>2. /\ Registered(chan[d])' <=> Registered(chan[d])
        /\ Registered(chan[d]) =>
               requests'[fd2req'[chan[d]]] = requests[fd2req[chan[d]]]
    BY <2>1 DEF Registered
  <2> QED
    BY <2>2 DEF MaskOf
<1> QED
  BY <1>1, <1>2, <1>3 DEF AttachedAt

\* The effect of such a step on the mapped variables.
LEMMA OneRegistration ==
    ASSUME NEW c \in Channels,
           \A d \in Channels : d # c =>
               /\ d \in AttachedChannels' <=> d \in AttachedChannels
               /\ Interest'[d] = Interest[d]
    PROVE  /\ Interest' = [Interest EXCEPT ![c] = Interest'[c]]
           /\ AttachedChannels' = IF c \in AttachedChannels'
                                  THEN AttachedChannels \cup {c}
                                  ELSE AttachedChannels \ {c}
<1>1. Interest' = [Interest EXCEPT ![c] = Interest'[c]]
  BY DEF Interest
<1>2. AttachedChannels \subseteq Channels /\ AttachedChannels' \subseteq Channels
  BY DEF AttachedChannels
<1> QED
  BY <1>1, <1>2

-----------------------------------------------------------------------------
(* One lemma per action: the step of ReadyDelivery it maps to.             *)

Stutters == UNCHANGED Promise!vars

Pendings == PendingReports = reported /\ PendingReports' = reported'

LEMMA PendingsAre ==
    ASSUME RulesInv, RulesInv'
    PROVE  Pendings
<1>1. PendingReports = reported
  BY PendingIsReported
<1>2. (PendingReports = reported)'
  BY PendingIsReported, PTL
<1> QED
  BY <1>1, <1>2 DEF Pendings

LEMMA OpenMaps ==
    ASSUME RulesInv, RulesInv', NEW c \in Channels, Open(c)
    PROVE  Stutters
<1>1. PICK fd \in Fds : chan' = [chan EXCEPT ![c] = fd]
  BY DEF Open
<1>2. /\ requests' = requests /\ fd2req' = fd2req /\ reported' = reported
      /\ pc' = pc /\ event' = event /\ ~IsOpen(c)
  BY DEF Open, mapVars
<1>3. \A d \in Channels : Attached(d) => d # c
  BY <1>2, AttachedWhere DEF AttachedAt
<1>4. SameInterest
  <2>1. chan \in [Channels -> Fds \cup {Invalid}]
    BY DEF RulesInv, BaseInv, ClientTypeOK
  <2> QED
    BY <1>1, <1>2, <1>3, <2>1, RegistrationsKept
<1> QED
  BY <1>2, <1>4, PendingsAre DEF Pendings, SameInterest, Stutters, Promise!vars

\* A channel is closed with nothing pending: it is not attached.
LEMMA CloseMaps ==
    ASSUME KeepsAll, RulesInv, RulesInv', NEW c \in Channels, Close(c)
    PROVE  Stutters
<1>1. /\ requests' = requests /\ fd2req' = fd2req
      /\ chan' = [chan EXCEPT ![c] = Invalid]
      /\ reported' = [reported EXCEPT ![c] = {}]
      /\ pc' = pc /\ event' = event /\ ~Attached(c)
  BY EveryRule DEF Close, mapVars
<1>2. /\ chan \in [Channels -> Fds \cup {Invalid}]
      /\ reported \in [Channels -> SUBSET Kinds]
  BY DEF RulesInv, BaseInv, ClientTypeOK
<1>3. SameInterest
  BY <1>1, <1>2, RegistrationsKept
<1>4. reported[c] = {}
  BY <1>1 DEF RulesInv, ReadyInv
<1>5. reported' = reported
  BY <1>1, <1>2, <1>4
<1> QED
  BY <1>1, <1>3, <1>5, PendingsAre DEF Pendings, SameInterest, Stutters, Promise!vars

LEMMA AttachMaps ==
    ASSUME KeepsAll, RulesInv, RulesInv', NEW c \in Channels,
           NEW mask \in SUBSET Kinds, Attach(c, mask)
    PROVE  Promise!Attach(c, mask)
<1>1. IsOpen(c) /\ ~Attached(c) /\ ClientRuns
  BY EveryRule DEF Attach
<1>2. AttachAsserts(c) /\ chan[c] \in Fds /\ ~Registered(chan[c])
  BY <1>1, DetachedAsserts, OpenFd DEF RulesInv, BaseInv
<1> DEFINE req == [fd |-> chan[c], channel |-> c, mask |-> mask]
<1>3. SelectAttach(req) /\ UNCHANGED clientVars
  BY <1>2 DEF Attach
<1>4. req \in Request /\ req.fd = chan[c] /\ req.mask = mask
  BY <1>2 DEF Request
<1>5. SelectAttachAsserts(req.fd)
  BY <1>2 DEF AttachAsserts
<1> HIDE DEF req
<1>6. /\ \A fd \in Fds : Registered(fd)' <=> Registered(fd) \/ fd = chan[c]
      /\ \A fd \in Fds : Registered(fd)' =>
             requests'[fd2req'[fd]] = IF fd = chan[c] THEN req
                                      ELSE requests[fd2req[fd]]
  BY <1>3, <1>4, <1>5, SelectAttachKeeps DEF RulesInv, BaseInv
<1>7. chan' = chan /\ pc' = pc /\ event' = event /\ reported' = reported
  BY <1>3 DEF clientVars
<1>8. /\ Interest' = [Interest EXCEPT ![c] = Interest'[c]]
      /\ AttachedChannels' = IF c \in AttachedChannels'
                             THEN AttachedChannels \cup {c}
                             ELSE AttachedChannels \ {c}
  BY <1>1, <1>6, <1>7, OtherRegistrations, OneRegistration
<1>9. Attached(c)' /\ MaskOf(c)' = mask
  <2>1. AttachedAt'
    BY AttachedWhere, PTL
  <2>2. requests'[fd2req'[chan[c]]] = req
    <3>1. PICK fd \in Fds : fd = chan[c]
      BY <1>2
    <3>2. Registered(fd)' /\ requests'[fd2req'[fd]] = req
      BY <1>6, <3>1
    <3> QED
      BY <3>1, <3>2
  <2>3. IsOpen(c)' /\ Registered(chan[c])'
    BY <1>1, <1>2, <1>6, <1>7 DEF IsOpen, Registered
  <2> QED
    BY <1>4, <1>7, <2>1, <2>2, <2>3 DEF AttachedAt, MaskOf
<1>10. c \in AttachedChannels' /\ Interest'[c] = mask /\ c \notin AttachedChannels
  BY <1>1, <1>9 DEF AttachedChannels, Interest
<1> QED
  BY <1>1, <1>7, <1>8, <1>10, PendingsAre
     DEF Pendings, Promise!Attach, Promise!ClientRuns, ClientRuns

LEMMA SetMaskToMaps ==
    ASSUME RulesInv, RulesInv', ClientRuns, NEW c \in Channels, Attached(c),
           MaskAsserts(c), NEW mask \in SUBSET Kinds, SetMaskTo(c, mask)
    PROVE  Promise!SetMask(c, mask)
<1>1. /\ IsOpen(c) /\ chan[c] \in Fds /\ Registered(chan[c])
      /\ SelectMaskAsserts(chan[c]) /\ SelectSetMask(chan[c], mask)
  BY AttachedChannel DEF RulesInv, MaskAsserts, SetMaskTo
<1>2. requests[fd2req[chan[c]]] \in Request
  BY <1>1, RegisteredEntry DEF RulesInv, BaseInv, SelectInv
<1>3. /\ \A f \in Fds : Registered(f)' <=> Registered(f)
      /\ \A f \in Fds : Registered(f)' =>
             requests'[fd2req'[f]] =
                 IF f = chan[c] THEN [requests[fd2req[chan[c]]] EXCEPT !.mask = mask]
                 ELSE requests[fd2req[f]]
  BY <1>1, SelectSetMaskKeeps DEF RulesInv, BaseInv
<1>4. chan' = chan /\ pc' = pc /\ event' = event /\ reported' = reported
  BY DEF SetMaskTo, clientVars
<1>5. /\ Interest' = [Interest EXCEPT ![c] = Interest'[c]]
      /\ AttachedChannels' = IF c \in AttachedChannels'
                             THEN AttachedChannels \cup {c}
                             ELSE AttachedChannels \ {c}
  BY <1>1, <1>3, <1>4, OtherRegistrations, OneRegistration
<1>6. Attached(c)' /\ MaskOf(c)' = mask
  <2>1. AttachedAt'
    BY AttachedWhere, PTL
  <2>2. requests'[fd2req'[chan[c]]].mask = mask
    <3>1. PICK fd \in Fds : fd = chan[c]
      BY <1>1
    <3>2. Registered(fd)'
      BY <1>1, <1>3, <3>1
    <3>3. requests'[fd2req'[fd]].mask = mask
      BY <1>2, <1>3, <3>1, <3>2 DEF Request
    <3> QED
      BY <3>1, <3>3
  <2>3. IsOpen(c)' /\ Registered(chan[c])'
    BY <1>1, <1>3, <1>4 DEF IsOpen, Registered
  <2> QED
    BY <1>4, <2>1, <2>2, <2>3 DEF AttachedAt, MaskOf
<1>7. c \in AttachedChannels' /\ Interest'[c] = mask /\ c \in AttachedChannels
  BY <1>6 DEF AttachedChannels, Interest
<1>8. AttachedChannels' = AttachedChannels
  BY <1>5, <1>7
<1> QED
  BY <1>4, <1>5, <1>7, <1>8, PendingsAre
     DEF Pendings, Promise!SetMask, Promise!ClientRuns, ClientRuns

\* setMask, andMask and orMask set some mask.
LEMMA MasksMap ==
    ASSUME KeepsAll, RulesInv, RulesInv', NEW c \in Channels,
           NEW value \in SUBSET Kinds,
           SetMask(c, value) \/ AndMask(c, value) \/ OrMask(c, value)
    PROVE  \E mask \in SUBSET Kinds : Promise!SetMask(c, mask)
<1>1. Attached(c) /\ ClientRuns
  BY EveryRule DEF SetMask, AndMask, OrMask
<1>2. MaskAsserts(c)
  BY <1>1, AttachedAsserts DEF RulesInv
<1>3. MaskOf(c) \cap value \in SUBSET Kinds /\ MaskOf(c) \cup value \in SUBSET Kinds
  BY <1>2, MaskOfType DEF RulesInv
<1>4. PICK mask \in SUBSET Kinds : SetMaskTo(c, mask)
  BY <1>2, <1>3 DEF SetMask, AndMask, OrMask
<1> QED
  BY <1>1, <1>2, <1>4, SetMaskToMaps

\* detach, by the client or by a loop, of a channel with nothing pending.
LEMMA DetachEffectMaps ==
    ASSUME KeepsAll, RulesInv, RulesInv', NEW c \in Channels, MayDetach(c),
           DetachEffect(c), chan' = chan, reported' = reported
    PROVE  Promise!Forget(c)
<1>1. Attached(c) /\ reported[c] = {}
  BY EveryRule DEF MayDetach
<1>2. IsOpen(c) /\ chan[c] \in Fds /\ Registered(chan[c]) /\ SelectDetach(chan[c])
  BY <1>1, AttachedChannel DEF RulesInv, DetachEffect
<1>3. /\ \A f \in Fds : Registered(f)' <=> Registered(f) /\ f # chan[c]
      /\ \A f \in Fds : Registered(f)' =>
             requests'[fd2req'[f]] = requests[fd2req[f]]
  BY <1>2, SelectDetachKeeps DEF RulesInv, BaseInv
<1>4. /\ Interest' = [Interest EXCEPT ![c] = Interest'[c]]
      /\ AttachedChannels' = IF c \in AttachedChannels'
                             THEN AttachedChannels \cup {c}
                             ELSE AttachedChannels \ {c}
  BY <1>2, <1>3, OtherRegistrations, OneRegistration
<1>5. ~Attached(c)'
  BY DetachEffectRules
<1>6. c \in AttachedChannels /\ c \notin AttachedChannels' /\ Interest'[c] = {}
  BY <1>1, <1>5 DEF AttachedChannels, Interest
<1>7. reported = [reported EXCEPT ![c] = {}]
  BY <1>1 DEF RulesInv, BaseInv, ClientTypeOK
<1> QED
  BY <1>4, <1>6, <1>7, PendingsAre DEF Pendings, Promise!Forget

LEMMA DetachMaps ==
    ASSUME KeepsAll, RulesInv, RulesInv', NEW c \in Channels, Detach(c)
    PROVE  Promise!Detach(c)
<1>1. ClientRuns /\ MayDetach(c) /\ DetachEffect(c) /\ UNCHANGED clientVars
  BY MayDetachAsserts DEF Detach
<1>2. chan' = chan /\ reported' = reported /\ pc' = pc /\ event' = event
  BY <1>1 DEF clientVars
<1>3. Promise!Forget(c)
  BY <1>1, <1>2, DetachEffectMaps
<1> QED
  BY <1>1, <1>2, <1>3 DEF Promise!Detach, Promise!ClientRuns, ClientRuns

LEMMA DetachSourceMaps ==
    ASSUME KeepsAll, RulesInv, RulesInv', DetachSource
    PROVE  Promise!DetachSource
<1>1. event.source \in Channels /\ MayDetach(event.source)
  BY DEF RulesInv, BaseInv, SourceInv, DetachSource
<1>2. /\ DetachEffect(event.source)
      /\ pc = "detach" /\ pc' \in {"loop", "handler"}
      /\ chan' = chan /\ reported' = reported /\ event' = event
  BY <1>1, MayDetachAsserts DEF DetachSource
<1>3. PICK c \in Channels : c = event.source
  BY <1>1
<1>4. Promise!Forget(c)
  BY <1>1, <1>2, <1>3, DetachEffectMaps
<1>5. Promise!Forget(event.source)
  BY <1>3, <1>4
<1> QED
  BY <1>2, <1>5 DEF Promise!DetachSource

LEMMA ClearMaps ==
    ASSUME RulesInv, RulesInv', Clear
    PROVE  Promise!Clear
<1>1. /\ ClientRuns /\ chan' = chan /\ pc' = pc /\ event' = event
      /\ reported' = Nothing
  BY DEF Clear
<1>2. \A fd \in Fds : ~Registered(fd)'
  BY SelectClearKeeps DEF RulesInv, BaseInv, Clear
<1>3. ASSUME NEW c \in Channels PROVE ~Attached(c)'
  <2>1. AttachedAt'
    BY AttachedWhere, PTL
  <2>2. IsOpen(c)' => chan'[c] \in Fds
    BY <2>1 DEF AttachedAt
  <2>3. IsOpen(c)' => ~Registered(chan[c])'
    BY <1>2, <2>2 DEF Registered
  <2> QED
    BY <2>1, <2>3 DEF AttachedAt
<1>4. AttachedChannels' = {} /\ Interest' = Nothing
  BY <1>3 DEF AttachedChannels, Interest, Nothing
<1> QED
  BY <1>1, <1>4, PendingsAre
     DEF Pendings, Promise!Clear, Promise!ClientRuns, Promise!Nothing, ClientRuns, Nothing

\* What select () reports of a channel is within its mask.
LEMMA WaitReturnsReports ==
    ASSUME RulesInv, NEW ready \in [Kinds -> SUBSET Fds], WaitReturns(ready)
    PROVE  /\ SameInterest
           /\ reported' \in [Channels -> SUBSET Kinds]
           /\ \A c \in Channels : reported'[c] \subseteq Interest[c]
<1>1. /\ requests' = requests /\ fd2req' = fd2req /\ chan' = chan
      /\ reported' = [c \in Channels |-> {k \in Kinds : chan[c] \in ready[k]}]
      /\ \A k \in Kinds : ready[k] \subseteq want[k]
  BY DEF WaitReturns, Ready, mapVars
<1>2. SameInterest
  BY <1>1, RegistrationsKept
<1>3. ASSUME NEW c \in Channels, NEW k \in reported'[c]
      PROVE  k \in Interest[c]
  <2>1. k \in Kinds /\ chan[c] \in want[k] /\ chan[c] \in Fds
    BY <1>1, <1>3
  <2>2. Registered(chan[c]) /\ k \in requests[fd2req[chan[c]]].mask
    BY <2>1 DEF RulesInv, BaseInv, SelectInv, WantInv
  <2>3. IsOpen(c)
    BY <2>1, FdsAssumption DEF IsOpen, Invalid
  <2>4. Attached(c)
    BY <2>2, <2>3, AttachedWhere DEF AttachedAt
  <2> QED
    BY <2>2, <2>4 DEF Interest, MaskOf
<1> QED
  BY <1>1, <1>2, <1>3

\* A count of ready bits stands for reports.
LEMMA CountedIsReported == RulesInv => (nready >= 1 => reported # Nothing)
<1> SUFFICES ASSUME RulesInv, nready >= 1 PROVE reported # Nothing
  OBVIOUS
<1>1. nready = Cardinality(Left)
  BY DEF RulesInv, ReadyInv
<1>2. PICK b \in Left : TRUE
  BY <1>1, LeftFinite, FS_EmptySet
<1>3. PICK fd \in Fds : fd = b[2]
  BY LeftIsPair
<1>4. Registered(fd) /\ b[1] \in reported[Source(fd)]
  BY <1>3 DEF RulesInv, ReadyInv
<1>5. Source(fd) \in Channels
  BY <1>4, RegisteredSource DEF RulesInv
<1> QED
  BY <1>4, <1>5 DEF Nothing

LEMMA WaitsMap ==
    ASSUME RulesInv, RulesInv', Wait \/ WaitThrows \/ Start("dispatch") \/ Start("pump")
    PROVE  Promise!Wait
<1>1. CASE Wait
  <2>1. PICK ready \in [Kinds -> SUBSET Fds] : WaitReturns(ready)
    BY <1>1 DEF Wait
  <2>2. pc = "client" /\ pc' = "client" /\ event' = event
    BY <1>1, <2>1 DEF Wait, WaitReturns
  <2> QED
    BY <2>1, <2>2, WaitReturnsReports, PendingsAre
       DEF Pendings, SameInterest, Promise!Wait
<1>2. CASE WaitThrows
  <2>1. /\ requests' = requests /\ fd2req' = fd2req /\ chan' = chan
        /\ reported' = Nothing /\ event' = event
        /\ pc = "client" /\ pc' = "client"
    BY <1>2 DEF WaitThrows, mapVars
  <2>2. SameInterest
    BY <2>1, RegistrationsKept
  <2>3. /\ reported' \in [Channels -> SUBSET Kinds]
        /\ \A c \in Channels : reported'[c] \subseteq Interest[c]
    BY <2>1 DEF Nothing
  <2> QED
    BY <2>1, <2>2, <2>3, PendingsAre DEF Pendings, SameInterest, Promise!Wait
<1>3. ASSUME NEW m \in {"dispatch", "pump"}, Start(m)
      PROVE  Promise!Wait
  <2>1. PICK ready \in [Kinds -> SUBSET Fds] :
            WaitReturns(ready) /\ pc' = IF nready' > 0 THEN "loop" ELSE "client"
    BY <1>3 DEF Start
  <2>2. pc = "client" /\ event' = event
    BY <1>3, <2>1 DEF Start, WaitReturns
  <2>3. pc' = "client" \/ (pc' = "loop" /\ reported' # Nothing)
    <3>1. nready' >= 1 => reported' # Nothing
      <4>1. (nready >= 1 => reported # Nothing)'
        BY CountedIsReported, PTL
      <4> QED
        BY <4>1 DEF Nothing
    <3>2. nready' \in Nat
      BY <2>1, WaitReturnsKeeps DEF RulesInv
    <3> QED
      BY <2>1, <3>1, <3>2
  <2> QED
    BY <2>1, <2>2, <2>3, WaitReturnsReports, PendingsAre
       DEF Pendings, SameInterest, Promise!Wait, Promise!Nothing, Nothing
<1> QED
  BY <1>1, <1>2, <1>3

\* nextReady () at a descriptor delivers all that is pending for its owner.
LEMMA NextReadyFoundMaps ==
    ASSUME RulesInv, RulesInv', NEW fd \in Fds, NextReadyFound(fd)
    PROVE  \E c \in Channels : Promise!Deliver(c)
<1>1. NextStopsAt(fd) /\ Iterates
  BY DEF NextReadyFound
<1>2. Registered(fd) /\ SelectNextAsserts(fd) /\ Events(fd) \subseteq reported[Source(fd)]
  BY <1>1, StopsAt DEF SelectNextAsserts
<1>3. PICK c \in Channels : c = Source(fd) /\ chan[c] = fd /\ Attached(c)
  BY <1>2, RegisteredSource DEF RulesInv
<1>4. /\ reported' = [reported EXCEPT ![c] = {}]
      /\ event' = EventOf(fd)
      /\ pc' \in {"detach", "handler"}
      /\ requests' = requests /\ fd2req' = fd2req /\ chan' = chan
  BY <1>2, <1>3, EventOfType DEF NextReadyFound, mapVars, RulesInv
<1>5. PendingReports[c] = Events(fd) /\ Events(fd) # {}
  <2>1. fd > current /\ nready >= 1 /\ Events(fd) # {}
    BY <1>1, FdsAssumption
       DEF NextStopsAt, RulesInv, BaseInv, SelectInv, SelectTypeOK
  <2> QED
    BY <1>3, <2>1 DEF PendingReports, PendingOf, Events
<1>6. Interest[c] = requests[fd2req[fd]].mask
  BY <1>3 DEF Interest, MaskOf
<1>7. event' = [source |-> c, events |-> PendingReports[c] \cap Interest[c]]
  <2>1. Events(fd) \cap Interest[c] = requests[fd2req[fd]].mask \cap Events(fd)
    BY <1>6
  <2> QED
    BY <1>3, <1>4, <1>5, <2>1 DEF EventOf, Source
<1>8. SameInterest
  BY <1>4, RegistrationsKept
<1>9. pc \in {"client", "loop"}
  BY <1>1 DEF Iterates
<1> QED
  BY <1>4, <1>5, <1>7, <1>8, <1>9, PendingsAre
     DEF Pendings, SameInterest, Promise!Deliver

\* A loop ends with nothing pending; for a client that iterates itself the
\* end of the walk is no step at all.
LEMMA NextReadyNoneMaps ==
    ASSUME RulesInv, RulesInv', NextReadyNone
    PROVE  Promise!LoopEnds \/ Stutters
<1>1. /\ requests' = requests /\ fd2req' = fd2req /\ chan' = chan
      /\ reported' = reported /\ event' = event
      /\ pc \in {"client", "loop"} /\ pc' = "client"
  BY DEF NextReadyNone, mapVars, Iterates
<1>2. SameInterest
  BY <1>1, RegistrationsKept
<1>3. reported = Nothing
  BY FindsNone DEF NextReadyNone
<1>4. CASE pc = "client"
  BY <1>1, <1>2, <1>4, PendingsAre
     DEF Pendings, SameInterest, Stutters, Promise!vars
<1>5. CASE pc = "loop"
  BY <1>1, <1>2, <1>3, <1>5, PendingsAre
     DEF Pendings, SameInterest, Promise!LoopEnds, Promise!Nothing, Nothing
<1> QED
  BY <1>1, <1>4, <1>5

LEMMA ReturnMaps ==
    ASSUME RulesInv, RulesInv', NEW value \in BOOLEAN, Return(value)
    PROVE  Promise!HandlerReturns
<1>1. /\ requests' = requests /\ fd2req' = fd2req /\ chan' = chan
      /\ reported' = reported /\ event' = event
      /\ pc = "handler" /\ pc' \in {"client", "loop", "detach"}
  BY DEF Return, mapVars
<1>2. SameInterest
  BY <1>1, RegistrationsKept
<1> QED
  BY <1>1, <1>2, PendingsAre DEF Pendings, SameInterest, Promise!HandlerReturns

-----------------------------------------------------------------------------
(* The refinement.                                                         *)

LEMMA InitMaps == Init => Promise!Init
<1> SUFFICES ASSUME Init PROVE Promise!Init
  OBVIOUS
<1>1. \A c \in Channels : ~Attached(c)
  BY DEF Init, SelectInit, MapInit, EmptyRequests, Attached
<1>2. AttachedChannels = {} /\ Interest = Nothing
  BY <1>1 DEF AttachedChannels, Interest, Nothing
<1>3. PendingReports = Nothing
  BY RulesInvInit, PendingIsReported DEF Init
<1> QED
  BY <1>2, <1>3 DEF Init, NoEvent, Nothing, Promise!Init, Promise!Nothing

LEMMA StutterMaps ==
    ASSUME RulesInv, RulesInv', UNCHANGED vars
    PROVE  Stutters
<1>1. /\ requests' = requests /\ fd2req' = fd2req /\ chan' = chan
      /\ reported' = reported /\ event' = event /\ pc' = pc
  BY DEF vars, mapVars, clientVars
<1>2. SameInterest
  BY <1>1, RegistrationsKept
<1> QED
  BY <1>1, <1>2, PendingsAre DEF Pendings, SameInterest, Stutters, Promise!vars

LEMMA NextMaps ==
    ASSUME KeepsAll
    PROVE  RulesInv /\ RulesInv' /\ [Next]_vars => [Promise!Next]_(Promise!vars)
<1> SUFFICES ASSUME RulesInv, RulesInv', [Next]_vars
             PROVE  Promise!Next \/ Stutters
  BY DEF Stutters
<1>1. CASE UNCHANGED vars
  BY <1>1, StutterMaps
<1>2. CASE ClientStep
  <2>1. ASSUME NEW c \in Channels, Open(c) \/ Close(c) PROVE Stutters
    BY <2>1, OpenMaps, CloseMaps
  <2>2. ASSUME NEW c \in Channels, Detach(c) PROVE Promise!Next
    BY <2>2, DetachMaps DEF Promise!Next
  <2>3. ASSUME NEW c \in Channels, NEW mask \in SUBSET Kinds, Attach(c, mask)
        PROVE  Promise!Next
    BY <2>3, AttachMaps DEF Promise!Next
  <2>4. ASSUME NEW c \in Channels, NEW value \in SUBSET Kinds,
               SetMask(c, value) \/ AndMask(c, value) \/ OrMask(c, value)
        PROVE  Promise!Next
    BY <2>4, MasksMap DEF Promise!Next
  <2>5. ASSUME Clear PROVE Promise!Next
    BY <2>5, ClearMaps DEF Promise!Next
  <2>6. ASSUME Wait \/ WaitThrows \/ Start("dispatch") \/ Start("pump")
        PROVE  Promise!Next
    BY <2>6, WaitsMap DEF Promise!Next
  <2> QED
    BY <1>2, <2>1, <2>2, <2>3, <2>4, <2>5, <2>6 DEF ClientStep
<1>3. CASE LoopStep
  <2>1. ASSUME NEW fd \in Fds, NextReadyFound(fd) PROVE Promise!Next
    BY <2>1, NextReadyFoundMaps DEF Promise!Next
  <2>2. ASSUME NextReadyNone PROVE Promise!Next \/ Stutters
    BY <2>2, NextReadyNoneMaps DEF Promise!Next
  <2>3. ASSUME DetachSource PROVE Promise!Next
    BY <2>3, DetachSourceMaps DEF Promise!Next
  <2> QED
    BY <1>3, <2>1, <2>2, <2>3 DEF LoopStep
<1>4. CASE HandlerReturns
  BY <1>4, ReturnMaps DEF HandlerReturns, Promise!Next
<1> QED
  BY <1>1, <1>2, <1>3, <1>4 DEF Next

(* For a client that keeps the five rules IOSelector over IOSelectSelect   *)
(* implements ReadyDelivery: the walk of next () over descriptors and      *)
(* fd_sets delivers every report of wait () once, to its channel, cut down *)
(* to what the client still wants.                                         *)
THEOREM RefinesCorrect ==
    ASSUME KeepsAll
    PROVE  Spec => ImplementsReadyDelivery
<1>1. RulesInv /\ RulesInv' /\ [Next]_vars => [Promise!Next]_(Promise!vars)
  BY NextMaps
<1> QED
  BY <1>1, InitMaps, RulesInvAlways, PTL
     DEF Spec, ImplementsReadyDelivery, Promise!Spec
=============================================================================
