---------------------------- MODULE IOSelectPoll ----------------------------
(***************************************************************************)
(* IOSelectPoll, the selection method of SV_HIGHPERF on Linux: a vector of *)
(* pollfd structures kept parallel to the requests, walked from its end    *)
(* down after poll () filled in what is ready.                             *)
(*                                                                         *)
(* The client of this module is the plain one of the test programs: a      *)
(* channel is its descriptor and stays open, it is attached only while     *)
(* detached, and after a wait that found something next () is called until *)
(* it returns IOFD_INVALID, with attach, detach and masks in between.      *)
(***************************************************************************)
EXTENDS IOSelectFdMap, FiniteSets

CONSTANT SizeMax        \* the largest size_t

VARIABLES
    polls,      \* m_polls, with the sets of kinds for events and revents
    current,    \* m_current, a size_t: one past the position of interest
    nready,     \* m_nready
    walk,       \* "idle", "next" while the ready list is walked, "handler"
                \* while the client handles an event, "failed" after an ASSERT
    event       \* the last event handed out

pollVars == <<polls, current, nready>>
vars == <<mapVars, pollVars, walk, event>>

\* POLLHUP and POLLERR, which poll () reports unasked.
Hangup == "hangup"
PollFd == [fd : Fds, events : SUBSET Kinds, revents : SUBSET (Kinds \cup {Hangup})]
NoEvent == [source |-> -1, events |-> {}]

TypeOK ==
    /\ MapTypeOK
    /\ polls \in Seq(PollFd)
    /\ current \in 0..SizeMax
    /\ nready \in Nat \cup {-1}
    /\ walk \in {"idle", "next", "handler", "failed"}
    /\ event \in [source : Fds, events : SUBSET Kinds] \cup {NoEvent}

Init ==
    /\ MapInit
    /\ polls = <<>>
    /\ current = 0
    /\ nready = -1
    /\ walk = "idle"
    /\ event = NoEvent

\* Where the client may change what is registered.
Running == walk \in {"idle", "handler"}
Abort == walk' = "failed" /\ UNCHANGED <<mapVars, pollVars, event>>

-----------------------------------------------------------------------------
AttachAsserts(fd) ==
    /\ Len(polls) = Len(requests)
    /\ current <= Len(polls)
    /\ FdMapAsserts(fd)

Attach(fd, mask) ==
    /\ Running
    /\ ~Registered(fd)
    /\ \/ /\ AttachAsserts(fd)
          /\ polls' = Append(polls, [fd |-> fd, events |-> mask, revents |-> {}])
          /\ AddRequest([fd |-> fd, channel |-> fd, mask |-> mask])
          /\ UNCHANGED <<current, nready, walk, event>>
       \/ ~AttachAsserts(fd) /\ Abort

\* The last condition is ASSERT (m_polls.empty () == ! fds ()), evaluated
\* once the entry is gone; the table of descriptors never shrinks.
DetachAsserts(fd) ==
    /\ Len(polls) = Len(requests)
    /\ current <= Len(polls)
    /\ RemoveReqAsserts(fd, fd)
    /\ polls[fd2req[fd]].fd = fd
    /\ (Len(polls) = 1) <=> (fds = 0)

\* --m_current on a size_t wraps around below zero.
Decremented(n) == (n + SizeMax) % (SizeMax + 1)

Detach(fd) ==
    /\ Running
    /\ Registered(fd)
    /\ \/ /\ DetachAsserts(fd)
          /\ polls' = RemoveAt(polls, fd2req[fd])
          /\ RemoveRequest(fd)
          /\ current' = IF current >= fd2req[fd] - 1 THEN Decremented(current)
                        ELSE current
          /\ UNCHANGED <<nready, walk, event>>
       \/ ~DetachAsserts(fd) /\ Abort

Clear ==
    /\ Running
    /\ MapClear
    /\ polls' = <<>>
    /\ current' = 0
    /\ nready' = -1
    /\ UNCHANGED <<walk, event>>

MaskAsserts(fd) ==
    /\ Registered(fd)
    /\ Len(polls) = Len(requests)
    /\ polls[fd2req[fd]].fd = fd

\* A mutant of SetMaskTo: poll () is not told.
SetMaskOnly(fd, mask) ==
    \/ /\ MaskAsserts(fd)
       /\ AssignMask(fd, mask)
       /\ UNCHANGED <<pollVars, walk, event>>
    \/ ~MaskAsserts(fd) /\ Abort

SetMaskTo(fd, mask) ==
    \/ /\ MaskAsserts(fd)
       /\ AssignMask(fd, mask)
       /\ polls' = [polls EXCEPT ![fd2req[fd]].events = mask]
       /\ UNCHANGED <<current, nready, walk, event>>
    \/ ~MaskAsserts(fd) /\ Abort

SetMask(fd, value) == Running /\ SetMaskTo(fd, value)

AndMask(fd, value) ==
    /\ Running
    /\ Registered(fd)
    /\ SetMaskTo(fd, requests[fd2req[fd]].mask \cap value)

OrMask(fd, value) ==
    /\ Running
    /\ Registered(fd)
    /\ SetMaskTo(fd, requests[fd2req[fd]].mask \cup value)

-----------------------------------------------------------------------------
ReadyPositions(p) == {i \in DOMAIN p : p[i].revents # {}}

\* poll () reports some of what is asked, and hangups; interrupted calls are
\* repeated.  A walk starts if it found anything.
Wait ==
    /\ walk = "idle"
    /\ Len(polls) = Len(requests)
    /\ \E ready \in [DOMAIN polls -> SUBSET (Kinds \cup {Hangup})] :
           /\ \A i \in DOMAIN polls : ready[i] \subseteq polls[i].events \cup {Hangup}
           /\ polls' = [i \in DOMAIN polls |-> [polls[i] EXCEPT !.revents = ready[i]]]
           /\ nready' = Cardinality({i \in DOMAIN polls : ready[i] # {}})
    /\ current' = Len(polls)
    /\ walk' = IF nready' > 0 THEN "next" ELSE "idle"
    /\ UNCHANGED <<mapVars, event>>

\* poll () failed: IOError is thrown before m_current is set.
WaitThrows ==
    /\ walk = "idle"
    /\ nready' = -1
    /\ UNCHANGED <<mapVars, polls, current, walk, event>>

\* Where the loop of next () leaves m_current: just above the highest
\* ready position below it, or zero.
Stop ==
    LET below == {i \in ReadyPositions(polls) : i <= current}
    IN  CHOOSE n \in below \cup {0} : \A i \in below : i <= n

\* The loop tests m_polls [m_current-1], the code after it reads
\* m_polls [m_current].  At the end of the vector that is no element, and no
\* descriptor maps to that position whatever the memory there holds: the
\* assertion fd2req (fd) == m_current fails.
NextAsserts ==
    /\ Len(polls) = Len(requests)
    /\ current <= Len(polls)
    /\ Stop > 0 =>
           /\ Stop < Len(polls)
           /\ LET fd == polls[Stop + 1].fd
              IN  fd2req[fd] = Stop + 1 /\ requests[Stop + 1].fd = fd

NextFound ==
    /\ walk = "next"
    /\ nready >= 1
    /\ \/ /\ NextAsserts
          /\ Stop > 0
          /\ current' = Stop
          /\ event' = [source |-> polls[Stop + 1].fd,
                       events |-> requests[Stop + 1].mask \cap polls[Stop].revents]
          /\ walk' = "handler"
          /\ UNCHANGED <<mapVars, polls, nready>>
       \/ ~NextAsserts /\ Abort

NextNone ==
    /\ walk = "next"
    /\ nready >= 1 => NextAsserts /\ Stop = 0
    /\ current' = IF nready < 1 THEN current ELSE 0
    /\ walk' = "idle"
    /\ UNCHANGED <<mapVars, polls, nready, event>>

HandlerReturns ==
    /\ walk = "handler"
    /\ walk' = "next"
    /\ UNCHANGED <<mapVars, pollVars, event>>

-----------------------------------------------------------------------------
Changes ==
    \/ \E fd \in Fds : Detach(fd)
    \/ \E fd \in Fds, mask \in SUBSET Kinds :
           Attach(fd, mask) \/ SetMask(fd, mask) \/ AndMask(fd, mask) \/ OrMask(fd, mask)
    \/ Clear

NextCalls == NextFound \/ NextNone

Next == Changes \/ Wait \/ WaitThrows \/ NextCalls \/ HandlerReturns

Spec == Init /\ [][Next]_vars

-----------------------------------------------------------------------------
(* The vector given to poll () stays parallel to the requests, position by *)
(* position: attach, detach and setMask change the two separately.         *)
PollsInv ==
    /\ Len(polls) = Len(requests)
    /\ \A i \in DOMAIN polls :
           polls[i].fd = requests[i].fd /\ polls[i].events = requests[i].mask
=============================================================================
