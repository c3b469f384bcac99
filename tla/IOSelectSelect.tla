--------------------------- MODULE IOSelectSelect ---------------------------
(***************************************************************************)
(* IOSelectSelect, the selection method behind IOSelector on most systems: *)
(* the three fd_sets of interest, their copies filled by select (), and    *)
(* the walk over the ready descriptors.                                    *)
(*                                                                         *)
(* The code keeps one fd_set per kind (m_r, m_w, m_e); here want and       *)
(* status map a kind to its set.  IOAccept shares m_r with IORead and      *)
(* IOConnect shares m_w with IOWrite, so a pair counts as one kind.        *)
(* The operators give the effect of each member function and, separately,  *)
(* the condition under which none of its ASSERTs fails.                    *)
(***************************************************************************)
EXTENDS IOSelectFdMap, FiniteSets

CONSTANT FdSetSize      \* FD_SETSIZE

ASSUME FdSetSizeAssumption == FdSetSize \in Nat
ASSUME FiniteAssumption == IsFiniteSet(Fds) /\ IsFiniteSet(Kinds)

VARIABLES
    want,       \* m_r, m_w and m_e, by kind
    status,     \* m_rstatus, m_wstatus and m_estatus, by kind
    maxfd,      \* m_maxfd
    current,    \* m_current
    nready      \* m_nready

selectVars == <<want, status, maxfd, current, nready>>

SelectTypeOK ==
    /\ want \in [Kinds -> SUBSET Fds]
    /\ status \in [Kinds -> SUBSET Fds]
    /\ maxfd \in Fds \cup {-1}
    /\ current \in Nat \cup {-1}
    /\ nready \in Nat \cup {-1}

NoFds == [k \in Kinds |-> {}]

\* The constructor calls clear (); the status sets start undefined and are
\* never read while nready is 0, so that any value stands for them.
SelectInit ==
    /\ MapInit
    /\ want = NoFds
    /\ status = NoFds
    /\ maxfd = -1
    /\ current = -1
    /\ nready = 0

\* A mutant of SelectClear: the count of ready bits survives.
SelectClearCounts ==
    /\ MapClear
    /\ want' = NoFds
    /\ maxfd' = -1
    /\ current' = -1
    /\ UNCHANGED <<status, nready>>

SelectClear ==
    /\ MapClear
    /\ want' = NoFds
    /\ maxfd' = -1
    /\ current' = -1
    /\ nready' = 0
    /\ UNCHANGED status

-----------------------------------------------------------------------------
SelectAttachAsserts(fd) ==
    /\ fd < FdSetSize
    /\ FdMapAsserts(fd)

\* A mutant of SelectAttach: the limit is the descriptor attached last.
SelectAttachLowers(req) ==
    /\ AddRequest(req)
    /\ maxfd' = req.fd
    /\ want' = [k \in Kinds |-> IF k \in req.mask THEN want[k] \cup {req.fd}
                                ELSE want[k]]
    /\ UNCHANGED <<status, current, nready>>

SelectAttach(req) ==
    /\ AddRequest(req)
    /\ maxfd' = IF req.fd > maxfd THEN req.fd ELSE maxfd
    /\ want' = [k \in Kinds |-> IF k \in req.mask THEN want[k] \cup {req.fd}
                                ELSE want[k]]
    /\ UNCHANGED <<status, current, nready>>

\* FD_CLR and FD_SET of setMask: the interest sets once fd has this mask.
WantWith(fd, mask) ==
    [k \in Kinds |-> IF k \in mask THEN want[k] \cup {fd} ELSE want[k] \ {fd}]

SelectMaskAsserts(fd) ==
    /\ fd <= maxfd
    /\ Registered(fd)
    /\ requests[fd2req[fd]].fd = fd

SelectSetMask(fd, mask) ==
    /\ AssignMask(fd, mask)
    /\ want' = WantWith(fd, mask)
    /\ UNCHANGED <<status, maxfd, current, nready>>

SelectDetachAsserts(fd, channel) ==
    /\ SelectMaskAsserts(fd)
    /\ RemoveReqAsserts(fd, channel)

\* The loop at the end of detach: m_maxfd goes down to the highest
\* descriptor at or below it that some interest set w still holds.
Shrink(w) ==
    \E m \in (-1)..maxfd :
        /\ m >= 0 => \E k \in Kinds : m \in w[k]
        /\ \A fd \in (m + 1)..maxfd : \A k \in Kinds : fd \notin w[k]
        /\ maxfd' = m

\* setMask (fd, 0), removeReq (req, fdclear (fd)), then the limit.
SelectDetach(fd) ==
    /\ want' = WantWith(fd, {})
    /\ RemoveRequest(fd)
    /\ Shrink(WantWith(fd, {}))
    /\ UNCHANGED <<status, current, nready>>

-----------------------------------------------------------------------------
Bits(s) == {b \in Kinds \X Fds : b[2] \in s[b[1]]}

\* A mutant of SelectWaitReturns: descriptors are counted, as poll () does.
SelectWaitCountsFds(ready) ==
    /\ status' = ready
    /\ nready' = Cardinality({fd \in Fds : \E k \in Kinds : fd \in ready[k]})
    /\ current' = -1
    /\ UNCHANGED <<want, maxfd>>

\* select () returned: ready is what it left in the copies of the sets.  An
\* interrupted call (EINTR) is repeated and changes nothing.
SelectWaitReturns(ready) ==
    /\ status' = ready
    /\ nready' = Cardinality(Bits(ready))
    /\ current' = -1
    /\ UNCHANGED <<want, maxfd>>

\* select () failed: the copies are left as they are, IOError is thrown
\* before m_current is reset.
SelectWaitThrows ==
    /\ status' = want
    /\ nready' = -1
    /\ UNCHANGED <<want, maxfd, current>>

\* The kinds the last wait reported for descriptor fd.
Events(fd) == {k \in Kinds : fd \in status[k]}

\* The walk of next () stops at fd.
NextStopsAt(fd) ==
    /\ nready >= 1
    /\ fd \in (current + 1)..maxfd
    /\ Events(fd) # {}
    /\ \A f \in (current + 1)..(fd - 1) : Events(f) = {}

\* A mutant of NextFindsNone: the walk ends before the limit.
NextStopsEarly ==
    nready >= 1 => \A f \in (current + 1)..(maxfd - 1) : Events(f) = {}

\* The walk of next () finds nothing.
NextFindsNone ==
    nready >= 1 => \A f \in (current + 1)..maxfd : Events(f) = {}

\* Each VERIFY (m_nready--) needs a count left, and the lookup of the
\* request asserts that the descriptor is registered.
SelectNextAsserts(fd) ==
    /\ nready >= Cardinality(Events(fd))
    /\ Registered(fd)

\* Mutants of SelectNextFound: one count for each descriptor; the walk
\* stays before the descriptor and nothing is counted.
SelectNextCountsFds(fd) ==
    /\ current' = fd
    /\ nready' = nready - 1
    /\ UNCHANGED <<want, status, maxfd>>
SelectNextRepeats(fd) ==
    /\ current' = fd - 1
    /\ UNCHANGED <<want, status, maxfd, nready>>

\* next () returns fd.
SelectNextFound(fd) ==
    /\ current' = fd
    /\ nready' = nready - Cardinality(Events(fd))
    /\ UNCHANGED <<want, status, maxfd>>

\* next () returns IOFD_INVALID.  The test "m_current++ < m_maxfd" moves
\* m_current one past the limit, and further on every later call.
SelectNextNone ==
    /\ current' = IF nready < 1 THEN current
                  ELSE IF current <= maxfd THEN maxfd + 1
                  ELSE current + 1
    /\ UNCHANGED <<want, status, maxfd, nready>>
=============================================================================
