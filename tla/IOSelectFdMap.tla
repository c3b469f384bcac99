--------------------------- MODULE IOSelectFdMap ---------------------------
(***************************************************************************)
(* The bookkeeping that every descriptor-based selection method inherits:  *)
(* IOSelectMethod keeps the vector of client requests, IOSelectFdMap the   *)
(* table that leads from a descriptor to the position of its request.      *)
(*                                                                         *)
(* Positions are one-based here (zero-based in the code) and Unused stands *)
(* for the code's ~0ul.  A descriptor beyond the end of the table is also  *)
(* Unused: every caller asserts "position < requests ()" next, so that the *)
(* two differ only in which assertion stops the program.  The length of    *)
(* the table is kept as fds, because one selection method looks at it.     *)
(***************************************************************************)
EXTENDS Integers, Sequences, SequencesExt

CONSTANTS
    Fds,        \* the descriptors the kernel may hand out
    Channels,   \* the IOChannel objects of the client
    Kinds       \* the kinds of I/O one can wait for

ASSUME FdsAssumption == Fds \subseteq Nat

VARIABLES
    requests,   \* IOSelectMethod::m_requests
    fd2req,     \* IOSelectFdMap::m_fd2req
    fds         \* IOSelectFdMap::m_fd2req.size ()

mapVars == <<requests, fd2req, fds>>

Unused == 0

Request == [fd : Fds, channel : Channels, mask : SUBSET Kinds]

MapTypeOK ==
    /\ requests \in Seq(Request)
    /\ fd2req \in [Fds -> Nat]
    /\ fds \in Nat

-----------------------------------------------------------------------------
\* compact () and clearReqs (), also the state after construction.
EmptyRequests == <<>>
EmptyMap == [fd \in Fds |-> Unused]

MapInit ==
    /\ requests = EmptyRequests
    /\ fd2req = EmptyMap
    /\ fds = 0

MapClear ==
    /\ requests' = EmptyRequests
    /\ fd2req' = EmptyMap
    /\ fds' = 0

\* "position < requests ()" of the position found for fd.
Registered(fd) == fd2req[fd] \in DOMAIN requests

\* The assertion of fdmap: no descriptor is registered twice.
FdMapAsserts(fd) == fd2req[fd] = Unused

\* fdmap (fd, requests ()) followed by addReq (req).
AddRequest(req) ==
    /\ fd2req' = [fd2req EXCEPT ![req.fd] = Len(requests) + 1]
    /\ fds' = IF req.fd >= fds THEN req.fd + 1 ELSE fds
    /\ requests' = Append(requests, req)

\* A mutant of FdClear: unused entries are renumbered too.
FdClearUnused(fd) ==
    [f \in Fds |-> IF f = fd THEN Unused
                   ELSE IF fd2req[f] > fd2req[fd] \/ fd2req[f] = Unused
                   THEN fd2req[f] - 1
                   ELSE fd2req[f]]

\* The table after fdclear (fd): the entry is cleared and every larger
\* position moves down by one.
FdClear(fd) ==
    [f \in Fds |-> IF f = fd THEN Unused
                   ELSE IF fd2req[f] > fd2req[fd] THEN fd2req[f] - 1
                   ELSE fd2req[f]]

\* The assertions of removeReq (req, position).
RemoveReqAsserts(fd, channel) ==
    /\ Registered(fd)
    /\ requests[fd2req[fd]].fd = fd
    /\ requests[fd2req[fd]].channel = channel

\* A mutant of RemoveRequest: the last request is dropped instead.
RemoveRequestLast(fd) ==
    /\ requests' = RemoveAt(requests, Len(requests))
    /\ fd2req' = FdClear(fd)
    /\ UNCHANGED fds

\* removeReq (req, fdclear (fd)): erase the request, renumber the rest.
RemoveRequest(fd) ==
    /\ requests' = RemoveAt(requests, fd2req[fd])
    /\ fd2req' = FdClear(fd)
    /\ UNCHANGED fds

\* Assign the mask of the request of fd.
AssignMask(fd, mask) ==
    /\ requests' = [requests EXCEPT ![fd2req[fd]].mask = mask]
    /\ UNCHANGED <<fd2req, fds>>

-----------------------------------------------------------------------------
(* The table and the vector are inverse to each other: each request is     *)
(* found from its descriptor and each entry of the table leads to the      *)
(* request of that descriptor.  fdclear's renumbering loop and the erase   *)
(* in removeReq have to agree for this to survive a removal.               *)
MapInv ==
    /\ \A i \in DOMAIN requests : fd2req[requests[i].fd] = i
    /\ \A fd \in Fds : fd2req[fd] # Unused =>
           /\ fd2req[fd] \in DOMAIN requests
           /\ requests[fd2req[fd]].fd = fd
           /\ fd < fds
=============================================================================
