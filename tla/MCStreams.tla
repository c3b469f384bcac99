----------------------------- MODULE MCStreams ------------------------------
(***************************************************************************)
(* A channel with all its calls; two File objects on three descriptors;    *)
(* locks on regions of one file, two objects in one process and one in     *)
(* another; or a parent with its children and pipes.                       *)
(***************************************************************************)
EXTENDS IOStream

CONSTANTS
    Files, LastNumber, MaxOpened, FileRules,
    Lockers, LockProcs, LockerOf, l1, l2, l3, p1, p2, Bytes, Disjoint,
    SubProcesses, MaxProcs, MaxPipes, Rules

VARIABLES
    part,
    table, opened, file, theirs, wrong,
    locks, region, holds, want, asserted,
    fds, chan, npipes, proc, obj, cmd, pc, failed, strays

fileObjVars == <<table, opened, file, theirs, wrong>>
regionVars == <<locks, region, holds, want, asserted>>
processVars == <<fds, chan, npipes, proc, obj, cmd, pc, failed, strays>>
vars == <<part, streamVars, fileObjVars, regionVars, processVars>>

ASSUME NumbersAssumption == {LastNumber, MaxProcs, MaxPipes} \subseteq Nat

Obj == INSTANCE FileObject

ASSUME LockersAssumption == LockerOf \in [Lockers -> LockProcs]

Shared == [o \in {l1, l2, l3} |-> IF o = l3 THEN p2 ELSE p1]
Reg == INSTANCE FileLock WITH
    Objects <- Lockers, Procs <- LockProcs, ProcOf <- LockerOf, table <- locks, failed <- asserted
Sub == INSTANCE SubProcess WITH Objects <- SubProcesses

MCReadCalls == {"read", "readv", "system readv", "xread", "xreadv"}
MCWriteCalls == {"write", "writev", "system writev", "xwrite", "xwritev"}
MCBufferLists == {<<2, 1>>, <<2>>}
MCBytes == 0..2

Init ==
    /\ part \in {"stream", "objects", "regions", "processes"}
    /\ IOInit /\ Obj!FileObjInit /\ Reg!Init /\ Sub!Init
    /\ part # "stream" => nonblock = [side \in {"r", "w"} |-> FALSE]

Next ==
    \/ part = "stream" /\ IONext /\ UNCHANGED <<part, fileObjVars, regionVars, processVars>>
    \/ part = "objects" /\ Obj!FileObjNext /\ UNCHANGED <<part, streamVars, regionVars, processVars>>
    \/ part = "regions" /\ Reg!Next /\ UNCHANGED <<part, streamVars, fileObjVars, processVars>>
    \/ part = "processes" /\ Sub!Next /\ UNCHANGED <<part, streamVars, fileObjVars, regionVars>>

\* A side that can go on with a system call does, and the reader goes on to
\* read; a child that can end ends, and wait () returns once it has.
Spec == Init /\ [][Next]_vars /\ IOFairness /\ Sub!Fairness

-----------------------------------------------------------------------------
\* The bytes of a connection arrive in the order they were written in, with no
\* hole between buffers, and every one that was taken is told to the caller
\* (IOInput.cpp readv, IOOutput.cpp writev, UnixIOChannel.cpp).
BytesKept == InOrder /\ NoHoles /\ EveryByteTold

\* A File closes the descriptors it owns and no others, has one that is open as
\* long as it is to close it, and what the library opened stays with an object
\* that closes it or with the client (File.cpp:111, 182, open, duplicate, attach).
FilesKeepTheirs == Obj!ClosesItsOwn /\ Obj!NothingLeaks /\ Obj!OwnersAreOpen

\* Who was told to have a region has all its bytes, and no two processes work on
\* a byte that one of them has for writing (UnixFileLock.cpp lock).
RegionsKept == Reg!TypeOK /\ Reg!HolderHasRegion /\ Reg!Exclusion

\* A child has the ends it was to have as its input and output, and not the other
\* ends of the pipes it reads and writes; signals and closes reach the own child
\* and the own descriptors, and no assertion of a SubProcess fails
\* (UnixSubProcess.cpp:59, 70, 142, dorun, SubProcess.cpp:301).
ChildrenConnected ==
    /\ Sub!TypeOK /\ Sub!Connected /\ Sub!OtherEndsDropped
    /\ Sub!NobodyElseIsHit /\ Sub!CommandsOwn /\ Sub!NoAssertFails

\* xwrite () and its like return although calls are cut short and refused, and
\* wait () returns once the child has ended (IOOutput.cpp:183, UnixSubProcess.cpp
\* wait).
CallsEnd == WritingEnds /\ Sub!WaitEnds
=============================================================================
