-------------------------- MODULE MCIOSelectMethods --------------------------
(***************************************************************************)
(* The selection methods other than select (), each by itself: poll (),    *)
(* kqueue () and the signal-driven method, with descriptors of their own.  *)
(***************************************************************************)
EXTENDS Integers, FiniteSets

CONSTANTS
    PollFds, PollKinds, KqueueFds, KqueueKinds, SigFds, SigKinds,
    SizeMax, MaxChanges, MaxQueue

\* A program has no more descriptors than a vector has room for pollfds.
ASSUME MethodsAssumption ==
    /\ PollFds \cup KqueueFds \cup SigFds \subseteq Nat
    /\ IsFiniteSet(PollFds) /\ IsFiniteSet(KqueueFds) /\ IsFiniteSet(SigFds)
    /\ SizeMax \in Nat /\ Cardinality(PollFds) <= SizeMax
    /\ IsFiniteSet(KqueueKinds) /\ "none" \notin KqueueKinds
    /\ MaxQueue \in Nat

VARIABLES
    method,
    requests, fd2req, fds,                                      \* of IOSelectFdMap
    polls, current, nready, walk, event,                        \* of IOSelectPoll
    changes, unread, kernel, open, reported, lost,              \* of IOSelectKqueue
    table, fallback, position, revents, async, queue, sigio, level      \* of IOSelectSig

Poll == INSTANCE IOSelectPoll WITH Fds <- PollFds, Channels <- PollFds, Kinds <- PollKinds
Kqueue == INSTANCE IOSelectKqueue WITH
    Fds <- KqueueFds, Channels <- KqueueFds, Kinds <- KqueueKinds, Settled <- TRUE
Sig == INSTANCE IOSelectSig WITH Fds <- SigFds, Kinds <- SigKinds, Scribbles <- TRUE

mapOf == <<requests, fd2req, fds>>
pollOnly == <<polls, current, nready>>
kqueueOnly == <<changes, unread, kernel, open, reported, lost>>
sigOnly == <<table, fallback, position, revents, async, queue, sigio, level>>

MCInit ==
    /\ Sig!Init
    /\ \/ /\ method \in {"poll", "sig"} /\ Poll!Init
          /\ changes = <<>> /\ unread = <<>> /\ kernel = {} /\ open = {} /\ reported = {} /\ lost = FALSE
       \/ method = "kqueue" /\ Kqueue!Init /\ polls = <<>> /\ current = 0 /\ nready = -1

MCNext ==
    \/ method = "poll" /\ Poll!Next /\ UNCHANGED <<method, kqueueOnly, sigOnly>>
    \/ method = "kqueue" /\ Kqueue!Next /\ UNCHANGED <<method, pollOnly, sigOnly>>
    \/ method = "sig" /\ Sig!Next /\ UNCHANGED <<method, fd2req, fds, pollOnly, kqueueOnly>>

MCvars == <<method, mapOf, pollOnly, walk, event, kqueueOnly, sigOnly>>
MCSpec == MCInit /\ [][MCNext]_MCvars

\* The thread that asks the fallback goes on.
Polling == method = "sig" /\ (Sig!FallbackNone \/ Sig!FallbackFound) /\ UNCHANGED <<method, fd2req, fds, pollOnly, kqueueOnly>>
FairSpec == MCSpec /\ WF_MCvars(Polling)

-----------------------------------------------------------------------------
\* The vector given to poll () stays parallel to the requests, these inverse to
\* the table of descriptors, and the variables keep their types; m_current in
\* particular stays a size_t.  The changes queued for kevent () bring the kernel
\* to the masks, however many fail or are interrupted (IOSelectPoll.cpp:72, attach,
\* detach, setMask, IOSelectFdMap.cpp, IOSelectKqueue.cpp:204).
MethodsFollowMasks ==
    /\ method = "poll" => Poll!TypeOK /\ Poll!MapInv /\ Poll!PollsInv
    /\ method = "kqueue" => Kqueue!TypeOK /\ Kqueue!MasksArrive

\* A walk over the results of kevent () leaves nothing out
\* (IOSelectKqueue.cpp next).
ResultsHandedOut == Kqueue!NothingLost

\* The ready list inside the table of the signal-driven method goes round through
\* exactly what is on it, and what is ready and wanted is on the list or announced,
\* whenever wait () has returned (IOSelectSig.cpp addReady, delReady,
\* IOSelectSig.h:28).
SignalsSuffice == method = "sig" => Sig!ListWhole /\ Sig!NothingMissed

\* It returns also after the queue of signals overflowed, with something attached:
\* "Setting msecs to zero specifies that the channels are probed without waiting"
\* (IOSelectSig.cpp:306).
WaitReturns == (method = "sig" /\ walk = "polling" /\ requests # <<>>) ~> walk # "polling"
=============================================================================
