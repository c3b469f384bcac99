--------------------------- MODULE IOSelectKqueue ---------------------------
(***************************************************************************)
(* IOSelectKqueue, the first choice of every strategy on BSD and macOS.    *)
(* The kernel keeps the registrations; attach, detach and the masks only   *)
(* queue changes to them, which the next wait () hands over together.      *)
(*                                                                         *)
(* The client is the one of IOSelectPoll, except that it opens and closes  *)
(* descriptors too, closing only what it detached.  A channel is its       *)
(* descriptor.  IOAccept shares a filter with IORead and IOConnect with    *)
(* IOWrite: each pair is one kind.                                         *)
(*                                                                         *)
(* If Settled, the client also attaches nothing while results are still to *)
(* be read.                                                                *)
(***************************************************************************)
EXTENDS IOSelectFdMap, FiniteSets

CONSTANTS
    Settled,
    MaxChanges      \* bound: no change is queued beyond this many

VARIABLES
    changes,    \* m_changes
    unread,     \* m_results from m_current up to m_nready: a function from
                \* (one-based) slots to results
    kernel,     \* the descriptors and filters registered with the kernel
    open,       \* the descriptors that are open
    walk,       \* "idle", "next", "handler" or "failed", as in IOSelectPoll
    event,      \* the event being handled
    reported,   \* history: what the last wait () found ready, until handed
                \* out or detached
    lost        \* history: kevent () dropped changes, or clear () forgot
                \* what the kernel had registered

kqueueVars == <<changes, unread>>
externalVars == <<kernel, open, reported, lost>>
vars == <<mapVars, kqueueVars, externalVars, walk, event>>

Change == [ident : Fds, filter : Kinds, add : BOOLEAN]
Result == [ident : Fds \cup {0}, filter : Kinds \cup {"none"}]
NoEvent == [source |-> -1, events |-> {}]

NoResults == <<>>

\* What resize () fills new slots of the result array with.
Zero == [ident |-> 0, filter |-> "none"]

TypeOK ==
    /\ MapTypeOK
    /\ changes \in Seq(Change)
    /\ DOMAIN unread \subseteq Nat /\ Range(unread) \subseteq Result
    /\ kernel \subseteq open \X Kinds
    /\ open \subseteq Fds
    /\ walk \in {"idle", "next", "handler", "failed"}
    /\ event \in [source : Fds, events : SUBSET Kinds] \cup {NoEvent}
    /\ reported \subseteq Fds \X Kinds
    /\ lost \in BOOLEAN

Init ==
    /\ MapInit
    /\ changes = <<>>
    /\ unread = NoResults
    /\ kernel = {}
    /\ open = {}
    /\ walk = "idle"
    /\ event = NoEvent
    /\ reported = {}
    /\ lost = FALSE

Running == walk \in {"idle", "handler"}
Abort == walk' = "failed" /\ UNCHANGED <<mapVars, kqueueVars, externalVars, event>>

\* m_results.size (), which attach and detach change by two.
Slots == 2 * Len(requests)

Mask(fd) == requests[fd2req[fd]].mask
Of(fd) == {fd} \X Kinds

-----------------------------------------------------------------------------
Open(fd) ==
    /\ Running
    /\ fd \notin open
    /\ open' = open \cup {fd}
    /\ UNCHANGED <<mapVars, kqueueVars, kernel, walk, event, reported, lost>>

\* The kernel forgets a descriptor that is closed.
Close(fd) ==
    /\ Running
    /\ fd \in open
    /\ ~Registered(fd)
    /\ open' = open \ {fd}
    /\ kernel' = kernel \ Of(fd)
    /\ UNCHANGED <<mapVars, kqueueVars, walk, event, reported, lost>>

-----------------------------------------------------------------------------
\* One change for each kind; the order among kinds is of no consequence.
ChangesTo(fd, kinds, add) ==
    LET kind == SetToSeq(kinds)
    IN  [i \in DOMAIN kind |-> [ident |-> fd, filter |-> kind[i], add |-> add]]

\* EV_ADD in attach and doSet, EV_DELETE in detach and doClear.
Adds(fd, kinds) == ChangesTo(fd, kinds, TRUE)
Deletes(fd, kinds) == ChangesTo(fd, kinds, FALSE)

Queue(more) ==
    /\ Len(changes) + Len(more) <= MaxChanges
    /\ changes' = changes \o more

\* resize () up by two: the new slots are zeroed, results in them or not.
Grown ==
    [i \in DOMAIN unread |-> IF i \in Slots + 1 .. Slots + 2 THEN Zero ELSE unread[i]]

Attach(fd, mask) ==
    /\ Running
    /\ fd \in open
    /\ ~Registered(fd)
    /\ Settled => unread = NoResults
    /\ \/ /\ FdMapAsserts(fd)
          /\ AddRequest([fd |-> fd, channel |-> fd, mask |-> mask])
          /\ Queue(Adds(fd, mask))
          /\ unread' = Grown
          /\ UNCHANGED <<externalVars, walk, event>>
       \/ ~FdMapAsserts(fd) /\ Abort

\* resize () down leaves the results above the new end where they are, and
\* next () reads them there.
Detach(fd) ==
    /\ Running
    /\ Registered(fd)
    /\ \/ /\ RemoveReqAsserts(fd, fd)
          /\ Queue(Deletes(fd, Mask(fd)))
          /\ RemoveRequest(fd)
          /\ reported' = reported \ Of(fd)
          /\ UNCHANGED <<unread, kernel, open, lost, walk, event>>
       \/ ~RemoveReqAsserts(fd, fd) /\ Abort

Clear ==
    /\ Running
    /\ MapClear
    /\ changes' = <<>>
    /\ unread' = NoResults
    /\ reported' = {}
    /\ lost' = (kernel # {})
    /\ UNCHANGED <<kernel, open, walk, event>>

-----------------------------------------------------------------------------
\* setMask is doSet followed by doClear, which does not look at what was set.
SetMask(fd, value) ==
    /\ Running
    /\ Registered(fd)
    /\ AssignMask(fd, value)
    /\ Queue(Adds(fd, value) \o Deletes(fd, Kinds \ value))
    /\ UNCHANGED <<unread, externalVars, walk, event>>

\* doClear
AndMask(fd, value) ==
    /\ Running
    /\ Registered(fd)
    /\ AssignMask(fd, Mask(fd) \cap value)
    /\ Queue(Deletes(fd, Kinds \ value))
    /\ UNCHANGED <<unread, externalVars, walk, event>>

\* doSet
OrMask(fd, value) ==
    /\ Running
    /\ Registered(fd)
    /\ AssignMask(fd, Mask(fd) \cup value)
    /\ Queue(Adds(fd, value))
    /\ UNCHANGED <<unread, externalVars, walk, event>>

-----------------------------------------------------------------------------
(* kevent (): the changes first, in order.  One that fails, because the    *)
(* descriptor is closed or there is nothing to delete, takes a slot of the *)
(* result array; without a free slot the call fails there and then.        *)

Applies(s, c) ==
    IF c.add THEN c.ident \in open ELSE <<c.ident, c.filter>> \in s.kernel

ApplyChange(s, c) ==
    LET pair == <<c.ident, c.filter>>
        error == [ident |-> c.ident, filter |-> c.filter]
    IN  CASE s.fails -> s
          [] ~s.fails /\ Applies(s, c) ->
                 [s EXCEPT !.kernel = IF c.add THEN @ \cup {pair} ELSE @ \ {pair}]
          [] OTHER ->
                 IF Len(s.errors) < Slots THEN [s EXCEPT !.errors = Append(@, error)]
                                          ELSE [s EXCEPT !.fails = TRUE]

AppliedTo[n \in 0..Len(changes)] ==
    IF n = 0 THEN [kernel |-> kernel, errors |-> <<>>, fails |-> FALSE]
    ELSE ApplyChange(AppliedTo[n - 1], changes[n])
Applied == AppliedTo[Len(changes)]

\* In either case the queue was swapped out before the call.
Handed ==
    /\ walk = "idle"
    /\ kernel' = Applied.kernel
    /\ changes' = <<>>
    /\ UNCHANGED <<mapVars, open, event>>

\* With errors kevent () returns these alone, otherwise some of what is
\* registered, as far as there are slots, or nothing after a timeout.
Wait ==
    /\ Handed
    /\ ~Applied.fails
    /\ \/ /\ Applied.errors # <<>>
          /\ unread' = Applied.errors
          /\ reported' = {}
       \/ /\ Applied.errors = <<>>
          /\ \E ready \in SUBSET Applied.kernel :
                 /\ Cardinality(ready) <= Slots
                 /\ \E r \in SetToSeqs(ready) :
                        unread' = [i \in DOMAIN r |-> [ident |-> r[i][1], filter |-> r[i][2]]]
                 /\ reported' = {b \in ready : Registered(b[1])}
    /\ walk' = IF unread' = NoResults THEN "idle" ELSE "next"
    /\ UNCHANGED lost

\* IOError: kevent () failed on a change, or was interrupted after all of
\* them.  The client does not ask for results after that; m_nready and the
\* array, which stay as they were, are overwritten by the next wait ().
WaitThrows ==
    /\ Handed
    /\ Applied.fails \/ Applied.errors = <<>>
    /\ unread' = NoResults
    /\ reported' = {}
    /\ lost' = (lost \/ Applied.fails)
    /\ UNCHANGED walk

-----------------------------------------------------------------------------
Attached(i) == unread[i].ident \in Fds /\ fd2req[unread[i].ident] # Unused

\* A mutant of Pending: the walk ends at a result of a detached descriptor.
PendingOrNone ==
    {i \in DOMAIN unread : \A j \in DOMAIN unread : j <= i => Attached(j)}

\* The results of descriptors that have not been detached: next () skips the
\* others.
Pending == {i \in DOMAIN unread : Attached(i)}

\* The assertions on the request that is found.
NextAsserts(fd) ==
    /\ Registered(fd)
    /\ requests[fd2req[fd]].fd = fd
    /\ requests[fd2req[fd]].channel = fd

\* A result without a filter makes next () throw IOError.
NextFound ==
    /\ walk = "next"
    /\ Pending # {}
    /\ LET i == Min(Pending)
           r == unread[i]
       IN  \/ /\ NextAsserts(r.ident)
              /\ IF r.filter \in Kinds
                 THEN /\ event' = [source |-> r.ident, events |-> {r.filter}]
                      /\ reported' = reported \ {<<r.ident, r.filter>>}
                      /\ walk' = "handler"
                 ELSE walk' = "idle" /\ UNCHANGED <<event, reported>>
              /\ unread' = [j \in {k \in DOMAIN unread : k > i} |-> unread[j]]
              /\ UNCHANGED <<mapVars, changes, kernel, open, lost>>
           \/ ~NextAsserts(r.ident) /\ Abort

NextNone ==
    /\ walk = "next"
    /\ Pending = {}
    /\ unread' = NoResults
    /\ walk' = "idle"
    /\ UNCHANGED <<mapVars, changes, externalVars, event>>

HandlerReturns ==
    /\ walk = "handler"
    /\ walk' = "next"
    /\ event' = NoEvent
    /\ UNCHANGED <<mapVars, kqueueVars, externalVars>>

-----------------------------------------------------------------------------
ClientStep ==
    \/ \E fd \in Fds : Open(fd) \/ Close(fd) \/ Detach(fd)
    \/ \E fd \in Fds, mask \in SUBSET Kinds :
           Attach(fd, mask) \/ SetMask(fd, mask) \/ AndMask(fd, mask) \/ OrMask(fd, mask)
    \/ Clear

Next ==
    \/ ClientStep \/ Wait \/ WaitThrows
    \/ NextFound \/ NextNone \/ HandlerReturns

Spec == Init /\ [][Next]_vars

-----------------------------------------------------------------------------
\* What the kernel will have once it has got the queued changes.
Listening(fd, kind) ==
    LET about == {i \in DOMAIN changes : changes[i].ident = fd /\ changes[i].filter = kind}
    IN  IF about = {} THEN <<fd, kind>> \in kernel ELSE changes[Max(about)].add

(* Unless changes were lost, the queue brings the kernel to the masks of   *)
(* what is attached, and to nothing for what is not: attach, detach,       *)
(* setMask, andMask and orMask queue changes without knowing what the      *)
(* kernel or the queue has, descriptors are closed and opened again with   *)
(* changes to them still queued, and some changes fail.                    *)
MasksArrive ==
    ~lost => \A fd \in open, kind \in Kinds :
                 Listening(fd, kind) <=> Registered(fd) /\ kind \in Mask(fd)

(* A walk ends only when everything that kevent () found ready on a        *)
(* descriptor still attached was handed out.                               *)
NothingLost == [][walk = "next" /\ walk' = "idle" => reported' = {}]_vars
=============================================================================
