----------------------------- MODULE IOSelectSig -----------------------------
(***************************************************************************)
(* IOSelectSig: descriptors announce by a real-time signal that something  *)
(* became ready, and wait () takes the signals and keeps what is ready in  *)
(* a circular list inside the table of descriptors.  When the queue of     *)
(* signals overflows, all of them are thrown away and an IOSelectPoll that *)
(* follows the same descriptors is asked: its wait () and next () are      *)
(* steps of their own here.                                                *)
(*                                                                         *)
(* The client attaches what is detached and, handed an event, deals with   *)
(* all there is before it returns.  The signal number was set.             *)
(***************************************************************************)
EXTENDS Integers, Sequences, SequencesExt, FiniteSets

CONSTANTS
    Fds, Kinds,
    SizeMax,        \* the largest size_t
    MaxQueue,       \* room for signals in the kernel
    Scribbles       \* TRUE: Signal::wait () without a signal returns whatever
                    \* its uninitialised result held

VARIABLES
    requests,       \* IOSelectMethod::m_requests, less the client's part
    table,          \* m_fds, m_readylist, m_nready and whether an ASSERT failed
    fallback,       \* the descriptors in the vector of m_fallback,
    position,       \* its m_current
    revents,        \* and what poll () wrote there, until it is dealt with
    async,          \* descriptors with O_ASYNC
    queue, sigio,   \* signals to be taken; SIGIO, which says there were more
    level,          \* what is ready, and was not dealt with
    walk,           \* "idle", "polling" while the fallback is asked, "next",
                    \* "handler" or "failed"
    event           \* what is handled

polled == <<position, revents>>
Quiet == [fd \in Fds |-> {}]

UNUSED == -2
UNLINKED == -1
NoEvent == [source |-> -1, events |-> {}]
Unused == [m_next |-> UNUSED, m_prev |-> UNUSED, m_mask |-> {}, m_ready |-> {}, m_index |-> 0]
NewTable == [fds |-> [fd \in Fds |-> Unused], readylist |-> UNLINKED, nready |-> 0, failed |-> FALSE]

Init ==
    /\ requests = <<>> /\ table = NewTable /\ fallback = <<>> /\ async = {}
    /\ queue = <<>> /\ sigio = FALSE /\ level = Quiet
    /\ walk = "idle" /\ event = NoEvent /\ position = 0 /\ revents = Quiet

Running == walk \in {"idle", "handler"}
Linked(t, fd) == t.fds[fd].m_next >= 0
Checked(t, asserted, new) == IF asserted THEN new ELSE [t EXCEPT !.failed = TRUE]

addReady(t, fd) ==
    LET first == t.readylist last == t.fds[first].m_prev
    IN  Checked(t, t.fds[fd].m_next < 0 /\ t.fds[fd].m_prev < 0 /\ (t.nready = 0) = (first < 0),
          IF t.nready = 0
          THEN [t EXCEPT !.nready = 1, !.readylist = fd, !.fds[fd].m_next = fd, !.fds[fd].m_prev = fd]
          ELSE [t EXCEPT !.nready = @ + 1, !.fds[fd].m_prev = last, !.fds[fd].m_next = first,
                         !.fds[last].m_next = fd, !.fds[first].m_prev = fd])

delReady(t, fd) ==
    LET next == t.fds[fd].m_next prev == t.fds[fd].m_prev
        unlinked == IF t.nready = 1 THEN [t EXCEPT !.readylist = UNLINKED]
                    ELSE [t EXCEPT !.readylist = IF @ = fd THEN next ELSE @,
                                   !.fds[prev].m_next = next, !.fds[next].m_prev = prev]
    IN  Checked(t, t.nready > 0 /\ next >= 0 /\ prev >= 0 /\ (t.nready = 1 => fd = t.readylist /\ next = prev),
          [unlinked EXCEPT !.nready = @ - 1, !.fds[fd].m_next = UNLINKED, !.fds[fd].m_prev = UNLINKED])

updateReady(t, fd) ==
    LET wanted == t.fds[fd].m_ready \cap t.fds[fd].m_mask # {}
    IN  CASE Linked(t, fd) /\ ~wanted -> delReady(t, fd)
          [] ~Linked(t, fd) /\ wanted -> addReady(t, fd)
          [] OTHER -> t

\* The end of an operation: the new table, or the end of the program.
Becomes(t) == /\ table' = t
              /\ walk' = IF t.failed THEN "failed" ELSE walk

-----------------------------------------------------------------------------
\* Where the fallback has a descriptor.
FallbackAt(fd) == {i \in DOMAIN fallback : fallback[i] = fd}

\* What the fallback asserts when it is told of a new one.
PositionOK == position <= Len(fallback)
FallbackTakes(fd) == FallbackAt(fd) = {} /\ PositionOK

\* m_prev is forgotten, and fd is put on the list whether it is ready or not.
Attach(fd, mask) ==
    /\ Running /\ table.fds[fd].m_next = UNUSED
    /\ \E ready \in SUBSET Kinds : level' = [level EXCEPT ![fd] = @ \cup ready]
    /\ LET item == [Unused EXCEPT !.m_next = UNLINKED, !.m_mask = mask, !.m_ready = level'[fd], !.m_index = Len(requests) + 1]
           t == addReady([table EXCEPT !.fds[fd] = item], fd)
       IN  Becomes([t EXCEPT !.failed = @ \/ ~FallbackTakes(fd)])
    /\ fallback' = Append(fallback, fd) /\ async' = async \cup {fd}
    /\ requests' = Append(requests, [fd |-> fd, mask |-> mask])
    /\ UNCHANGED <<polled, queue, sigio, event>>

\* poll () fails: the signals are on and nothing is recorded.
AttachThrows(fd) ==
    /\ Running /\ table.fds[fd].m_next = UNUSED /\ async' = async \cup {fd}
    /\ UNCHANGED <<requests, table, fallback, polled, queue, sigio, level, walk, event>>

RequestIs(fd) == table.fds[fd].m_index \in DOMAIN requests /\ requests[table.fds[fd].m_index].fd = fd

\* The fallback lets one go: its table of descriptors never shrinks and is
\* asserted to be empty with the vector; --m_current wraps around below zero.
FallbackLets(fd) == FallbackAt(fd) # {} /\ PositionOK /\ Len(fallback) > 1
Decremented(n) == (n + SizeMax) % (SizeMax + 1)

\* The indices of the other descriptors stay as they were.
Detach(fd) ==
    /\ Running /\ table.fds[fd].m_next # UNUSED
    /\ LET t == IF Linked(table, fd) THEN delReady(table, fd) ELSE table
       IN  Becomes([t EXCEPT !.fds[fd] = Unused, !.failed = @ \/ ~RequestIs(fd) \/ ~FallbackLets(fd)])
    /\ IF FallbackLets(fd)
       THEN \E i \in FallbackAt(fd) :
                /\ fallback' = RemoveAt(fallback, i)
                /\ position' = IF position >= i - 1 THEN Decremented(position) ELSE position
       ELSE UNCHANGED <<fallback, position>>
    /\ async' = async \ {fd}
    /\ requests' = IF RequestIs(fd) THEN RemoveAt(requests, table.fds[fd].m_index) ELSE requests
    /\ level' = [level EXCEPT ![fd] = {}]
    /\ UNCHANGED <<revents, queue, sigio, event>>

\* Neither the fallback nor the kernel is told.
Clear ==
    /\ Running /\ table' = NewTable /\ requests' = <<>>
    /\ UNCHANGED <<fallback, polled, async, queue, sigio, level, walk, event>>

SetMask(fd, value) ==
    /\ Running /\ table.fds[fd].m_next # UNUSED
    /\ IF RequestIs(fd)
       THEN /\ requests' = [requests EXCEPT ![table.fds[fd].m_index].mask = value]
            /\ Becomes(updateReady([table EXCEPT !.fds[fd].m_mask = value], fd))
       ELSE Becomes([table EXCEPT !.failed = TRUE]) /\ UNCHANGED requests
    /\ UNCHANGED <<fallback, polled, async, queue, sigio, level, event>>

MaskOf(fd) == requests[table.fds[fd].m_index].mask
AndMask(fd, value) == table.fds[fd].m_index \in DOMAIN requests /\ SetMask(fd, MaskOf(fd) \cap value)
OrMask(fd, value) == table.fds[fd].m_index \in DOMAIN requests /\ SetMask(fd, MaskOf(fd) \cup value)

-----------------------------------------------------------------------------
\* A mutant of Announced: news about a descriptor on the list is not kept.
AnnouncedOnce(t, signal) ==
    IF t.fds[signal.fd].m_next = UNUSED \/ Linked(t, signal.fd) THEN t
    ELSE updateReady([t EXCEPT !.fds[signal.fd].m_ready = @ \cup signal.band], signal.fd)

\* One signal; those of descriptors detached since are passed over.
Announced(t, signal) ==
    IF t.fds[signal.fd].m_next = UNUSED THEN t
    ELSE updateReady([t EXCEPT !.fds[signal.fd].m_ready = @ \cup signal.band], signal.fd)

\* What the fallback reports replaces what is known, unless it is the same.
Polled(t, fd, events) ==
    IF t.fds[fd].m_next = UNUSED \/ t.fds[fd].m_ready = events THEN t
    ELSE updateReady([t EXCEPT !.fds[fd].m_ready = events], fd)

Walks(t) == IF t.failed THEN "failed" ELSE IF t.nready > 0 THEN "next" ELSE "idle"

\* wait () takes the queued signals.  The wait that finds no signal ends the
\* loop, unless it returns something else.
TakenTo[n \in 0..Len(queue)] == IF n = 0 THEN table ELSE Announced(TakenTo[n - 1], queue[n])
Taken == TakenTo[Len(queue)]
Wait ==
    /\ walk = "idle" /\ ~sigio /\ queue' = <<>>
    /\ table' = Taken /\ walk' = Walks(table')
    /\ UNCHANGED <<requests, fallback, polled, async, sigio, level, event>>

WaitScribbled ==
    /\ walk = "idle" /\ Scribbles /\ ~sigio /\ queue' = <<>> /\ table' = [Taken EXCEPT !.failed = TRUE] /\ walk' = "failed"
    /\ UNCHANGED <<requests, fallback, polled, async, sigio, level, event>>

\* SIGIO may come before queued signals or after them.  It has the rest thrown
\* away, and m_fallback->wait (0) sees all there is.
WaitOverflown ==
    /\ walk = "idle" /\ sigio /\ sigio' = FALSE /\ queue' = <<>>
    /\ \E n \in 0..Len(queue) : table' = TakenTo[n]
    /\ position' = Len(fallback) /\ revents' = level
    /\ walk' = IF table'.failed THEN "failed" ELSE "polling"
    /\ UNCHANGED <<requests, fallback, async, level, event>>

\* The loop over m_fallback->next (): over, if nothing is ready.
Shown(i) == revents[fallback[i]]
FallbackNone ==
    /\ walk = "polling" /\ \A i \in DOMAIN fallback : Shown(i) = {}
    /\ walk' = Walks(table) /\ revents' = Quiet
    /\ UNCHANGED <<requests, table, fallback, position, async, queue, sigio, level, event>>

\* Otherwise IOSelectPoll::next () finds the last that is ready, and stays there.
\* It answers with the one behind it in the vector; at the end of the vector that
\* is none, and an ASSERT fails.
FallbackFound ==
    /\ walk = "polling"
    /\ \E last \in DOMAIN fallback :
           /\ last <= position /\ Shown(last) # {}
           /\ \A i \in last + 1..position : Shown(i) = {}
           /\ position' = last
           /\ IF last = Len(fallback) THEN Becomes([table EXCEPT !.failed = TRUE])
              ELSE Becomes(Polled(table, fallback[last + 1], Shown(last)))
    /\ UNCHANGED <<requests, fallback, revents, async, queue, sigio, level, event>>

\* The first of the list, which is taken off.
NextFound ==
    /\ walk = "next" /\ table.nready > 0
    /\ LET fd == table.readylist
           t == delReady(table, fd)
       IN  IF RequestIs(fd)
           THEN /\ event' = [source |-> fd, events |-> MaskOf(fd) \cap table.fds[fd].m_ready]
                /\ table' = t /\ walk' = IF t.failed THEN "failed" ELSE "handler"
           ELSE table' = [table EXCEPT !.failed = TRUE] /\ walk' = "failed" /\ UNCHANGED event
    /\ UNCHANGED <<requests, fallback, polled, async, queue, sigio, level>>

NextNone ==
    /\ walk = "next" /\ table.nready = 0 /\ walk' = "idle"
    /\ UNCHANGED <<requests, table, fallback, polled, async, queue, sigio, level, event>>

HandlerReturns ==
    /\ walk = "handler" /\ walk' = "next" /\ event' = NoEvent
    /\ level' = [level EXCEPT ![event.source] = @ \ event.events]
    /\ UNCHANGED <<requests, table, fallback, polled, async, queue, sigio>>

\* Something becomes ready; the kernel signals it if it can.  What happens to
\* a descriptor that is not attached shows when it is.
Arrive(fd, kinds) ==
    /\ walk # "failed" /\ fd \in async /\ kinds # {} /\ level' = [level EXCEPT ![fd] = @ \cup kinds]
    /\ ~(kinds \subseteq level[fd])
    /\ IF Len(queue) < MaxQueue THEN queue' = Append(queue, [fd |-> fd, band |-> kinds]) /\ UNCHANGED sigio
       ELSE sigio' = TRUE /\ UNCHANGED queue
    /\ UNCHANGED <<requests, table, fallback, polled, async, walk, event>>

Next ==
    \/ \E fd \in Fds : Detach(fd) \/ AttachThrows(fd)
    \/ \E fd \in Fds, mask \in SUBSET Kinds :
           Attach(fd, mask) \/ SetMask(fd, mask) \/ AndMask(fd, mask) \/ OrMask(fd, mask) \/ Arrive(fd, mask)
    \/ Clear \/ Wait \/ WaitScribbled \/ WaitOverflown \/ FallbackNone \/ FallbackFound \/ NextFound \/ NextNone \/ HandlerReturns

-----------------------------------------------------------------------------
(* The list goes round through exactly the descriptors that are on it, one *)
(* way and back, and m_nready counts them, whatever attach, detach, masks  *)
(* and signals do to its ends (IOSelectSig.cpp addReady, delReady).        *)
ListWhole ==
    LET linked == {fd \in Fds : Linked(table, fd)}
    IN  ~table.failed =>
        /\ Cardinality(linked) = table.nready /\ (table.nready = 0) = (table.readylist = UNLINKED)
        /\ \A fd \in linked : /\ table.fds[table.fds[fd].m_next].m_prev = fd
                              /\ table.fds[table.fds[fd].m_prev].m_next = fd
        /\ \A some \in SUBSET linked :
               table.readylist \in some /\ (\A fd \in some : table.fds[fd].m_next \in some) => some = linked
        /\ linked # {} => table.readylist \in linked

(* What is ready and wanted is on the list, or a signal says so, or SIGIO  *)
(* does: "It will of course return all ready descriptors"                  *)
(* (IOSelectSig.h:28).  While it is handled a descriptor is told.  Nothing *)
(* is said while the fallback is asked, about signals already taken.       *)
NothingMissed ==
    walk \notin {"failed", "polling"} =>
        \A fd \in Fds, kind \in Kinds :
            table.fds[fd].m_next # UNUSED /\ kind \in level[fd] \cap table.fds[fd].m_mask /\ fd # event.source =>
                \/ Linked(table, fd) /\ kind \in table.fds[fd].m_ready
                \/ \E i \in DOMAIN queue : queue[i].fd = fd /\ kind \in queue[i].band
                \/ sigio
=============================================================================
