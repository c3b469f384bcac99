----------------------------- MODULE IOSelector -----------------------------
(***************************************************************************)
(* IOSelector over its default method (IOSelectSelect), driven by a client *)
(* that opens and closes channels, attaches and detaches them and changes  *)
(* their masks, at any point where client code runs: between calls, and in *)
(* the callbacks of dispatch () and pump ().                               *)
(*                                                                         *)
(* pc says who runs: the client, the loop of dispatch () or pump () that   *)
(* asks for the next event or detaches the source of the last one, the     *)
(* handler of an event, or nobody because an ASSERT failed and the program *)
(* stopped.                                                                *)
(*                                                                         *)
(* Rules is the set of rules the client keeps.  With Rules = {} it makes   *)
(* every call the interface allows.  The rules are what this method needs: *)
(*   "once"     a channel is attached only while detached, and detached or *)
(*              masked only while attached;                                *)
(*   "open"     a channel is detached before it is closed;                 *)
(*   "nonempty" no registration has an empty mask;                         *)
(*   "settled"  no channel is detached while an event reported for it by   *)
(*              the last wait () is still to be delivered;                 *)
(*   "small"    descriptors stay below FD_SETSIZE.                         *)
(* A handler never calls back into wait (), nextReady (), dispatch () or   *)
(* pump () of the same selector.                                           *)
(***************************************************************************)
EXTENDS IOSelectSelect

CONSTANTS
    Rules,
    MaxCurrent      \* bound: nextReady () is not repeated beyond this limit

AllRules == {"once", "open", "nonempty", "settled", "small"}

ASSUME RulesAssumption == Rules \subseteq AllRules
ASSUME MaxCurrentAssumption == MaxCurrent \in Nat

VARIABLES
    chan,       \* the descriptor of each channel, or Invalid
    pc,         \* "client", "loop", "detach", "handler" or "failed"
    mode,       \* the call that is iterating: "manual", "dispatch", "pump"
    event,      \* IOSelectEvent: the last one nextReady () filled in
    reported    \* history: what the last wait () found a channel ready for,
                \* until the channel's event is handed out or it is closed

clientVars == <<chan, pc, mode, event, reported>>
vars == <<mapVars, selectVars, clientVars>>

Invalid == -1
NoEvent == [source |-> "none", events |-> {}]
Nothing == [c \in Channels |-> {}]

TypeOK ==
    /\ MapTypeOK
    /\ SelectTypeOK
    /\ chan \in [Channels -> Fds \cup {Invalid}]
    /\ pc \in {"client", "loop", "detach", "handler", "failed"}
    /\ mode \in {"manual", "dispatch", "pump"}
    /\ event \in [source : Channels, events : SUBSET Kinds] \cup {NoEvent}
    /\ reported \in [Channels -> SUBSET Kinds]

Init ==
    /\ SelectInit
    /\ chan = [c \in Channels |-> Invalid]
    /\ pc = "client"
    /\ mode = "manual"
    /\ event = NoEvent
    /\ reported = Nothing

-----------------------------------------------------------------------------
Keeps(rule) == rule \in Rules

Attached(c) == \E i \in DOMAIN requests : requests[i].channel = c
IsOpen(c) == chan[c] # Invalid

\* Client code runs between the calls and inside a handler.
ClientRuns == pc \in {"client", "handler"}

\* DebugAids::failed: the program stops where it is.
Abort ==
    /\ pc' = "failed"
    /\ UNCHANGED <<mapVars, selectVars, chan, mode, event, reported>>

-----------------------------------------------------------------------------
(* The channels, as the kernel hands out their descriptors.                *)

Open(c) ==
    /\ ClientRuns
    /\ ~IsOpen(c)
    /\ \E fd \in Fds :
           /\ \A d \in Channels : chan[d] # fd
           /\ Keeps("small") => fd < FdSetSize
           /\ chan' = [chan EXCEPT ![c] = fd]
    /\ UNCHANGED <<mapVars, selectVars, pc, mode, event, reported>>

Close(c) ==
    /\ ClientRuns
    /\ IsOpen(c)
    /\ Keeps("open") => ~Attached(c)
    /\ chan' = [chan EXCEPT ![c] = Invalid]
    /\ reported' = [reported EXCEPT ![c] = {}]
    /\ UNCHANGED <<mapVars, selectVars, pc, mode, event>>

-----------------------------------------------------------------------------
(* The calls that change what is registered.                               *)

AttachAsserts(c) == IsOpen(c) /\ SelectAttachAsserts(chan[c])

Attach(c, mask) ==
    /\ ClientRuns
    /\ Keeps("once") => IsOpen(c) /\ ~Attached(c)
    /\ Keeps("nonempty") => mask # {}
    /\ \/ /\ AttachAsserts(c)
          /\ SelectAttach([fd |-> chan[c], channel |-> c, mask |-> mask])
          /\ UNCHANGED clientVars
       \/ ~AttachAsserts(c) /\ Abort

\* IOSelector::detach goes no further for a closed channel.
DetachAsserts(c) == IsOpen(c) => SelectDetachAsserts(chan[c], c)

DetachEffect(c) ==
    IF IsOpen(c) THEN SelectDetach(chan[c])
                 ELSE UNCHANGED <<mapVars, selectVars>>

MayDetach(c) ==
    /\ Keeps("once") => Attached(c)
    /\ Keeps("settled") => reported[c] = {}

Detach(c) ==
    /\ ClientRuns
    /\ MayDetach(c)
    /\ \/ /\ DetachAsserts(c)
          /\ DetachEffect(c)
          /\ UNCHANGED clientVars
       \/ ~DetachAsserts(c) /\ Abort

MaskAsserts(c) == IsOpen(c) /\ SelectMaskAsserts(chan[c])

SetMaskTo(c, mask) ==
    /\ Keeps("nonempty") => mask # {}
    /\ SelectSetMask(chan[c], mask)
    /\ UNCHANGED clientVars

SetMask(c, value) ==
    /\ ClientRuns
    /\ Keeps("once") => Attached(c)
    /\ \/ MaskAsserts(c) /\ SetMaskTo(c, value)
       \/ ~MaskAsserts(c) /\ Abort

\* andMask and orMask look the request up, then call setMask.
MaskOf(c) == requests[fd2req[chan[c]]].mask

AndMask(c, value) ==
    /\ ClientRuns
    /\ Keeps("once") => Attached(c)
    /\ \/ MaskAsserts(c) /\ SetMaskTo(c, MaskOf(c) \cap value)
       \/ ~MaskAsserts(c) /\ Abort

OrMask(c, value) ==
    /\ ClientRuns
    /\ Keeps("once") => Attached(c)
    /\ \/ MaskAsserts(c) /\ SetMaskTo(c, MaskOf(c) \cup value)
       \/ ~MaskAsserts(c) /\ Abort

Clear ==
    /\ ClientRuns
    /\ SelectClear
    /\ reported' = Nothing
    /\ UNCHANGED <<chan, pc, mode, event>>

-----------------------------------------------------------------------------
(* wait (), called by the client itself or by dispatch () and pump ().     *)

Wanted == {fd \in Fds : \E k \in Kinds : fd \in want[k]}
OpenFds == {chan[c] : c \in Channels} \ {Invalid}

\* What select () may report: some of what is wanted (nothing after a
\* timeout).  It accepts no closed descriptor (EBADF).
Ready(ready) ==
    /\ Wanted \subseteq OpenFds
    /\ \A k \in Kinds : ready[k] \subseteq want[k]

WaitReturns(ready) ==
    /\ Ready(ready)
    /\ SelectWaitReturns(ready)
    /\ reported' = [c \in Channels |-> {k \in Kinds : chan[c] \in ready[k]}]
    /\ UNCHANGED <<mapVars, chan, event>>

Wait ==
    /\ pc = "client"
    /\ \E ready \in [Kinds -> SUBSET Fds] : WaitReturns(ready)
    /\ mode' = "manual"
    /\ UNCHANGED pc

\* dispatch () and pump () return at once without requests and after a
\* wait that found nothing.
Start(m) ==
    /\ pc = "client"
    /\ requests # <<>>
    /\ \E ready \in [Kinds -> SUBSET Fds] :
           /\ WaitReturns(ready)
           /\ pc' = IF nready' > 0 THEN "loop" ELSE "client"
    /\ mode' = m

\* The IOError of select () leaves wait (), dispatch () and pump () alike.
WaitThrows ==
    /\ pc = "client"
    /\ SelectWaitThrows
    /\ mode' = "manual"
    /\ reported' = Nothing
    /\ UNCHANGED <<mapVars, chan, pc, event>>

-----------------------------------------------------------------------------
(* nextReady () and what the loops do around it.                           *)

Iterates == pc = "loop" \/ (pc = "client" /\ mode = "manual")

EventOf(fd) ==
    LET req == requests[fd2req[fd]]
    IN  [source |-> req.channel, events |-> req.mask \cap Events(fd)]

\* nextReady () returns true.  The client or dispatch () handles the event,
\* pump () first detaches its source.
NextReadyFound(fd) ==
    /\ Iterates
    /\ NextStopsAt(fd)
    /\ \/ /\ SelectNextAsserts(fd)
          /\ SelectNextFound(fd)
          /\ event' = EventOf(fd)
          /\ reported' = [reported EXCEPT ![EventOf(fd).source] = {}]
          /\ pc' = IF mode = "pump" THEN "detach" ELSE "handler"
          /\ UNCHANGED <<mapVars, chan, mode>>
       \/ ~SelectNextAsserts(fd) /\ Abort

\* nextReady () returns false: the loops end.
NextReadyNone ==
    /\ Iterates
    /\ NextFindsNone
    /\ pc = "client" => current < MaxCurrent
    /\ SelectNextNone
    /\ pc' = "client"
    /\ UNCHANGED <<mapVars, chan, mode, event, reported>>

\* The handler returns.  dispatch () detaches the source if it returned
\* true; pump () ignores the value.
Return(value) ==
    /\ pc = "handler"
    /\ mode = "dispatch" /\ value => MayDetach(event.source)
    /\ pc' = CASE mode = "manual" -> "client"
               [] mode = "dispatch" /\ value -> "detach"
               [] OTHER -> "loop"
    /\ UNCHANGED <<mapVars, selectVars, chan, mode, event, reported>>

\* detach (event.source), in dispatch () after the handler and in pump ()
\* before it.
DetachSource ==
    /\ pc = "detach"
    /\ \/ /\ DetachAsserts(event.source)
          /\ DetachEffect(event.source)
          /\ pc' = IF mode = "pump" THEN "handler" ELSE "loop"
          /\ UNCHANGED <<chan, mode, event, reported>>
       \/ ~DetachAsserts(event.source) /\ Abort

-----------------------------------------------------------------------------
ClientStep ==
    \/ \E c \in Channels : Open(c) \/ Close(c) \/ Detach(c)
    \/ \E c \in Channels, mask \in SUBSET Kinds :
           Attach(c, mask) \/ SetMask(c, mask) \/ AndMask(c, mask) \/ OrMask(c, mask)
    \/ Clear
    \/ Wait
    \/ WaitThrows
    \/ Start("dispatch")
    \/ Start("pump")

LoopStep ==
    \/ \E fd \in Fds : NextReadyFound(fd)
    \/ NextReadyNone
    \/ DetachSource

HandlerReturns == \E value \in BOOLEAN : Return(value)

Next == ClientStep \/ LoopStep \/ HandlerReturns

Spec == Init /\ [][Next]_vars

\* The loops run in the thread that called them, and every handler returns.
Fairness ==
    /\ WF_vars(pc \in {"loop", "detach"} /\ LoopStep)
    /\ WF_vars(HandlerReturns)

FairSpec == Spec /\ Fairness

-----------------------------------------------------------------------------
(* The interest sets handed to select () are the masks of the requests:    *)
(* attach, detach and setMask each update the two separately.              *)
WantInv ==
    \A fd \in Fds, k \in Kinds :
        fd \in want[k] <=> Registered(fd) /\ k \in requests[fd2req[fd]].mask

(* The limit handed to select () covers every descriptor of interest, or   *)
(* its channel would never be reported.                                    *)
LimitInv == \A k \in Kinds : \A fd \in want[k] : fd <= maxfd

(* What IOSelectFdMap, the interest sets and the limit each say of the     *)
(* registered descriptors is the same, whatever the client does.           *)
TablesAgree == MapInv /\ WantInv /\ LimitInv

(* A handler runs for a channel, and the channel dispatch () or pump () is *)
(* about to detach is one that a client keeping the rules may detach.      *)
SourceInv ==
    /\ pc \in {"handler", "detach"} => event.source \in Channels
    /\ pc = "detach" => MayDetach(event.source)

Source(fd) == requests[fd2req[fd]].channel

(* With the rules kept, a registration never outlives the descriptor it    *)
(* was made for, and no two channels share one.                            *)
ChannelInv ==
    /\ \A fd \in Fds : Registered(fd) =>
           /\ chan[Source(fd)] = fd
           /\ requests[fd2req[fd]].mask # {}
    /\ \A c, d \in Channels : IsOpen(c) /\ chan[c] = chan[d] => c = d
    /\ \A c \in Channels : chan[c] < FdSetSize

\* The bits of the status sets that the walk of next () has not passed.
Left == {b \in Bits(status) : b[2] > current}

(* With the rules kept, m_nready counts the status bits that next () has   *)
(* not passed, and each of these is what was reported to the channel that  *)
(* is attached on that descriptor now: none belongs to a channel that has  *)
(* been detached or closed since, and none is missing.                     *)
ReadyInv ==
    /\ nready >= 1 =>
           /\ nready = Cardinality(Left)
           /\ \A b \in Left : Registered(b[2]) /\ b[1] \in reported[Source(b[2])]
    /\ \A c \in Channels : \A k \in reported[c] :
           nready >= 1 /\ Attached(c) /\ <<k, chan[c]>> \in Left

(* No ASSERT of the selector fails, whatever the client attaches, detaches *)
(* and masks, in handlers too, as long as it keeps the rules.              *)
NoAssertFails == pc # "failed"

HandsOut == Iterates /\ pc' \in {"handler", "detach"}

(* An event handed out names only I/O that the last wait () reported for   *)
(* that very channel and that was not handed out before: nothing spurious, *)
(* nothing twice, and nothing left over from another use of a descriptor.  *)
NothingSpurious ==
    [][HandsOut => event'.events \subseteq reported[event'.source]]_vars

(* The loop of dispatch () and pump () ends only after every channel that  *)
(* wait () reported, and that is still attached, had its event.            *)
NothingLost ==
    [][pc = "loop" /\ pc' = "client" => reported' = Nothing]_vars

(* dispatch () and pump () return.                                         *)
LoopsEnd == pc \in {"loop", "handler", "detach"} ~> pc \in {"client", "failed"}

(* A channel whose handler made dispatch () remove it is not registered    *)
(* afterwards ("If the client callback returns true, it is removed from    *)
(* the selector").                                                         *)
ReturnTrueRemoves ==
    [][pc = "detach" /\ pc' = "loop" => ~Attached(event.source)']_vars

(* wait, dispatch () and pump () deliver what was reported: nothing else,  *)
(* nothing twice, all of it, and to a channel only as long as its handler  *)
(* did not answer true.                                                    *)
EventsDelivered == NothingSpurious /\ NothingLost /\ ReturnTrueRemoves

-----------------------------------------------------------------------------
(* The refinement: what is still to be delivered is what the walk of       *)
(* next () has not passed, on the descriptor of an attached channel.       *)
AttachedChannels == {c \in Channels : Attached(c)}

PendingOf(c) ==
    {k \in Kinds : nready >= 1 /\ chan[c] > current /\ chan[c] \in status[k]}

Interest == [c \in Channels |-> IF Attached(c) THEN MaskOf(c) ELSE {}]
PendingReports == [c \in Channels |-> PendingOf(c)]

Promise == INSTANCE ReadyDelivery WITH
    attached <- AttachedChannels,
    interest <- Interest,
    pending <- PendingReports,
    phase <- pc

(* For a client that keeps the rules the walk over descriptors, counters   *)
(* and bit sets delivers exactly what ReadyDelivery promises.              *)
ImplementsReadyDelivery == Promise!Spec

\* Channels are interchangeable.
ChannelSymmetry == Permutations(Channels)
=============================================================================
