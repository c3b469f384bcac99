------------------------------- MODULE Socket --------------------------------
(***************************************************************************)
(* Socket with its Inet and Local variants: objects that hold the          *)
(* descriptors of stream connections, and the ends of these in the kernel. *)
(* A byte is its number among those the program gave to write () at the    *)
(* end.  Out-of-band data and datagrams are left out; EINTR, after which   *)
(* accept () is repeated, changes nothing.  The program may fork: a child  *)
(* then has all the descriptors too.                                       *)
(***************************************************************************)
EXTENDS Integers, Sequences, SequencesExt, FiniteSets, FiniteSetsExt

CONSTANTS
    Sockets,        \* the objects
    Room,           \* how many bytes the kernel holds at an end
    MaxEnds,        \* bound: ends the kernel makes in all
    MaxBytes        \* bound: bytes given to write () in all

VARIABLES
    ends,           \* the ends the kernel made
    fd,             \* object |-> the end it holds, IOFD_INVALID, or "none"
    writing,        \* object |-> the write () it is in
    child,          \* the ends a child process has too
    taken, peeked,  \* history, by end: what was read; what was seen since
    told            \* history, by end: how many bytes write () said it wrote

socketVars == <<ends, fd, writing, child, taken, peeked, told>>

IOFD_INVALID == 0
NotMade == -1
NoCall == [n |-> 0, written |-> 0]
NewEnd(state) ==
    [state |-> state, peer |-> 0, in |-> <<>>, given |-> 0, shutIn |-> FALSE, shutOut |-> FALSE,
     pending |-> <<>>, open |-> TRUE]

SocketInit ==
    /\ ends = <<>> /\ fd = [o \in Sockets |-> NotMade] /\ writing = [o \in Sockets |-> NoCall]
    /\ child = {} /\ taken = <<>> /\ peeked = <<>> /\ told = <<>>

End(o) == ends[fd[o]]
Holds(o, state) == fd[o] > 0 /\ ends[fd[o]].state = state
Still(o) == writing[o] = NoCall

\* What the kernel makes comes without a history.
Extended(more) ==
    /\ Len(ends) + Len(more) <= MaxEnds
    /\ taken' = taken \o [k \in DOMAIN more |-> <<>>]
    /\ peeked' = peeked \o [k \in DOMAIN more |-> <<>>]
    /\ told' = told \o [k \in DOMAIN more |-> 0]

-----------------------------------------------------------------------------
(* Making.  A constructor that throws has abort () called by the base's    *)
(* destructor, so that it leaves nothing behind.                           *)

\* An object without a descriptor.
Construct(o) ==
    /\ fd[o] = NotMade
    /\ fd' = [fd EXCEPT ![o] = IOFD_INVALID]
    /\ UNCHANGED <<ends, writing, child, taken, peeked, told>>

\* create (), and for the server classes bind () and listen ().  The client does
\* not create () a socket that is open.
Create(o, server) ==
    /\ fd[o] = IOFD_INVALID \/ (server /\ fd[o] = NotMade)
    /\ Extended(<<1>>)
    /\ ends' = Append(ends, NewEnd(IF server THEN "listening" ELSE "new"))
    /\ fd' = [fd EXCEPT ![o] = Len(ends')]
    /\ UNCHANGED <<writing, child>>

\* Any descriptor can be put in with fd (), one of a pipe too.
Adopt(o) ==
    /\ fd[o] = IOFD_INVALID /\ Extended(<<1>>)
    /\ ends' = Append(ends, NewEnd("pipe"))
    /\ fd' = [fd EXCEPT ![o] = Len(ends')]
    /\ UNCHANGED <<writing, child>>

\* The connection exists as soon as the kernel of the server knows it: connect ()
\* takes EINPROGRESS for success, so that it may be refused later.
Connected(es, e, l) ==
    LET s == Len(es) + 1
    IN  Append([es EXCEPT ![e].state = "connected", ![e].peer = s, ![l].pending = Append(@, s)],
               [NewEnd("connected") EXCEPT !.peer = e])

Listeners == {l \in DOMAIN ends : ends[l].state = "listening" /\ ends[l].open}

Connect(o, l) ==
    /\ Holds(o, "new") /\ l \in Listeners
    /\ \/ Extended(<<1>>) /\ ends' = Connected(ends, fd[o], l)
       \/ ends' = [ends EXCEPT ![fd[o]].state = "connecting"] /\ UNCHANGED <<taken, peeked, told>>
    /\ UNCHANGED <<fd, writing, child>>

Establish(e, l) ==
    /\ ends[e].state = "connecting" /\ ends[e].open /\ l \in Listeners
    /\ Extended(<<1>>) /\ ends' = Connected(ends, e, l)
    /\ UNCHANGED <<fd, writing, child>>

Refuse(e) ==
    /\ ends[e].state = "connecting"
    /\ ends' = [ends EXCEPT ![e].state = "new"]
    /\ UNCHANGED <<fd, writing, child, taken, peeked, told>>

\* The copy of the object is given the descriptor of the connection.
Accepted(o, s) == s

Accept(o, d) ==
    /\ Holds(o, "listening") /\ End(o).pending # <<>> /\ fd[d] = NotMade
    /\ ends' = [ends EXCEPT ![fd[o]].pending = Tail(@)]
    /\ fd' = [fd EXCEPT ![d] = Accepted(o, Head(End(o).pending))]
    /\ UNCHANGED <<writing, child, taken, peeked, told>>

-----------------------------------------------------------------------------
(* Reading and writing.                                                    *)

MayRead(o) == Holds(o, "connected") /\ End(o).open

\* recv () gives something of what there is.
Read(o, k) ==
    /\ MayRead(o) /\ k \in 1..Len(End(o).in)
    /\ taken' = [taken EXCEPT ![fd[o]] = @ \o SubSeq(End(o).in, 1, k)]
    /\ ends' = [ends EXCEPT ![fd[o]].in = SubSeq(@, k + 1, Len(@))]
    /\ peeked' = [peeked EXCEPT ![fd[o]] = SubSeq(@, k + 1, Len(@))]
    /\ UNCHANGED <<fd, writing, child, told>>

Left(in, k) == in

Peek(o, k) ==
    /\ MayRead(o) /\ k \in 1..Len(End(o).in)
    /\ peeked' = [peeked EXCEPT ![fd[o]] = SubSeq(End(o).in, 1, k)]
    /\ ends' = [ends EXCEPT ![fd[o]].in = Left(@, k)]
    /\ UNCHANGED <<fd, writing, child, taken, told>>

StartWrite(o, n) ==
    /\ fd[o] > 0 /\ End(o).state # "pipe" /\ Still(o) /\ n > 0 /\ n + ReduceSet(LAMBDA e, b : b + ends[e].given, DOMAIN ends, 0) <= MaxBytes
    /\ writing' = [writing EXCEPT ![o] = [n |-> n, written |-> 0]]
    /\ ends' = [ends EXCEPT ![fd[o]].given = @ + n]
    /\ UNCHANGED <<fd, child, taken, peeked, told>>

\* The bytes before the one the next send () begins with.
Start(o) == End(o).given - writing[o].n + writing[o].written

Sendable(o) ==
    End(o).state = "connected" /\ ~End(o).shutOut
    /\ ends[End(o).peer].open /\ ~ends[End(o).peer].shutIn

\* write () returns; the client goes on behind what was written.
Wrote(o, es, count) ==
    /\ told' = [told EXCEPT ![fd[o]] = @ + count]
    /\ writing' = [writing EXCEPT ![o] = NoCall]
    /\ ends' = [es EXCEPT ![fd[o]].given = @ - (writing[o].n - count)]

\* send () takes some of the bytes, and the loop goes on with the rest.
Send(o) ==
    /\ ~Still(o) /\ Sendable(o)
    /\ LET p == End(o).peer
           c == writing[o]
           room == Min({Room - Len(ends[p].in), c.n - c.written})
       IN  /\ room > 0
           /\ \E k \in 1..room :
                 LET es == [ends EXCEPT ![p].in = @ \o [i \in 1..k |-> Start(o) + i]]
                 IN  IF c.written + k = c.n THEN Wrote(o, es, c.n)
                     ELSE /\ ends' = es /\ writing' = [writing EXCEPT ![o].written = @ + k]
                          /\ UNCHANGED told
    /\ UNCHANGED <<fd, child, taken, peeked>>

\* What write () says after an error: what it has written, if that is something;
\* else it throws.
Told(o) == writing[o].written

\* send () fails: the connection is gone, or the socket does not block.
SendFails(o) ==
    /\ ~Still(o)
    /\ Sendable(o) => Len(ends[End(o).peer].in) = Room
    /\ Wrote(o, ends, Told(o))
    /\ UNCHANGED <<fd, child, taken, peeked>>

-----------------------------------------------------------------------------
(* The end.                                                                *)

\* The connections a listener did not accept go with it.
Unaccepted(es, es2, gone) ==
    LET never == UNION {Range(es[l].pending) : l \in gone}
    IN  [e \in DOMAIN es |-> IF e \in never THEN [es2[e] EXCEPT !.open = FALSE]
                             ELSE IF e \in gone THEN [es2[e] EXCEPT !.pending = <<>>] ELSE es2[e]]

\* shutdown () gives up a connection that is being made and ends a listener;
\* that it fails with ENOTCONN if there is nothing to end is as good as success.
Shut(es, e, modes) ==
    CASE es[e].state = "connected" ->
             [es EXCEPT ![e].shutIn = @ \/ "in" \in modes, ![e].shutOut = @ \/ "out" \in modes]
      [] es[e].state = "connecting" -> [es EXCEPT ![e].state = "new"]
      [] es[e].state = "listening" /\ "in" \in modes ->
             Unaccepted(es, [es EXCEPT ![e].state = "new"], {e})
      [] OTHER -> es

Shutdown(o, modes) ==
    /\ fd[o] > 0 /\ End(o).state # "pipe" /\ Still(o)
    /\ ends' = Shut(ends, fd[o], modes)
    /\ UNCHANGED <<fd, writing, child, taken, peeked, told>>

\* The kernel drops what the last process has closed.
Dropped(es, gone) ==
    Unaccepted(es, [e \in DOMAIN es |-> IF e \in gone THEN [es[e] EXCEPT !.open = FALSE] ELSE es[e]], gone)

\* A mutant of Closed: close () without shutdown ().
ClosedOnly(es, e) == Dropped(es, {e} \ child)

Closed(es, e) == Dropped(Shut(es, e, {"in", "out"}), {e} \ child)

Close(o) ==
    /\ fd[o] > 0 /\ End(o).state # "pipe" /\ Still(o)
    /\ ends' = Closed(ends, fd[o])
    /\ fd' = [fd EXCEPT ![o] = IOFD_INVALID]
    /\ UNCHANGED <<writing, child, taken, peeked, told>>

\* The destructor's abort ().  shutdown () of what is no socket throws, so that
\* its descriptor stays.
Destroy(o) ==
    /\ fd[o] # NotMade /\ Still(o)
    /\ ends' = IF fd[o] = IOFD_INVALID \/ Holds(o, "pipe") THEN ends ELSE Closed(ends, fd[o])
    /\ fd' = [fd EXCEPT ![o] = NotMade]
    /\ UNCHANGED <<writing, child, taken, peeked, told>>

Fork ==
    /\ child = {}
    /\ child' = {e \in DOMAIN ends : ends[e].open /\ \E o \in Sockets : fd[o] = e}
    /\ child' # {}
    /\ UNCHANGED <<ends, fd, writing, taken, peeked, told>>

ChildExits ==
    /\ child # {}
    /\ child' = {}
    /\ ends' = Dropped(ends, {e \in child : \A o \in Sockets : fd[o] # e})
    /\ UNCHANGED <<fd, writing, taken, peeked, told>>

SocketNext ==
    \/ \E o \in Sockets :
           \/ Construct(o) \/ Adopt(o) \/ Send(o) \/ SendFails(o) \/ Close(o) \/ Destroy(o)
           \/ \E server \in BOOLEAN : Create(o, server)
           \/ \E l \in DOMAIN ends : Connect(o, l)
           \/ \E d \in Sockets : Accept(o, d)
           \/ \E k \in 1..Room : Read(o, k) \/ Peek(o, k)
           \/ \E n \in 1..MaxBytes : StartWrite(o, n)
           \/ \E modes \in SUBSET {"in", "out"} \ {{}} : Shutdown(o, modes)
    \/ \E e \in DOMAIN ends : Refuse(e)
    \/ \E e, l \in DOMAIN ends : Establish(e, l)
    \/ Fork
    \/ ChildExits

-----------------------------------------------------------------------------
Sent(e) == taken[e] \o ends[e].in

(* Every descriptor is held by one object, or waits to be accepted, or is  *)
(* a child's, until it is closed - but those that are no sockets (Socket   *)
(* accept, close, abort).                                                  *)
HeldOnce ==
    \A e \in DOMAIN ends :
        LET holders == {o \in Sockets : fd[o] = e} waits == \E l \in DOMAIN ends : e \in Range(ends[l].pending)
        IN  /\ Cardinality(holders) + (IF waits THEN 1 ELSE 0) <= 1
            /\ ends[e].open /\ holders = {} /\ ~waits => e \in child \/ ends[e].state = "pipe"
            /\ holders # {} => ends[e].open

(* What is read at one end is what was written at the other, each byte     *)
(* once and in order, however little send () takes at a time (Socket       *)
(* write).                                                                 *)
BytesInOrder ==
    \A e \in DOMAIN ends : Sent(e) = [k \in 1..Len(Sent(e)) |-> k]

(* write () says how many bytes it sent, and throws only if it sent none   *)
(* (Socket write).                                                         *)
WritesTold ==
    \A e \in DOMAIN ends : ends[e].peer # 0 =>
        Len(Sent(ends[e].peer)) = told[e] + ReduceSet(LAMBDA o, n : n + writing[o].written, {o \in Sockets : fd[o] = e}, 0)

(* What was peeked at is still there to be read (Socket peek).             *)
PeekedIsLeft == \A e \in DOMAIN ends : IsPrefix(peeked[e], ends[e].in)

(* Once a connection is closed the other side sees its end, though a child *)
(* has the descriptor too (Socket close, abort: shutdown ()).              *)
EndIsSeen ==
    \A e \in DOMAIN ends :
        ends[e].peer # 0 /\ (\A o \in Sockets : fd[o] # e) /\ ~(\E l \in DOMAIN ends : e \in Range(ends[l].pending))
            => ends[e].shutOut \/ ~ends[e].open
=============================================================================
