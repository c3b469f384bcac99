---------------------------- MODULE SocketAddress ----------------------------
(***************************************************************************)
(* Address objects of sockets, Inet and Local ones, and the calls that     *)
(* fill them in and use them: datagrams read and peeked at with their      *)
(* sender, answers, the names of a socket.  An address is a short sequence *)
(* of bytes, the family first; one object holds the longest.               *)
(***************************************************************************)
EXTENDS Integers, Sequences, SequencesExt, FiniteSets, FiniteSetsExt

CONSTANTS
    Peers,          \* address |-> its family is its first byte
    Objects,        \* the address objects
    MaxDatagrams    \* bound: datagrams on their way

ASSUME PeersAssumption ==
    IsFiniteSet(Peers) /\ Peers # {} /\ Peers \subseteq Seq(Nat) \ {<<>>}

VARIABLES
    queue,          \* the senders of what the socket has not read yet
    object,         \* name |-> [m_address, m_addrlen]
    from,           \* history: whose address the object was given last, or Nobody
    room,           \* history: for how many bytes of it there was room
    answers         \* history: the last answer, [to, meant, room]

addressVars == <<queue, object, from, room, answers>>

StorageSize == Max({Len(a) : a \in Peers})
Nobody == <<>>
Zeros == [i \in 1..StorageSize |-> 0]

\* InetAddress () has room for any address, LocalAddress () for the family only.
NewInet == [m_address |-> Zeros, m_addrlen |-> StorageSize]
NewLocal == [m_address |-> [Zeros EXCEPT ![1] = 1], m_addrlen |-> 1]
Shown(x) == SubSeq(object[x].m_address, 1, object[x].m_addrlen)

AddressInit ==
    /\ queue = <<>> /\ object = [x \in Objects |-> NewInet]
    /\ from = [x \in Objects |-> Nobody] /\ room = [x \in Objects |-> 0]
    /\ answers = [to |-> Nobody, meant |-> Nobody, room |-> 0]

-----------------------------------------------------------------------------
\* The system fills in as much as there is room for, and tells the real length.
Filled(x, a) ==
    [m_address |-> [i \in 1..StorageSize |-> IF i <= Min({object[x].m_addrlen, Len(a)}) THEN a[i] ELSE object[x].m_address[i]],
     m_addrlen |-> Len(a)]

\* The histories of an object that is given the address of "a", or of nobody.
IsGiven(x, a, bytes) == from' = [from EXCEPT ![x] = a] /\ room' = [room EXCEPT ![x] = bytes]

Renew(x, new) == object' = [object EXCEPT ![x] = new] /\ IsGiven(x, Nobody, 0) /\ UNCHANGED <<queue, answers>>

\* A constructor for a host and a port, or a path: initInetAddr ().
Make(x, a) ==
    /\ object' = [object EXCEPT ![x] = [m_address |-> [i \in 1..StorageSize |-> IF i <= Len(a) THEN a[i] ELSE @.m_address[i]],
                                        m_addrlen |-> Len(a)]]
    /\ IsGiven(x, a, Len(a)) /\ UNCHANGED <<queue, answers>>

\* A mutant of Copied: the length stays what it was.
CopiedBytes(x, y) ==
    [m_address |-> [i \in 1..StorageSize |-> IF i <= object[x].m_addrlen THEN object[x].m_address[i] ELSE object[y].m_address[i]],
     m_addrlen |-> object[y].m_addrlen]

\* Copies are made of as many bytes as the address has.
Copied(x, y) ==
    [m_address |-> [i \in 1..StorageSize |-> IF i <= object[x].m_addrlen THEN object[x].m_address[i] ELSE object[y].m_address[i]],
     m_addrlen |-> object[x].m_addrlen]
Copy(x, y) ==
    /\ object' = [object EXCEPT ![y] = Copied(x, y)] /\ IsGiven(y, from[x], room[x])
    /\ UNCHANGED <<queue, answers>>

Arrives(a) == Len(queue) < MaxDatagrams /\ queue' = Append(queue, a) /\ UNCHANGED <<object, from, room, answers>>

\* Peeking leaves the datagram where it is.
Left(peek) == IF peek THEN queue ELSE Tail(queue)

\* read () and peek () with a source: the length the object has is the room it has.
Receive(x, peek) ==
    /\ queue # <<>> /\ queue' = Left(peek)
    /\ object' = [object EXCEPT ![x] = Filled(x, Head(queue))]
    /\ IsGiven(x, Head(queue), object[x].m_addrlen)
    /\ UNCHANGED answers

\* sockname () and peername (), into a new object that is handed over.
Name(x, a, new) ==
    /\ object' = [object EXCEPT ![x] = [m_address |-> [i \in 1..StorageSize |->
                                           IF i <= Min({new.m_addrlen, Len(a)}) THEN a[i] ELSE new.m_address[i]],
                                        m_addrlen |-> Len(a)]]
    /\ IsGiven(x, a, new.m_addrlen) /\ UNCHANGED <<queue, answers>>

\* write () to a destination.
Answer(x) ==
    /\ from[x] # Nobody /\ answers' = [to |-> Shown(x), meant |-> from[x], room |-> room[x]]
    /\ UNCHANGED <<queue, object, from, room>>

AddressNext ==
    \/ \E a \in Peers : Arrives(a)
    \/ \E x \in Objects :
          \/ Renew(x, NewInet) \/ Renew(x, NewLocal) \/ Answer(x)
          \/ \E peek \in BOOLEAN : Receive(x, peek)
          \/ \E a \in Peers : Make(x, a) \/ Name(x, a, NewInet) \/ Name(x, a, NewLocal)
          \/ \E y \in Objects \ {x} : Copy(x, y)

-----------------------------------------------------------------------------
\* An address is the one meant, as far as there was room for that.
Reaches(to, meant, bytes) == Len(to) = Len(meant) /\ \A i \in 1..Len(meant) : i <= bytes => to[i] = meant[i]

\* An address that was read with a datagram, copied on and answered is as long as
\* the sender's and begins with as many of its bytes as there was room for - all of
\* them, if there was room for all, whatever shorter or longer one the object held
\* before.  Nothing makes room: the object of a shorter address has none for the
\* end of a longer one, a new LocalAddress none for a path, and what is behind is
\* left from an earlier address (Socket.cpp read, peek, write, sockname,
\* SocketAddress).
AnswersReachTheSender ==
    /\ Reaches(answers.to, answers.meant, answers.room)
    /\ \A x \in Objects : from[x] # Nobody => Reaches(Shown(x), from[x], room[x])
=============================================================================
