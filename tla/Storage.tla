------------------------------- MODULE Storage -------------------------------
(***************************************************************************)
(* One file; the views that FileMappings make of it or of nothing, among   *)
(* what the rest of the program maps; and transfer ().  A byte stands for  *)
(* a page.                                                                 *)
(***************************************************************************)
EXTENDS Integers, Sequences, SequencesExt, FiniteSets, FiniteSetsExt

CONSTANTS
    MaxLength,          \* bound: bytes in the file
    Addresses,          \* where views can be
    Mappings            \* name |-> whether the FileMapping has the file

VARIABLES
    size,               \* of the file
    space,              \* address |-> who has mapped something there
    mapping,            \* name |-> [views, closed]
    transfer            \* [pos, sent]: the client's position, the bytes sent by their place

storageVars == <<size, space, mapping, transfer>>

Free == "nobody"
Other == "others"
Views(m) == mapping[m].views

StorageInit ==
    /\ size = 0 /\ space = [a \in Addresses |-> Free]
    /\ mapping = [m \in DOMAIN Mappings |-> [views |-> <<>>, closed |-> FALSE]]
    /\ transfer = [pos |-> 0, sent |-> <<>>]

Resize(n) == size' = n /\ UNCHANGED <<space, mapping, transfer>>

-----------------------------------------------------------------------------
\* create (): a view of the file, or of zeros when there is none.  The client
\* asks for none after close ().
Create(m, length) ==
    \E a \in Addresses :
        /\ space[a] = Free /\ ~mapping[m].closed /\ length > 0
        /\ space' = [space EXCEPT ![a] = m]
        /\ mapping' = [mapping EXCEPT ![m].views = Append(@, a)]
        /\ UNCHANGED <<size, transfer>>

\* map (): the whole file as it is now, or the limit of an anonymous mapping; or
\* a part, which may lie behind the end.
MapAll(m) == Create(m, IF Mappings[m] THEN size ELSE 1)
MapPart(m, length) == Create(m, length)

Erased(m, a) == LET k == CHOOSE i \in DOMAIN Views(m) : Views(m)[i] = a IN RemoveAt(Views(m), k)

Unmap(m, a) ==
    /\ a \in Range(Views(m))
    /\ space' = [space EXCEPT ![a] = Free] /\ mapping' = [mapping EXCEPT ![m].views = Erased(m, a)]
    /\ UNCHANGED <<size, transfer>>

\* unmap () of all views, oldest first, up to one that munmap () refuses; and
\* close (), which gives the file up when none was refused.
UnmapAll(m, done, close) ==
    LET gone == Range(SubSeq(Views(m), 1, done)) IN
    /\ ~mapping[m].closed
    /\ space' = [a \in Addresses |-> IF a \in gone THEN Free ELSE space[a]]
    /\ mapping' = [mapping EXCEPT ![m] = [views |-> SubSeq(@.views, done + 1, Len(@.views)),
                                          closed |-> close /\ done = Len(@.views)]]
    /\ UNCHANGED <<size, transfer>>

TheyMap(a) ==
    /\ space[a] \in {Free, Other} /\ space' = [space EXCEPT ![a] = IF @ = Free THEN Other ELSE Free]
    /\ UNCHANGED <<size, mapping, transfer>>

-----------------------------------------------------------------------------
Sent(n) == [pos |-> transfer.pos + n, sent |-> transfer.sent \o [i \in 1..n |-> transfer.pos + i]]

\* transfer (): sendfile () takes as much as it likes.
Transfer(length, n) ==
    /\ n <= length /\ transfer.pos + n <= size
    /\ transfer' = Sent(n)
    /\ UNCHANGED <<size, space, mapping>>

StorageNext ==
    \/ \E n \in 0..MaxLength : Resize(n) \/ \E length \in 1..MaxLength : Transfer(length, n)
    \/ \E m \in DOMAIN Mappings :
          \/ MapAll(m)
          \/ \E length \in 1..MaxLength : MapPart(m, length)
          \/ \E a \in Addresses : Unmap(m, a)
          \/ \E done \in 0..Len(Views(m)), close \in BOOLEAN : UnmapAll(m, done, close)
    \/ \E a \in Addresses : TheyMap(a)

-----------------------------------------------------------------------------
\* Of what is mapped, a FileMapping knows its own views and no others, also
\* after munmap () refused one, and after close () there are none: nothing of
\* somebody else is unmapped and nothing is left (FileMapping.cpp unmap, close).
ViewsAreMapped ==
    \A m \in DOMAIN Mappings :
        /\ IsInjective(Views(m)) /\ Range(Views(m)) = {a \in Addresses : space[a] = m}
        /\ mapping[m].closed => Views(m) = <<>>

\* Transfers one after the other send the bytes of the file in order, none of
\* them twice, whatever becomes of its length meanwhile
\* (IOChannelTransfer.cpp transfer).
TransfersInOrder == transfer.sent = [i \in 1..transfer.pos |-> i]
=============================================================================
