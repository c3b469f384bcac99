------------------------------ MODULE IOStream ------------------------------
(***************************************************************************)
(* A channel written at one end and read at the other: the calls of        *)
(* IOInput and IOOutput that are made of several system calls, over a wire *)
(* that takes and gives a part of what it is asked for, refuses when it is *)
(* not to block, and may break.  A byte is its number.  The calls that     *)
(* EINTR has the code repeat change nothing.                               *)
(***************************************************************************)
EXTENDS Integers, Sequences, FiniteSets, SequencesExt, FiniteSetsExt

CONSTANTS
    Capacity,           \* bytes the wire holds
    MaxBytes,           \* bytes written in all
    ReadCalls, WriteCalls,  \* the calls the clients make
    BufferLists,        \* the sizes of the buffers they make them with
    ReadvWhole          \* readv () of the base class is given one buffer only

SumOf(sizes) ==
    LET upTo[n \in 0..Len(sizes)] == IF n = 0 THEN 0 ELSE upTo[n - 1] + sizes[n]
    IN  upTo[Len(sizes)]

\* A call has room for a byte.
ASSUME BuffersAssumption ==
    /\ Capacity \in Nat
    /\ \A sizes \in BufferLists : sizes \in Seq(Nat) /\ \E k \in DOMAIN sizes : sizes[k] > 0

VARIABLES
    wire, end,          \* the bytes under way; "open", "closed" by the writer or the reader, "broken"
    nonblock,           \* side |-> whether O_NONBLOCK is set
    reader, writer,     \* the call each is in
    sent,               \* the bytes the wire has been given
    taken, lost,        \* the bytes that were returned; those read by a call that threw
    told, untold        \* how many bytes calls said they wrote; those written by a call that threw

streamVars == <<wire, end, nonblock, reader, writer, sent, taken, lost, told, untold>>

Nobody == [call |-> "none", sizes |-> <<>>, data |-> <<>>, done |-> 0]
Hole   == 0

IOInit ==
    /\ wire = <<>> /\ end = "open" /\ nonblock \in [{"r", "w"} -> BOOLEAN]
    /\ reader = Nobody /\ writer = Nobody
    /\ sent = 0 /\ taken = <<>> /\ lost = {} /\ told = 0 /\ untold = 0


\* setBlocking (): what is asked for is the opposite of what is set, and
\* isBlocking () says what was asked for.
setBlocking(side, value) == nonblock' = [nonblock EXCEPT ![side] = value]
isBlocking(side) == nonblock[side]

SetBlocking(side) ==
    /\ sent = 0 /\ reader = Nobody /\ writer = Nobody
    /\ setBlocking(side, ~isBlocking(side))
    /\ UNCHANGED <<wire, end, reader, writer, sent, taken, lost, told, untold>>

-----------------------------------------------------------------------------
(* Reading.  The buffers of a call lie behind each other in "data"; a      *)
(* system call fills some of the room between two positions.               *)

\* The buffer that begins at the position i or has it inside.
BufferEnd(sizes, i) ==
    LET ends == {SumOf(SubSeq(sizes, 1, k)) : k \in DOMAIN sizes} IN Min({e \in ends : e > i})

\* Where the next read () of a call begins and ends.
Room(c) ==
    IF c.call \in {"readv", "xreadv"} THEN <<Len(c.data), BufferEnd(c.sizes, Len(c.data))>>
    ELSE <<Len(c.data), SumOf(c.sizes)>>

StartRead(call, sizes) ==
    /\ reader = Nobody /\ end # "reader closed"
    /\ ReadvWhole /\ call = "readv" => Len(sizes) = 1
    /\ reader' = [call |-> call, sizes |-> sizes, data |-> <<>>, done |-> 0]
    /\ UNCHANGED <<wire, end, nonblock, writer, sent, taken, lost, told, untold>>

Into(c, bytes) == c.data \o bytes

\* A mutant of Leaves: xreadv () goes on to the next buffer too.
LeavesAll(c) == c.call \in {"readv", "xreadv"}

\* Whether a call leaves a buffer that was filled in part.
Leaves(c) == c.call = "readv"

\* Up to the end of the buffer nothing more is read into it.
Padded(c, to) == c.data \o [k \in 1..to - Len(c.data) |-> Hole]

\* A mutant of ReadOn: xread () is content with what there is.
ReadOnOnce(c) == c.call = "readv" /\ Len(c.data) < SumOf(c.sizes)

\* Whether a call goes on after a read () that gave something: the x calls to
\* the end of the buffers, readv () of the base class buffer by buffer.
ReadOn(c) == c.call \in {"readv", "xread", "xreadv"} /\ Len(c.data) < SumOf(c.sizes)

\* The client takes as many bytes from the buffers as the call said.
Returned(c) ==
    /\ taken' = taken \o SubSeq(c.data, 1, c.done)
    /\ reader' = Nobody /\ UNCHANGED lost

\* read () gives some of what the wire holds.
ReadSome ==
    /\ reader # Nobody /\ wire # <<>>
    /\ \E n \in 1..Min({Len(wire), Room(reader)[2] - Room(reader)[1]}) :
          LET b == [reader EXCEPT !.data = Into(reader, SubSeq(wire, 1, n)), !.done = @ + n]
              c == IF Leaves(b) THEN [b EXCEPT !.data = Padded(b, Room(reader)[2])] ELSE b
          IN  /\ wire' = SubSeq(wire, n + 1, Len(wire))
              /\ IF ReadOn(c) THEN reader' = c /\ UNCHANGED <<taken, lost>> ELSE Returned(c)
    /\ UNCHANGED <<end, nonblock, writer, sent, told, untold>>

\* read () gives 0.
ReadEnd ==
    /\ reader # Nobody /\ wire = <<>> /\ end = "writer closed"
    /\ Returned(reader)
    /\ UNCHANGED <<wire, end, nonblock, writer, sent, told, untold>>

\* read () fails: readv () of the base class returns what it has.
ReadFails ==
    /\ reader # Nobody /\ wire = <<>>
    /\ end = "broken" \/ (end = "open" /\ nonblock["r"])
    /\ IF reader.call = "readv" /\ reader.done > 0 THEN Returned(reader)
       ELSE /\ lost' = lost \cup Range(reader.data)
            /\ reader' = Nobody /\ UNCHANGED taken
    /\ UNCHANGED <<wire, end, nonblock, writer, sent, told, untold>>

-----------------------------------------------------------------------------
(* Writing.  "done" bytes of the call have been written. *)

StartWrite(call, sizes) ==
    /\ writer = Nobody /\ end # "writer closed" /\ sent + SumOf(sizes) <= MaxBytes
    /\ writer' = [call |-> call, sizes |-> sizes, data |-> <<>>, done |-> 0]
    /\ UNCHANGED <<wire, end, nonblock, reader, sent, taken, lost, told, untold>>

\* Up to where the next write () of a call is to write.
WriteTo(c) == IF c.call \in {"writev", "xwritev"} THEN BufferEnd(c.sizes, c.done) ELSE SumOf(c.sizes)

WriteOn(c, full) ==
    /\ c.done < SumOf(c.sizes)
    /\ c.call \in {"xwrite", "xwritev"} \/ (c.call = "writev" /\ full)

Wrote(c) == told' = told + c.done /\ writer' = Nobody /\ UNCHANGED untold

\* write () takes some of the bytes, none if it would block.
WriteSome ==
    /\ writer # Nobody /\ end = "open"
    /\ LET room == Min({Capacity - Len(wire), WriteTo(writer) - writer.done})
       IN  /\ room > 0 \/ (nonblock["w"] /\ writer.call # "system writev")
           /\ \E n \in (IF room > 0 THEN 1 ELSE 0)..room :
                 LET c == [writer EXCEPT !.done = @ + n]
                 IN  /\ wire' = wire \o [k \in 1..n |-> sent + k] /\ sent' = sent + n
                     /\ IF WriteOn(c, c.done = WriteTo(writer))
                        THEN writer' = c /\ UNCHANGED <<told, untold>> ELSE Wrote(c)
    /\ UNCHANGED <<end, nonblock, reader, taken, lost>>

\* A mutant of WriteFails: every error is one that will pass.
WriteFailsNever ==
    /\ writer # Nobody /\ end = "open" /\ nonblock["w"]
    /\ writer.call = "system writev" /\ Len(wire) = Capacity
    /\ untold' = untold + writer.done /\ writer' = Nobody
    /\ UNCHANGED <<wire, end, nonblock, reader, sent, taken, lost, told>>

\* write () fails; writev () of the channel also when it would block.
WriteFails ==
    /\ writer # Nobody
    /\ \/ end \in {"reader closed", "broken"}
       \/ end = "open" /\ nonblock["w"] /\ writer.call = "system writev" /\ Len(wire) = Capacity
    /\ IF writer.call = "writev" /\ writer.done > 0 THEN Wrote(writer)
       ELSE untold' = untold + writer.done /\ writer' = Nobody /\ UNCHANGED told
    /\ UNCHANGED <<wire, end, nonblock, reader, sent, taken, lost>>

-----------------------------------------------------------------------------
\* A side closes its end between two calls; the connection breaks.
CloseWriter ==
    /\ end = "open" /\ writer = Nobody /\ end' = "writer closed"
    /\ UNCHANGED <<wire, nonblock, reader, writer, sent, taken, lost, told, untold>>
CloseReader ==
    /\ end = "open" /\ reader = Nobody /\ end' = "reader closed" /\ wire' = <<>>
    /\ lost' = lost \cup Range(wire)
    /\ UNCHANGED <<nonblock, reader, writer, sent, taken, told, untold>>
Break ==
    /\ end = "open" /\ end' = "broken" /\ wire' = <<>> /\ lost' = lost \cup Range(wire)
    /\ UNCHANGED <<nonblock, reader, writer, sent, taken, told, untold>>

IONext ==
    \/ \E side \in {"r", "w"} : SetBlocking(side)
    \/ \E call \in ReadCalls, sizes \in BufferLists : StartRead(call, sizes)
    \/ \E call \in WriteCalls, sizes \in BufferLists : StartWrite(call, sizes)
    \/ ReadSome \/ ReadEnd \/ ReadFails \/ WriteSome \/ WriteFails
    \/ CloseWriter \/ CloseReader \/ Break

-----------------------------------------------------------------------------
\* What the reader was given, what it is being given and what is under way is
\* what was sent, in order; only a call that threw or a broken connection leaves
\* bytes out (IOInput.cpp readv, xread, xreadv).
InOrder ==
    LET seen == taken \o reader.data \o wire IN
    /\ Range(seen) = (1..sent) \ lost
    /\ \A i, j \in DOMAIN seen : i < j => seen[i] < seen[j]

\* The buffers are filled one after the other, each fully before the next, by
\* calls other than readv () of the base class (IOInput.cpp:94-95).
NoHoles == Hole \notin Range(taken)

\* What the writer was told it wrote, is being told, and wrote in calls that
\* threw is what was sent: no byte is counted twice (IOOutput.cpp writev, xwrite,
\* xwritev).
EveryByteTold == told + writer.done + untold = sent

\* An x call returns less than it was asked for at the end of the input only,
\* and writes all (IOInput::xread, IOOutput::xwrite).
XCallsAreComplete ==
    [][/\ reader.call \in {"xread", "xreadv"} /\ reader' = Nobody /\ taken' # taken
          => Len(taken') - Len(taken) = SumOf(reader.sizes) \/ end = "writer closed"
       /\ writer.call \in {"xwrite", "xwritev"} /\ told' # told => told' - told = SumOf(writer.sizes)]_streamVars

\* A call that writes ends as long as somebody reads or the connection ends.
WritingEnds == writer # Nobody ~> writer = Nobody

IOFairness ==
    /\ WF_streamVars(WriteSome) /\ WF_streamVars(WriteFails)
    /\ WF_streamVars(ReadSome) /\ WF_streamVars(ReadEnd) /\ WF_streamVars(ReadFails)
    /\ WF_streamVars(\E call \in ReadCalls, sizes \in BufferLists : StartRead(call, sizes))
=============================================================================
