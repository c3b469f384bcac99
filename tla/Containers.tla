----------------------------- MODULE Containers ------------------------------
(***************************************************************************)
(* PODVector, Unwind, Range and Sequence.                                  *)
(***************************************************************************)
EXTENDS Integers, Sequences, SequencesExt, FiniteSets, FiniteSetsExt

CONSTANTS
    Elements, MaxSize,      \* of a vector; bound: its longest
    Owners, Pointees,       \* Unwind objects, and what they may own
    Low, High               \* the limits of the sequence

VARIABLES
    vector, expected,       \* PODVector::Data; history: what the client put in
    unwind, alive, deleted, \* the Unwind objects, what they point to, what was deleted
    sequence, given         \* Sequence; history: what next () gave since the client
                            \* was told of a start from the beginning

sequenceVars == <<sequence, given>>

-----------------------------------------------------------------------------
(* PODVector: memory for "limit" elements of which the first "end" are     *)
(* there.  The erasure of a range, which lets the vector grow (:332), is   *)
(* left out.                                                               *)

NoVector == [mem |-> <<>>, end |-> 0]
VectorInit == vector = NoVector /\ expected = <<>>

Limit(v) == Len(v.mem)
Contents(v) == SubSeq(v.mem, 1, v.end)
Garbage == "garbage"
Raw(n) == [k \in 1..n |-> Garbage]

\* What x is a reference to: an element of the vector, or something else.
Referred(v, x) == IF x.inside THEN v.mem[x.at] ELSE x.value

Reserved(v, n) ==
    IF Limit(v) < n THEN [v EXCEPT !.mem = Contents(v) \o Raw(n - v.end)] ELSE v

\* A mutant of Grown: the new element is read when the old memory is gone.
GrownLate(v, pos, x) ==
    LET size == IF v.end = 0 THEN 1 ELSE 2 * v.end
        grown == SubSeq(v.mem, 1, pos) \o <<IF x.inside THEN Garbage ELSE x.value>> \o SubSeq(v.mem, pos + 1, v.end)
    IN  [mem |-> grown \o Raw(size - Len(grown)), end |-> Len(grown)]

\* insert_grow () of a full vector, before the element behind the first pos.
Grown(v, pos, x) ==
    LET size == IF v.end = 0 THEN 1 ELSE 2 * v.end
        grown == SubSeq(v.mem, 1, pos) \o <<Referred(v, x)>> \o SubSeq(v.mem, pos + 1, v.end)
    IN  [mem |-> grown \o Raw(size - Len(grown)), end |-> Len(grown)]

References == [inside : {FALSE}, value : Elements] \cup [inside : {TRUE}, at : 1..vector.end]

HasRoom(v) == v.end # Limit(v)
Placed(v, x) == [mem |-> [v.mem EXCEPT ![v.end + 1] = Referred(v, x)], end |-> v.end + 1]
Meant(x) == IF x.inside THEN expected[x.at] ELSE x.value

PushBack(x) ==
    /\ vector.end < MaxSize
    /\ vector' = IF HasRoom(vector) THEN Placed(vector, x) ELSE Grown(vector, vector.end, x)
    /\ expected' = Append(expected, Meant(x))

\* With room to spare the element goes to the end, whatever it was to be put
\* before.  When that is the end, copy_backward () is given a range that ends
\* before it begins (:216): either nothing is moved, or the program ends.
Insert(pos, x) ==
    /\ vector.end < MaxSize
    /\ IF HasRoom(vector)
       THEN vector' = Placed(vector, x) /\ expected' = Append(expected, Meant(x))
       ELSE vector' = Grown(vector, pos, x) /\ expected' = InsertAt(expected, pos + 1, Meant(x))

PopBack ==
    /\ vector.end > 0
    /\ vector' = [vector EXCEPT !.end = @ - 1]
    /\ expected' = Front(expected)

\* The last to go takes the memory with it.
Erase(pos) ==
    /\ pos \in 1..vector.end
    /\ LET moved == [vector EXCEPT !.mem = [k \in DOMAIN @ |-> IF k \in pos..vector.end - 1 THEN @[k + 1] ELSE @[k]],
                                   !.end = @ - 1]
       IN  vector' = IF moved.end = 0 THEN NoVector ELSE moved
    /\ expected' = RemoveAt(expected, pos)

Reserve(n) ==
    /\ vector' = Reserved(vector, n)
    /\ UNCHANGED expected

VectorNext ==
    \/ \E x \in References : PushBack(x) \/ \E pos \in 0..vector.end : Insert(pos, x)
    \/ PopBack
    \/ \E pos \in 1..MaxSize : Erase(pos) \/ Reserve(pos)

(* The vector has what was put in, in the order of the places, also when   *)
(* what is put in is a reference to an element of the vector that has to   *)
(* move; the place of what is inserted with room to spare is the end,      *)
(* though insert () returns the one it was asked for (PODVector.h          *)
(* push_back, insert, insert_grow, erase, reserve).                        *)
VectorHoldsAll == Contents(vector) = expected

-----------------------------------------------------------------------------
(* Unwind: the object that deletes what it points to unless another has    *)
(* taken that over.                                                        *)

NotMade == [object |-> "none", owner |-> FALSE]
UnwindInit == unwind = [o \in Owners |-> NotMade] /\ alive = {} /\ deleted = {}

Delete(p) == alive' = alive \ {p} /\ deleted' = deleted \cup {p}
Kept == UNCHANGED <<alive, deleted>>

Unwinding(o, p) ==
    /\ unwind[o] = NotMade /\ p \notin alive \cup deleted
    /\ unwind' = [unwind EXCEPT ![o] = [object |-> p, owner |-> TRUE]]
    /\ alive' = alive \cup {p} /\ UNCHANGED deleted

TakenFrom(x) == [unwind EXCEPT ![x].owner = FALSE]

CopyUnwind(o, x) ==
    /\ unwind[o] = NotMade /\ unwind[x] # NotMade
    /\ unwind' = [TakenFrom(x) EXCEPT ![o] = unwind[x]]
    /\ Kept

\* The client assigns no copy that does not own what o owns: nobody would then.
AssignUnwind(o, x) ==
    /\ unwind[o] # NotMade /\ unwind[x] # NotMade
    /\ unwind[o].owner /\ unwind[o].object = unwind[x].object => unwind[x].owner
    /\ unwind' = [TakenFrom(x) EXCEPT ![o] = unwind[x]]
    /\ IF unwind[o].owner /\ unwind[o].object # unwind[x].object THEN Delete(unwind[o].object) ELSE Kept

\* What release () returns is deleted by the client some time.
Release(o) ==
    /\ unwind[o].owner
    /\ unwind' = [unwind EXCEPT ![o].owner = FALSE]
    /\ Delete(unwind[o].object)

DestroyUnwind(o) ==
    /\ unwind[o] # NotMade
    /\ unwind' = [unwind EXCEPT ![o] = NotMade]
    /\ IF unwind[o].owner THEN Delete(unwind[o].object) ELSE Kept

UnwindNext ==
    \/ \E o \in Owners : Release(o) \/ DestroyUnwind(o) \/ \E p \in Pointees : Unwinding(o, p)
    \/ \E o, x \in Owners : CopyUnwind(o, x) \/ AssignUnwind(o, x)

(* Everything has one owner until it is deleted, however it is handed on   *)
(* (Unwind.h, copy constructor, operator=, destructor, release).           *)
OwnedOnce ==
    /\ \A p \in Pointees : Cardinality({o \in Owners : unwind[o].object = p /\ unwind[o].owner}) = IF p \in alive THEN 1 ELSE 0
    /\ alive \cap deleted = {}

-----------------------------------------------------------------------------
(* Range, and Sequence.                                                    *)

MakeRange(x, y) == IF x < y THEN [low |-> x, high |-> y] ELSE [low |-> y, high |-> x]
empty(r) == r.high = r.low
contains(r, value) == r.low <= value /\ value < r.high
containsRange(r, s) == r.low <= s.low /\ s.high <= r.high

intersects(r, s) == r.low < s.high /\ r.high > s.low

Least(a, b) == IF a < b THEN a ELSE b
Most(a, b) == IF a < b THEN b ELSE a
intersection(r, s) == MakeRange(Least(r.high, Most(r.low, s.low)), Least(r.high, s.high))

(* Ranges that are not empty intersect if there is a value in both, and    *)
(* then the values in the intersection are those; a range contains another *)
(* if it has its values (Range.h).  Of ranges that do not intersect nothing *)
(* is said: the intersection of one with another that ends before it       *)
(* begins is what lies between them, and not empty.                        *)
RangesAgree ==
    LET values(r) == {v \in Low..High : contains(r, v)}
        ranges == {MakeRange(x, y) : x, y \in Low..High}
    IN  \A r, s \in {t \in ranges : ~empty(t)} :
            /\ intersects(r, s) <=> values(r) \cap values(s) # {}
            /\ intersects(r, s) => values(intersection(r, s)) = values(r) \cap values(s)
            /\ containsRange(r, s) <=> values(s) \subseteq values(r)

SequenceInit ==
    /\ sequence \in [m_current : {Low}, m_wraps : BOOLEAN, m_wrapped : {FALSE}]
    /\ given = {Low}

NextOf(s) ==
    IF s.m_current = High THEN [s EXCEPT !.m_wrapped = TRUE, !.m_current = Low] ELSE [s EXCEPT !.m_current = @ + 1]

\* Throws at the end if it does not wrap.
next ==
    /\ sequence.m_current = High => sequence.m_wraps
    /\ sequence' = NextOf(sequence)
    /\ given' = given \cup {sequence'.m_current}

\* What comes after the client was told so is new again.
wrapped ==
    /\ sequence' = [sequence EXCEPT !.m_wrapped = FALSE]
    /\ given' = IF sequence.m_wrapped THEN {sequence.m_current} ELSE given

wraps(value) == sequence' = [sequence EXCEPT !.m_wraps = value] /\ UNCHANGED given

reset ==
    /\ sequence' = [sequence EXCEPT !.m_current = Low, !.m_wrapped = FALSE]
    /\ given' = {Low}

SequenceNext == next \/ wrapped \/ reset \/ \E value \in BOOLEAN : wraps(value)

(* A value that was given before is given again only if wrapped () says so *)
(* then, and no value is outside the limits (Sequence.h next, wrapped,     *)
(* reset).                                                                 *)
RepeatsAreTold ==
    [][next => sequence'.m_current \in Low..High /\ (sequence'.m_current \in given => sequence'.m_wrapped)]_sequenceVars
=============================================================================
