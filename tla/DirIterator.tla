----------------------------- MODULE DirIterator -----------------------------
(***************************************************************************)
(* DirIterator: iterators over the entries of a directory that share their *)
(* state until one of them is advanced, which takes the state with it and  *)
(* leaves the others the name they were at.                                *)
(*                                                                         *)
(* readdir () gives the entries in any order, and each stream returns them *)
(* in one buffer.  The client advances what may be advanced and closes     *)
(* what reads.                                                             *)
(***************************************************************************)
EXTENDS Integers, Sequences, FiniteSets

CONSTANTS
    Iterators,
    Names, Dots,    \* the entries of a directory, and those of them that are
                    \* the directory itself and its parent
    MaxStreams      \* bound: directories opened in all

VARIABLES
    data,           \* the DirIteratorData that were not deleted
    at,             \* iterator |-> its m_data, 0 if it is not constructed
    streams,        \* the streams opened: what is to be read, the buffer, open
    wasted,         \* history: streams an exception left open
    doomed          \* history: data whose count an exception left wrong

dirVars == <<data, at, streams, wasted, doomed>>

Null == 0
Nothing == "none"

DirInit ==
    /\ data = <<>> /\ at = [i \in Iterators |-> Null] /\ streams = <<>>
    /\ wasted = {} /\ doomed = {}

\* All the operations as functions from one state of the memory to the next;
\* ok says that no ASSERT failed, thrown that an exception is on its way.
Memory == [data |-> data, at |-> at, streams |-> streams, ok |-> TRUE, thrown |-> FALSE]
Asserts(s, cond) == [s EXCEPT !.ok = @ /\ cond]
New(s) == CHOOSE n \in 1..Cardinality(DOMAIN s.data) + 1 : n \notin DOMAIN s.data
Set(s, d, rec) == [s EXCEPT !.data = [x \in DOMAIN s.data \cup {d} |-> IF x = d THEN rec ELSE s.data[x]]]
Free(s, d) == [s EXCEPT !.data = [x \in DOMAIN s.data \ {d} |-> s.data[x]]]

\* sysderef () reads the buffer of the stream; operator* () what it remembers
\* if the state is another's.
CanRead(s, d) ==
    /\ d # Null /\ ~s.data[d].m_last
    /\ s.data[d].m_valid => s.data[d].m_dir # Null /\ s.streams[s.data[d].m_dir].buffer # Nothing
sysderef(s, d) == s.streams[s.data[d].m_dir].buffer
Deref(s, i) ==
    LET d == s.data[s.at[i]] IN IF d.m_valid THEN sysderef(s, s.at[i]) ELSE d.m_last_name

\* A mutant of steal: the others go on to read the stream.
stealShared(s, i) ==
    LET d == s.at[i] n == New(s)
    IN  IF s.data[d].m_refs = 1 THEN s
        ELSE [Set(Set(s, d, [s.data[d] EXCEPT !.m_refs = @ - 1]), n, [s.data[d] EXCEPT !.m_refs = 1])
              EXCEPT !.at[i] = n]

steal(s, i) ==
    LET d == s.at[i] n == New(s)
        left == [s.data[d] EXCEPT !.m_last_name = Deref(s, i), !.m_valid = FALSE, !.m_refs = @ - 1]
    IN  IF s.data[d].m_refs = 1 THEN s
        ELSE [Set(Set(s, d, left), n, [s.data[d] EXCEPT !.m_refs = 1]) EXCEPT !.at[i] = n]

\* What readdir () may do until it gives an entry that is not skipped: the
\* entry or the end, what is left to read, and whether it fails.
sysnext(stream, dots) ==
    LET skipped == IF dots THEN {} ELSE Dots
    IN  {[buffer |-> e, left |-> stream.left \ (skip \cup {e}), fails |-> FALSE] :
            e \in stream.left \ skipped, skip \in SUBSET (stream.left \cap skipped)}
        \cup (IF stream.left \subseteq skipped THEN {[buffer |-> Nothing, left |-> {}, fails |-> FALSE]} ELSE {})
        \cup {[buffer |-> Nothing, left |-> stream.left, fails |-> TRUE]}

next(s, i, r) ==
    LET t == steal(s, i) d == t.at[i] dir == t.data[d].m_dir
        asserted == Asserts(t, s.data[s.at[i]].m_valid /\ s.data[s.at[i]].m_last_name = Nothing /\ dir # Null)
    IN  [asserted EXCEPT !.streams[dir].left = r.left, !.streams[dir].buffer = r.buffer,
                         !.data[d].m_last = ~r.fails /\ r.buffer = Nothing, !.thrown = r.fails]

\* sysclose () of the stream; of what another took over the name goes.
closed(s, d, fails) ==
    LET dir == s.data[d].m_dir
    IN  IF ~s.data[d].m_valid THEN [s EXCEPT !.data[d].m_last_name = Nothing]
        ELSE IF dir = Null THEN s
        ELSE [s EXCEPT !.data[d].m_dir = Null, !.streams[dir].open = FALSE, !.thrown = fails]

release(s, d, fails) ==
    LET counted == [s EXCEPT !.data[d].m_refs = @ - 1]
        shut == closed(counted, d, fails)
    IN  IF counted.data[d].m_refs # 0 THEN counted
        ELSE IF shut.thrown THEN shut ELSE Free(shut, d)

Referred(s, d) == [s EXCEPT !.data[d].m_refs = @ + 1]

-----------------------------------------------------------------------------
\* A step of the client that leads to s; no ASSERT fails by the client's rules.
Becomes(s) ==
    /\ s.ok
    /\ data' = s.data /\ at' = s.at /\ streams' = s.streams

Fresh(dir) ==
    [m_refs |-> 1, m_last |-> dir = Null, m_valid |-> TRUE, m_dots |-> FALSE,
     m_last_name |-> Nothing, m_dir |-> dir]

\* An iterator that an assignment failed to change is left alone.
Usable(i) == at[i] # Null /\ data[at[i]].m_refs > 0

MakeEnd(i) ==
    /\ at[i] = Null
    /\ Becomes([Set(Memory, New(Memory), Fresh(Null)) EXCEPT !.at[i] = New(Memory)])
    /\ UNCHANGED <<wasted, doomed>>

\* A directory that cannot be opened changes nothing; if its first entry cannot
\* be read, initialise () deletes the state and forgets the stream.
Open(i, dots) ==
    /\ at[i] = Null /\ Len(streams) < MaxStreams
    /\ LET dir == Len(streams) + 1 n == New(Memory)
           opened == [Memory EXCEPT !.streams = Append(@, [left |-> Names, buffer |-> Nothing, open |-> TRUE])]
           made == [Set(opened, n, [Fresh(dir) EXCEPT !.m_dots = dots]) EXCEPT !.at[i] = n]
       IN  \E r \in sysnext(opened.streams[dir], dots) :
               LET s == next(made, i, r)
               IN  /\ Becomes(IF s.thrown THEN [Free(s, n) EXCEPT !.at[i] = Null] ELSE s)
                   /\ wasted' = IF s.thrown THEN wasted \cup {dir} ELSE wasted
    /\ UNCHANGED doomed

Copy(i, j) ==
    /\ Usable(i) /\ at[j] = Null
    /\ Becomes([Referred(Memory, at[i]) EXCEPT !.at[j] = at[i]])
    /\ UNCHANGED <<wasted, doomed>>

\* j = i: when the old state of j cannot be closed, j keeps it - with a count of
\* zero - and the state of i has one user too many.
Assigned(s, j, d, fails) ==
    LET t == release(Referred(s, d), s.at[j], fails)
    IN  IF t.thrown THEN t ELSE [t EXCEPT !.at[j] = d]

Assign(i, j, fails) ==
    /\ Usable(i) /\ Usable(j)
    /\ LET s == Assigned(Memory, j, at[i], fails)
       IN  /\ s.thrown = fails /\ Becomes(s)
           /\ doomed' = IF s.thrown THEN doomed \cup {at[i], at[j]} ELSE doomed
    /\ UNCHANGED wasted

Destroy(i) ==
    /\ Usable(i)
    /\ Becomes([release(Memory, at[i], FALSE) EXCEPT !.thrown = FALSE, !.at[i] = Null])
    /\ UNCHANGED <<wasted, doomed>>

\* close () by the client, which reads nothing afterwards.
Close(i, fails) ==
    /\ Usable(i) /\ data[at[i]].m_valid
    /\ Becomes(closed(Memory, at[i], fails))
    /\ UNCHANGED <<wasted, doomed>>

MayAdvance(i) == Usable(i) /\ data[at[i]].m_valid /\ CanRead(Memory, at[i])
Readings(i) == LET d == data[at[i]] IN sysnext(streams[d.m_dir], d.m_dots)

\* ++i
Advance(i) ==
    /\ MayAdvance(i)
    /\ \E r \in Readings(i) : Becomes(next(Memory, i, r))
    /\ UNCHANGED <<wasted, doomed>>

\* j (i++): a copy of what i was, which goes again if i cannot be advanced.
AdvanceAfter(i, j) ==
    /\ MayAdvance(i) /\ at[j] = Null
    /\ \E r \in Readings(i) :
           LET old == at[i]
               s == next([Referred(Memory, old) EXCEPT !.at[j] = old], i, r)
           IN  Becomes(IF s.thrown THEN [release([s EXCEPT !.thrown = FALSE], old, FALSE) EXCEPT !.at[j] = Null] ELSE s)
    /\ UNCHANGED <<wasted, doomed>>

DirNext ==
    \/ \E i \in Iterators :
           \/ MakeEnd(i) \/ Destroy(i) \/ Advance(i)
           \/ \E dots \in BOOLEAN : Open(i, dots)
           \/ \E fails \in BOOLEAN : Close(i, fails)
    \/ \E i, j \in Iterators :
           \/ Copy(i, j) \/ AdvanceAfter(i, j)
           \/ \E fails \in BOOLEAN : Assign(i, j, fails)

-----------------------------------------------------------------------------
Readable == {i \in Iterators : CanRead(Memory, at[i])}

(* "All copies can be dereferenced" (DirIterator.h): whatever is done with *)
(* others, an iterator shows the name it was at when it was last advanced, *)
(* until it is closed, with its copies, or changed itself.                 *)
CopiesRemember ==
    [][\A i \in Readable :
          \/ at'[i] = Null \/ \E j \in Iterators : at[j] = at[i] /\ (Close(j, TRUE) \/ Close(j, FALSE))
          \/ \E j \in Iterators : Advance(i) \/ AdvanceAfter(i, j) \/ Assign(j, i, TRUE) \/ Assign(j, i, FALSE)
          \/ (i \in Readable)' /\ Deref(Memory', i) = Deref(Memory, i)]_dirVars

(* The state is counted right, and gone with its last user; there is one   *)
(* that may be advanced for each stream that is open, but for the streams  *)
(* that exceptions left open.                                              *)
StatesCounted ==
    /\ \A d \in DOMAIN data \ doomed : data[d].m_refs = Cardinality({i \in Iterators : at[i] = d}) /\ data[d].m_refs > 0
    /\ \A dir \in DOMAIN streams :
           Cardinality({d \in DOMAIN data : data[d].m_valid /\ data[d].m_dir = dir})
           = IF streams[dir].open /\ dir \notin wasted THEN 1 ELSE 0
=============================================================================
