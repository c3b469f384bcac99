----------------------------- MODULE MCObjects ------------------------------
(***************************************************************************)
(* Objects of one program that have nothing to do with each other: each    *)
(* behaviour is about one kind of them.                                    *)
(***************************************************************************)
EXTENDS Integers, FiniteSets, TLC

CONSTANTS
    Sockets, Room, MaxEnds, MaxBytes,
    Handles, Objects, FunctionNames, Values, Reps,
    Iterators, Names, Dots, MaxStreams,
    Makers, Letters, Steps, TMP_MAX,
    Elements, MaxSize, Owners, Pointees, Low, High,
    MaxLength, Addresses, Mappings,
    Libs, Pointers, MaxLoads, HandsOff

VARIABLES
    kind,
    ends, fd, writing, child, taken, peeked, told,
    reps, rep, list, first, called,
    data, at, streams, wasted, doomed,
    temps, maker,
    vector, expected, unwind, alive, deleted, sequence, given,
    size, space, mapping, transfer,
    installed, symbol, handles, m_library, pointer

socketVars == <<ends, fd, writing, child, taken, peeked, told>>
callbackVars == <<reps, rep, list, first, called>>
dirVars == <<data, at, streams, wasted, doomed>>
tempVars == <<temps, maker>>
containerVars == <<vector, expected, unwind, alive, deleted, sequence, given>>
storageVars == <<size, space, mapping, transfer>>
autoVars == <<installed, symbol, handles, m_library, pointer>>
fileVars == <<storageVars, autoVars>>
vars == <<kind, socketVars, callbackVars, dirVars, tempVars, containerVars, fileVars>>

\* TMP_MAX increments of the clock do not come round to the same letters.
ASSUME ObjectsAssumption ==
    /\ IsFiniteSet(Handles) /\ IsFiniteSet(Iterators) /\ IsFiniteSet(Owners)
    /\ "none" \notin Handles /\ IsFiniteSet(Reps) /\ Reps \subseteq Nat \ {0}
    /\ MaxLength \in Nat /\ DOMAIN Mappings \cap {"nobody", "others"} = {}
    /\ Makers \cap {"free", "other"} = {} /\ {Letters, TMP_MAX} \subseteq Nat \ {0}
    /\ Steps \subseteq Nat /\ \A s \in Steps : TMP_MAX * s <= Letters
    /\ {Low, High} \subseteq Int /\ Low <= High /\ Values # {}

Soc == INSTANCE Socket
Cal == INSTANCE Callback
Dir == INSTANCE DirIterator
Tmp == INSTANCE TempFile
Con == INSTANCE Containers
Sto == INSTANCE Storage
Aut == INSTANCE AutoLoad

\* One FileMapping of the file and one of nothing.
MCMappings == [file |-> TRUE, anonymous |-> FALSE]

Init ==
    /\ kind \in {"socket", "callback", "iterator", "temporary", "vector", "unwind", "sequence",
                "file", "libraries"}
    /\ Soc!SocketInit /\ Cal!CallbackInit /\ Dir!DirInit /\ Tmp!TempInit
    /\ Con!VectorInit /\ Con!UnwindInit /\ Con!SequenceInit /\ Sto!StorageInit /\ Aut!AutoInit
    /\ kind # "temporary" => \A n \in DOMAIN temps : temps[n] = "free"
    /\ kind # "sequence" => sequence.m_wraps
    /\ kind # "libraries" => ~installed /\ symbol = "there" /\ \A q \in Pointers : pointer[q].lib = CHOOSE l \in Libs : TRUE

Next ==
    \/ kind = "socket" /\ Soc!SocketNext /\ UNCHANGED <<callbackVars, dirVars, tempVars, containerVars, fileVars>>
    \/ kind = "callback" /\ Cal!CallbackNext /\ UNCHANGED <<socketVars, dirVars, tempVars, containerVars, fileVars>>
    \/ kind = "iterator" /\ Dir!DirNext /\ UNCHANGED <<socketVars, callbackVars, tempVars, containerVars, fileVars>>
    \/ kind = "temporary" /\ Tmp!TempNext /\ UNCHANGED <<socketVars, callbackVars, dirVars, containerVars, fileVars>>
    \/ /\ kind \in {"vector", "unwind", "sequence"}
       /\ IF kind = "vector" THEN Con!VectorNext ELSE UNCHANGED <<vector, expected>>
       /\ IF kind = "unwind" THEN Con!UnwindNext ELSE UNCHANGED <<unwind, alive, deleted>>
       /\ IF kind = "sequence" THEN Con!SequenceNext ELSE UNCHANGED <<sequence, given>>
       /\ UNCHANGED <<socketVars, callbackVars, dirVars, tempVars, fileVars>>
    \/ /\ \/ kind = "file" /\ Sto!StorageNext /\ UNCHANGED autoVars
          \/ kind = "libraries" /\ Aut!AutoNext /\ UNCHANGED storageVars
       /\ UNCHANGED <<socketVars, callbackVars, dirVars, tempVars, containerVars>>

Spec == Init /\ [][Next /\ UNCHANGED kind]_vars

\* The objects of all kinds have the same names.
Symmetry == Permutations(Sockets)

-----------------------------------------------------------------------------
\* What is read from a connection is what was written, in order, however calls
\* are cut short; write () tells how much it sent, what was peeked at is read
\* next, and a close is seen by the other side though a child has the descriptor
\* too; every descriptor is held by one socket, waits to be accepted, or is a
\* child's (Socket.cpp read, write, peek, accept, close).
SocketsDeliver ==
    Soc!HeldOnce /\ Soc!BytesInOrder /\ Soc!WritesTold /\ Soc!PeekedIsLeft /\ Soc!EndIsSeen

\* What handles share is counted, freed with the last of them and by no other,
\* and stays as long as one refers to it: implementations of callbacks, states
\* of iterators, owned objects, loaded libraries (Callback.h:711, DirIterator.cpp
\* release, Unwind.h, AutoLoad.cpp:28).
LifetimesCounted ==
    Cal!CountsAreRight /\ Dir!StatesCounted /\ Con!OwnedOnce /\ Aut!LibrariesStay

\* Those who go on while others share what they walk over leave the others
\* where they were: hooks are called in turn until one answers that it is
\* enough, a copy of an iterator keeps its entry, and a number of a sequence
\* comes again only after wrapped () says so (HookList.h:26, DirIterator.cpp
\* steal, Sequence.h:200).
IterationsHold == Cal!ListInTurn /\ Dir!CopiesRemember /\ Con!RepeatsAreTold

\* Nobody is given a temporary file that another program made, and a call gives
\* up only after TMP_MAX names were in use, but in the first millisecond of a
\* second; a FileMapping knows the views that are mapped and no others, and a
\* transfer moves the bytes of the file in order (UnixTempFile.cpp:140, 159,
\* FileMapping.cpp unmap, close, IOChannelTransfer.cpp:18).
FilesHeld == Tmp!MadeIsOwn /\ Tmp!GivesUpLate /\ Sto!ViewsAreMapped /\ Sto!TransfersInOrder

\* A vector has every element that was put in once, in the order of where they
\* are put, which is the end for what insert () is told to put before another
\* while there is room; the relations of ranges that meet agree with the numbers
\* in them, and callbacks that compare equal call the same (PODVector.h:257,
\* insert_grow, erase, reserve; Range.h; Callback.h operator==).
ValuesAgree ==
    Con!VectorHoldsAll /\ (kind = "sequence" => Con!RangesAgree /\ Cal!EqualCallTheSame)
=============================================================================
