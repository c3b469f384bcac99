----------------------------- MODULE FileObject -----------------------------
(***************************************************************************)
(* File objects and the descriptors they hold: which of them closes which, *)
(* when objects are opened again, attached, duplicated with and without    *)
(* their descriptor, given to a FileMapping and destroyed, while the rest  *)
(* of the program opens and closes descriptors of its own and close () and *)
(* open () may fail.                                                       *)
(***************************************************************************)
EXTENDS Integers, FiniteSets, FiniteSetsExt

CONSTANTS
    Files,              \* the places for File objects
    LastNumber,         \* descriptors are 0 to LastNumber
    MaxOpened,          \* descriptions opened in all
    FileRules           \* the rules the client keeps: of "only owners close", "adopt nobody's",
                        \* "close before attach", "copy owners only", "close works"

VARIABLES
    table,              \* number |-> the description it stands for, or Shut
    opened,             \* the number of descriptions opened so far
    file,               \* place |-> [alive, fd, auto, desc, mapped]
    theirs,             \* descriptions the client is to close
    wrong               \* an object has closed a description of somebody else

fileObjVars == <<table, opened, file, theirs, wrong>>

Shut   == 0
IOFD_INVALID == -1
FdNumbers == 0..LastNumber

\* "desc" is the description the object was given with its number.
Gone == [alive |-> FALSE, fd |-> IOFD_INVALID, auto |-> FALSE, desc |-> Shut, mapped |-> FALSE]
With(n, auto, d) == [alive |-> TRUE, fd |-> n, auto |-> auto, desc |-> d, mapped |-> FALSE]
Blank == With(IOFD_INVALID, FALSE, Shut)

FileObjInit ==
    /\ table = [n \in FdNumbers |-> Shut] /\ opened = 0
    /\ file = [f \in Files |-> Gone] /\ theirs = {} /\ wrong = FALSE

-----------------------------------------------------------------------------
FreeFds == {n \in FdNumbers : table[n] = Shut}
Owners(d) == {f \in Files : file[f].alive /\ file[f].auto /\ file[f].desc = d}
FRule(r, holds) == r \in FileRules => holds
Held(f) == file[f].alive /\ file[f].fd # IOFD_INVALID

\* The system's open () and dup (): a new description at the lowest number.
Opens(t) == [t EXCEPT ![Min({n \in FdNumbers : t[n] = Shut})] = opened + 1]

\* The system's close (); also one that fails has closed the number.
SysClosed(f) == [table EXCEPT ![file[f].fd] = Shut]
Mistaken(f) == wrong' = (wrong \/ table[file[f].fd] \notin {file[f].desc, Shut}
                               \/ Owners(file[f].desc) \notin {{}, {f}})

\* The constructors: without a descriptor, or with one the client has.
Construct(f) ==
    /\ ~file[f].alive /\ file' = [file EXCEPT ![f] = Blank]
    /\ UNCHANGED <<table, opened, theirs, wrong>>

ConstructWith(f, n, auto) ==
    /\ ~file[f].alive /\ table[n] \in theirs
    /\ file' = [file EXCEPT ![f] = With(n, auto, table[n])]
    /\ theirs' = IF auto THEN theirs \ {table[n]} ELSE theirs
    /\ UNCHANGED <<table, opened, wrong>>

ClosesFirst(f) == file[f].fd # IOFD_INVALID /\ file[f].auto

\* open (): what the object owns is closed first, also when the open () fails.
Open(f, works) ==
    /\ file[f].alive /\ ~file[f].mapped /\ (works => opened < MaxOpened)
    /\ LET t == IF ClosesFirst(f) THEN SysClosed(f) ELSE table IN
       /\ IF ClosesFirst(f) THEN Mistaken(f) ELSE UNCHANGED wrong
       /\ IF works
          THEN /\ \E n \in FdNumbers : t[n] = Shut
               /\ table' = Opens(t) /\ opened' = opened + 1
               /\ file' = [file EXCEPT ![f] = With(Min({n \in FdNumbers : t[n] = Shut}), TRUE, opened + 1)]
          ELSE /\ table' = t /\ UNCHANGED opened
               /\ file' = IF ClosesFirst(f) THEN [file EXCEPT ![f] = Blank] ELSE file
    /\ UNCHANGED theirs

\* attach (): the number the object had is forgotten.
Attach(f, n) ==
    /\ file[f].alive /\ ~file[f].mapped /\ table[n] \in theirs
    /\ FRule("close before attach", ~(Held(f) /\ file[f].auto))
    /\ file' = [file EXCEPT ![f] = With(n, FALSE, table[n])]
    /\ UNCHANGED <<table, opened, theirs, wrong>>

SetAutoClose(f, auto) ==
    /\ Held(f) /\ ~file[f].mapped /\ file[f].auto # auto
    /\ FRule("adopt nobody's", auto => file[f].desc \in theirs)
    /\ file' = [file EXCEPT ![f].auto = auto]
    /\ theirs' = IF auto THEN theirs \ {file[f].desc} ELSE theirs \cup {file[f].desc}
    /\ UNCHANGED <<table, opened, wrong>>

\* A mutant of Copied: the copy closes the descriptor it shares as well.
CopiedOwns(f) == With(file[f].fd, file[f].auto, file[f].desc)

\* duplicate (false): the copy closes nothing.
Copied(f) == With(file[f].fd, FALSE, file[f].desc)

Duplicate(f, g, copy) ==
    /\ Held(f) /\ ~file[g].alive
    /\ copy => opened < MaxOpened /\ FreeFds # {} /\ FRule("copy owners only", file[f].auto)
    /\ IF copy
       THEN /\ table' = Opens(table) /\ opened' = opened + 1
            /\ file' = [file EXCEPT ![g] = With(Min(FreeFds), file[f].auto, opened + 1)]
       ELSE /\ file' = [file EXCEPT ![g] = Copied(f)] /\ UNCHANGED <<table, opened>>
    /\ UNCHANGED <<theirs, wrong>>

\* close (): a close () of the system that fails leaves the object as it was.
Close(f, works) ==
    /\ Held(f) /\ ~file[f].mapped /\ FRule("only owners close", file[f].auto)
    /\ FRule("close works", works)
    /\ table' = SysClosed(f) /\ Mistaken(f)
    /\ file' = IF works THEN [file EXCEPT ![f] = Blank] ELSE file
    /\ UNCHANGED <<opened, theirs>>

Abort(f) ==
    /\ Held(f) /\ ~file[f].mapped /\ FRule("only owners close", file[f].auto)
    /\ table' = SysClosed(f) /\ Mistaken(f)
    /\ file' = [file EXCEPT ![f] = Blank]
    /\ UNCHANGED <<opened, theirs>>

\* The destructor, called by the client or by the FileMapping that has the file.
Destroy(f) ==
    /\ file[f].alive
    /\ IF Held(f) /\ file[f].auto THEN table' = SysClosed(f) /\ Mistaken(f) ELSE UNCHANGED <<table, wrong>>
    /\ file' = [file EXCEPT ![f] = Gone]
    /\ UNCHANGED <<opened, theirs>>

\* A FileMapping takes the file; its close () destroys it.
Map(f) ==
    /\ Held(f) /\ ~file[f].mapped /\ file' = [file EXCEPT ![f].mapped = TRUE]
    /\ UNCHANGED <<table, opened, theirs, wrong>>

\* The rest of the program opens and closes what is its own.
TheyOpen ==
    /\ opened < MaxOpened /\ FreeFds # {}
    /\ table' = Opens(table) /\ opened' = opened + 1 /\ theirs' = theirs \cup {opened + 1}
    /\ UNCHANGED <<file, wrong>>
TheyClose(n) ==
    /\ table[n] \in theirs /\ table' = [table EXCEPT ![n] = Shut] /\ theirs' = theirs \ {table[n]}
    /\ UNCHANGED <<opened, file, wrong>>

FileObjNext ==
    \/ TheyOpen \/ \E n \in FdNumbers : TheyClose(n)
    \/ \E f \in Files :
          \/ Construct(f) \/ Abort(f) \/ Destroy(f) \/ Map(f)
          \/ \E works \in BOOLEAN : Open(f, works) \/ Close(f, works)
          \/ \E n \in FdNumbers, auto \in BOOLEAN : ConstructWith(f, n, auto)
          \/ \E n \in FdNumbers : Attach(f, n)
          \/ \E auto \in BOOLEAN : SetAutoClose(f, auto)
          \/ \E g \in Files, copy \in BOOLEAN : Duplicate(f, g, copy)

-----------------------------------------------------------------------------
\* No object closes a description that is not, or not only, its own: one that
\* has come to bear the number later, or that another object closes as well
\* (File::open, close, abort and ~File).
ClosesItsOwn == ~wrong

\* A description that the library opened stays in the hands of an object that
\* closes it or of the client (File::open, duplicate, attach).
NothingLeaks == \A n \in FdNumbers : table[n] # Shut => table[n] \in theirs \/ Owners(table[n]) # {}

\* An object that is to close its descriptor has one that is open.
OwnersAreOpen == \A f \in Files : file[f].alive /\ file[f].auto => file[f].fd # IOFD_INVALID /\ table[file[f].fd] = file[f].desc
=============================================================================
