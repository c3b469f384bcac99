------------------------------ MODULE TempFile -------------------------------
(***************************************************************************)
(* TempFile, and the domktemp () it falls back on where the system has no  *)
(* mkstemp ().  Several programs make temporary files, directories or just *)
(* names in one directory and clean up behind themselves.                  *)
(***************************************************************************)
EXTENDS Integers, FiniteSets

CONSTANTS
    Makers,         \* the programs
    Letters,        \* how many names the six letters can give
    Steps,          \* what (usecs >> 10) & 0xfff may be
    TMP_MAX

VARIABLES
    temps,          \* name |-> the maker of what has it, "free" or "other"
    maker           \* program |-> the call it is in and what came of it

tempVars == <<temps, maker>>

Codes == 0..Letters - 1
Idle == [pc |-> "idle", mode |-> "none", randnum |-> 0, step |-> 0, tries |-> 0, tried |-> {}]

TempInit ==
    /\ temps \in [Codes -> {"free", "other"}]
    /\ maker = [m \in Makers |-> Idle]

\* The directory the name is in is looked for first, unless just a name is
\* wanted; the letters come from the clock and the process id.
Start(m, mode, randnum, step) ==
    /\ maker[m].pc = "idle"
    /\ maker' = [maker EXCEPT ![m] = [Idle EXCEPT !.pc = "try", !.mode = mode, !.randnum = randnum, !.step = step]]
    /\ UNCHANGED temps

\* stat () says that there is no such directory.
NoDirectory(m) ==
    /\ maker[m].pc = "try" /\ maker[m].tries = 0 /\ maker[m].mode # "name"
    /\ maker' = [maker EXCEPT ![m].pc = "failed"]
    /\ UNCHANGED temps

Another(c) ==
    [c EXCEPT !.tries = @ + 1, !.tried = @ \cup {c.randnum},
              !.randnum = (@ + c.step) % Letters, !.pc = IF c.tries + 1 = TMP_MAX THEN "exists" ELSE "try"]

\* A mutant of MayCreate: without O_EXCL.
MayCreateAny(n) == TRUE

MayCreate(n) == temps[n] = "free"

\* open () with O_EXCL or mkdir (), which can fail for other reasons too.
Create(m) ==
    LET c == maker[m] IN
    /\ c.pc = "try" /\ c.mode # "name"
    /\ \/ /\ MayCreate(c.randnum)
          /\ temps' = [temps EXCEPT ![c.randnum] = m]
          /\ maker' = [maker EXCEPT ![m].pc = "done"]
       \/ /\ ~MayCreate(c.randnum) /\ UNCHANGED temps
          /\ maker' = [maker EXCEPT ![m] = Another(c)]
       \/ maker' = [maker EXCEPT ![m].pc = "failed"] /\ UNCHANGED temps

\* mktemp (): the name is free when lstat () looks.
Look(m) ==
    LET c == maker[m] IN
    /\ c.pc = "try" /\ c.mode = "name"
    /\ maker' = [maker EXCEPT ![m] = IF temps[c.randnum] = "free" THEN [c EXCEPT !.pc = "done"] ELSE Another(c)]
    /\ UNCHANGED temps

\* The end of file () or dir (): with a File or a name, or with an exception;
\* what was made is removed some time.
Finish(m) ==
    /\ maker[m].pc \in {"done", "failed", "exists"}
    /\ maker' = [maker EXCEPT ![m] = Idle]
    /\ temps' = [n \in Codes |-> IF temps[n] = m THEN "free" ELSE temps[n]]

\* Other programs come and go with names of their own.
OthersChange(n) ==
    /\ temps[n] \in {"free", "other"}
    /\ temps' = [temps EXCEPT ![n] = IF @ = "free" THEN "other" ELSE "free"]
    /\ UNCHANGED maker

TempNext ==
    \/ \E m \in Makers :
           \/ NoDirectory(m) \/ Create(m) \/ Look(m) \/ Finish(m)
           \/ \E mode \in {"file", "dir", "name"}, r \in Codes, step \in Steps : Start(m, mode, r, step)
    \/ \E n \in Codes : OthersChange(n)

-----------------------------------------------------------------------------
(* A file or directory that file () or dir () made is its maker's alone.   *)
MadeIsOwn ==
    \A m \in Makers : maker[m].pc = "done" /\ maker[m].mode # "name" => temps[maker[m].randnum] = m

(* A call gives up for want of a free name only after as many names as     *)
(* TMP_MAX says were in use - unless the clock stood at the first          *)
(* millisecond of a second, when it tries one name TMP_MAX times.          *)
GivesUpLate ==
    \A m \in Makers :
        maker[m].pc = "exists" /\ maker[m].step # 0 => Cardinality(maker[m].tried) = TMP_MAX
=============================================================================
