------------------------------ MODULE FileLock ------------------------------
(***************************************************************************)
(* FileLock: advisory locks on regions of one file through fcntl ().  The  *)
(* kernel keeps them per process and byte, not per FileLock object.  A     *)
(* region is the set of bytes it covers; the file stays open.              *)
(***************************************************************************)
EXTENDS Integers, FiniteSets

CONSTANTS
    Objects, Procs,
    ProcOf,         \* the process of each object
    Bytes,          \* the bytes of the file that matter
    Disjoint        \* the rule that the objects of a process lock no byte twice

VARIABLES
    table,      \* the kernel's locks: per process and byte
    region,     \* m_file, m_offset, m_length: {} while m_file is null
    holds,      \* history: lock () returned and unlock () was not called
    want,       \* the lock () call that blocks in fcntl (), if any
    failed      \* an ASSERT failed

vars == <<table, region, holds, want, failed>>

Regions == {r \in SUBSET Bytes : r # {} /\
                \A a, b \in r : \A x \in Bytes : a <= x /\ x <= b => x \in r}
NoWant == [write |-> FALSE, wait |-> FALSE, blocked |-> FALSE]

TypeOK ==
    /\ table \in [Procs -> [Bytes -> {"none", "read", "write"}]]
    /\ region \in [Objects -> Regions \cup {{}}]
    /\ holds \in [Objects -> BOOLEAN]
    /\ want \in [Objects -> [write : BOOLEAN, wait : BOOLEAN, blocked : BOOLEAN]]
    /\ failed \in BOOLEAN

Init ==
    /\ table = [p \in Procs |-> [x \in Bytes |-> "none"]]
    /\ region = [o \in Objects |-> {}]
    /\ holds = [o \in Objects |-> FALSE]
    /\ want = [o \in Objects |-> NoWant]
    /\ failed = FALSE

-----------------------------------------------------------------------------
(* The kernel.                                                             *)

Others(o) == Procs \ {ProcOf[o]}

Conflict(o, r, write) ==
    \E p \in Others(o), x \in r :
        table[p][x] = "write" \/ (write /\ table[p][x] = "read")

\* F_SETLK and F_SETLKW, once granted, replace what the process had there.
SetLock(o, r, kind) ==
    table' = [table EXCEPT ![ProcOf[o]] =
                  [x \in Bytes |-> IF x \in r THEN kind ELSE @[x]]]

-----------------------------------------------------------------------------
Running(o) ==
    /\ ~failed
    /\ \A q \in Objects : ProcOf[q] = ProcOf[o] => ~want[q].blocked

Granted(o, r, write) ==
    /\ SetLock(o, r, IF write THEN "write" ELSE "read")
    /\ holds' = [holds EXCEPT ![o] = TRUE]
    /\ want' = [want EXCEPT ![o] = NoWant]

\* fcntl () failed and FileError is thrown: the region stays recorded.
Refused(o) ==
    /\ want' = [want EXCEPT ![o] = NoWant]
    /\ UNCHANGED <<table, holds>>

\* lock (file, region, write, wait): "wait ? F_SETLK : F_SETLKW" - so that the
\* call that is to wait is the one that fails.
Lock(o, r, write, wait) ==
    /\ Running(o)
    /\ Disjoint => \A q \in Objects \ {o} :
           ProcOf[q] = ProcOf[o] => region[q] \cap r = {}
    /\ \/ /\ region[o] # {}
          /\ failed' = TRUE
          /\ UNCHANGED <<table, region, holds, want>>
       \/ /\ region[o] = {}
          /\ region' = [region EXCEPT ![o] = r]
          /\ \/ ~Conflict(o, r, write) /\ Granted(o, r, write)
             \/ Conflict(o, r, write) /\ wait /\ Refused(o)
             \/ /\ Conflict(o, r, write) /\ ~wait
                /\ want' = [want EXCEPT ![o] =
                                [write |-> write, wait |-> wait, blocked |-> TRUE]]
                /\ UNCHANGED <<table, holds>>
          /\ UNCHANGED failed

\* A mutant of Wake: an interrupted call counts as granted.
WakeGrants(o) ==
    /\ ~failed
    /\ want[o].blocked
    /\ Granted(o, region[o], want[o].write)
    /\ UNCHANGED <<region, failed>>

\* A blocked F_SETLKW is granted, or ends with EINTR or EDEADLK.
Wake(o) ==
    /\ ~failed
    /\ want[o].blocked
    /\ \/ ~Conflict(o, region[o], want[o].write) /\ Granted(o, region[o], want[o].write)
       \/ Refused(o)
    /\ UNCHANGED <<region, failed>>

\* unlock (): the region goes back to the kernel for the whole process.
Unlock(o) ==
    /\ Running(o)
    /\ \/ region[o] = {} /\ failed' = TRUE /\ UNCHANGED <<table, region, holds>>
       \/ /\ region[o] # {}
          /\ SetLock(o, region[o], "none")
          /\ region' = [region EXCEPT ![o] = {}]
          /\ holds' = [holds EXCEPT ![o] = FALSE]
          /\ UNCHANGED failed
    /\ UNCHANGED want

\* ~FileLock (), and another object in its place.
Destroy(o) ==
    /\ Running(o)
    /\ region[o] # {}
    /\ SetLock(o, region[o], "none")
    /\ region' = [region EXCEPT ![o] = {}]
    /\ holds' = [holds EXCEPT ![o] = FALSE]
    /\ UNCHANGED <<want, failed>>

Next ==
    \/ \E o \in Objects, r \in Regions, write, wait \in BOOLEAN :
           Lock(o, r, write, wait)
    \/ \E o \in Objects : Unlock(o) \/ Destroy(o) \/ Wake(o)

Spec == Init /\ [][Next]_vars

-----------------------------------------------------------------------------
(* An object whose lock () returned has its whole region locked in the     *)
(* kernel until it unlocks: nothing another object does gives it back.     *)
HolderHasRegion ==
    \A o \in Objects : holds[o] =>
        \A x \in region[o] : table[ProcOf[o]][x] # "none"

(* No two processes work on a byte that one of them has for writing.       *)
Exclusion ==
    \A o, q \in Objects : holds[o] /\ holds[q] /\ ProcOf[o] # ProcOf[q] =>
        \A x \in region[o] \cap region[q] :
            table[ProcOf[o]][x] = "read" /\ table[ProcOf[q]][x] = "read"
=============================================================================
