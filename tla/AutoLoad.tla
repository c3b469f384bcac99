------------------------------ MODULE AutoLoad ------------------------------
(***************************************************************************)
(* SharedLibrary objects, the AutoLoadLib objects that load a library when *)
(* it is first needed, and the AutoLoad pointers that look up a symbol in  *)
(* it when they are first used; the library may turn up late, and the      *)
(* program may load, release and abandon it by itself.                     *)
(***************************************************************************)
EXTENDS Integers, Sequences, FiniteSets

CONSTANTS
    Libs, Pointers,     \* AutoLoadLib objects, AutoLoad objects
    MaxLoads,           \* bound: SharedLibrary objects made
    HandsOff            \* the client leaves what library () gives it alone

VARIABLES
    installed,          \* the loader finds the library
    symbol,             \* what it has: "there", "null" or "missing"
    handles,            \* the SharedLibrary objects made so far: [by, is]
    m_library,          \* AutoLoadLib |-> its handle, or None
    pointer             \* AutoLoad |-> [lib, found]

autoVars == <<installed, symbol, handles, m_library, pointer>>

None == 0
AutoInit ==
    /\ installed \in BOOLEAN /\ symbol \in {"there", "null", "missing"} /\ handles = <<>>
    /\ m_library = [l \in Libs |-> None]
    /\ pointer \in [Pointers -> [lib : Libs, found : {FALSE}]]

-----------------------------------------------------------------------------
\* dlopen () counts, dlclose () counts down; abandon () does not.
Holding == {i \in DOMAIN handles : handles[i].is # "released"}
InMemory == Holding # {}

Loaded(by) == Append(handles, [by |-> by, is |-> "held"])

\* self () and load (), by the client.
Load ==
    /\ installed /\ Len(handles) < MaxLoads /\ handles' = Loaded("client")
    /\ UNCHANGED <<installed, symbol, m_library, pointer>>

\* release () and abandon (), after which there is no object.
Give(i, how) ==
    /\ handles[i].is = "held" /\ (HandsOff => handles[i].by = "client")
    /\ handles' = [handles EXCEPT ![i].is = how]
    /\ UNCHANGED <<installed, symbol, m_library, pointer>>

NeedsLoading(l) == m_library[l] = None

\* library (), which throws if the library cannot be loaded.
Available(l) == ~NeedsLoading(l) \/ installed
UseLibrary(l) ==
    IF NeedsLoading(l) /\ installed
    THEN /\ Len(handles) < MaxLoads /\ handles' = Loaded("auto")
         /\ m_library' = [m_library EXCEPT ![l] = Len(handles) + 1]
    ELSE UNCHANGED <<handles, m_library>>

\* library () and exists () of an AutoLoadLib, and a copy made of one.
Library(l) == UseLibrary(l) /\ UNCHANGED <<installed, symbol, pointer>>
Copy(l, k) == m_library' = [m_library EXCEPT ![k] = m_library[l]] /\ UNCHANGED <<installed, symbol, handles, pointer>>

\* data () and function () of the library, whose symbols may be at address zero;
\* those of AutoLoadLib take that for a failure.
Looked == IF symbol = "missing" THEN "throws" ELSE symbol
Finds(p) == Available(pointer[p].lib) /\ Looked = "there"

\* operator* and exists () of an AutoLoad.
Resolve(p) ==
    /\ ~pointer[p].found /\ UseLibrary(pointer[p].lib)
    /\ pointer' = [pointer EXCEPT ![p].found = Finds(p)]
    /\ UNCHANGED <<installed, symbol>>

Install == ~installed /\ installed' = TRUE /\ UNCHANGED <<symbol, handles, m_library, pointer>>

AutoNext ==
    \/ Load \/ Install
    \/ \E i \in DOMAIN handles, how \in {"released", "abandoned"} : Give(i, how)
    \/ \E l \in Libs : Library(l) \/ \E k \in Libs \ {l} : m_library[k] = None /\ Copy(l, k)
    \/ \E p \in Pointers : Resolve(p)

-----------------------------------------------------------------------------
\* A pointer that was found points into a library that is in memory, whatever
\* the program releases of its own; an AutoLoadLib has an object that is there,
\* and none it has loaded is out of its reach (AutoLoad.cpp library, AutoLoad.h
\* loadme, SharedLibrary.cpp release).
LibrariesStay ==
    /\ \A p \in Pointers : pointer[p].found => InMemory /\ m_library[pointer[p].lib] # None
    /\ \A l \in Libs : m_library[l] # None => handles[m_library[l]].is = "held"
    /\ \A i \in DOMAIN handles : handles[i].by = "auto" => \E l \in Libs : m_library[l] = i
=============================================================================
