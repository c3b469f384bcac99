------------------------------- MODULE DirTree -------------------------------
(***************************************************************************)
(* Filename::makedir () and Filename::remove () with their recursion, in   *)
(* programs that do so in one tree at the same time: system call by system *)
(* call.                                                                   *)
(***************************************************************************)
EXTENDS Integers, Sequences, SequencesExt, FiniteSets

CONSTANTS
    Programs, Paths,    \* paths are sequences of names, with all their prefixes
    MaxCalls            \* bound: calls begun in all

VARIABLES
    tree,       \* path |-> "dir" or "file"; <<>> is the root
    call,       \* program |-> the frames of its recursion, the last one on top
    outcome,    \* program |-> how its last call ended
    disturbed,  \* history: the programs during whose call something was
                \* removed (makedir) or made (remove) by another
    begun

treeVars == <<tree, call, outcome, disturbed, begun>>

There(n) == n \in DOMAIN tree
IsDir(n) == There(n) /\ tree[n] = "dir"
Below(n) == {p \in DOMAIN tree : Len(p) = Len(n) + 1 /\ IsStrictPrefix(n, p)}
Without(n) == [p \in DOMAIN tree \ {n} |-> tree[p]]
With(n, kind) == [p \in DOMAIN tree \cup {n} |-> IF p = n THEN kind ELSE tree[p]]

TreeInit ==
    /\ tree \in UNION {[ps -> {"dir", "file"}] : ps \in {qs \cup {<<>>} : qs \in SUBSET {p \in Paths : Len(p) = 1}}}
    /\ tree[<<>>] = "dir"
    /\ call = [p \in Programs |-> <<>>] /\ outcome = [p \in Programs |-> "none"]
    /\ disturbed = {} /\ begun = 0

Top(p) == Last(call[p])
Doing(p) == IF call[p] = <<>> THEN "nothing" ELSE call[p][1].what
Replaced(p, frame) == Append(Front(call[p]), frame)

\* A frame returns, or throws all the way out - to what catches it.
Returned(p) ==
    IF Len(call[p]) = 1 THEN call' = [call EXCEPT ![p] = <<>>] /\ outcome' = [outcome EXCEPT ![p] = "done"]
    ELSE call' = [call EXCEPT ![p] = Front(@)] /\ UNCHANGED outcome

\* remove () with force catches what comes out of the walk over the entries, and
\* goes on to remove the directory itself.
Catchers(p) == {k \in 1..Len(call[p]) - 1 : call[p][k].what = "remove" /\ call[p][k].force}
Thrown(p) ==
    IF Catchers(p) = {} THEN call' = [call EXCEPT ![p] = <<>>] /\ outcome' = [outcome EXCEPT ![p] = "threw"]
    ELSE LET k == CHOOSE k \in Catchers(p) : \A l \in Catchers(p) : l <= k
         IN  /\ call' = [call EXCEPT ![p] = Append(SubSeq(@, 1, k - 1), [@[k] EXCEPT !.left = {}])]
             /\ UNCHANGED outcome

Made(p) == disturbed' = disturbed \cup {q \in Programs \ {p} : Doing(q) = "remove"}
Removed(p) == disturbed' = disturbed \cup {q \in Programs \ {p} : Doing(q) = "make"}

Begin(p, frame) ==
    /\ call[p] = <<>> /\ begun < MaxCalls
    /\ call' = [call EXCEPT ![p] = <<frame>>] /\ begun' = begun + 1
    /\ outcome' = [outcome EXCEPT ![p] = "none"]
    /\ disturbed' = (disturbed \ {p}) \cup {q \in {p} : \E o \in Programs \ {p} : Doing(o) \notin {"nothing", frame.what}}
    /\ UNCHANGED tree

\* With recursion what is there already is all right.
MakeFrame(n, recursive, allowExisting) ==
    [what |-> "make", name |-> n, recursive |-> recursive, allowExisting |-> recursive \/ allowExisting,
     pc |-> "mkdir", again |-> FALSE]
RemoveFrame(n, recursive, force) ==
    [what |-> "remove", name |-> n, recursive |-> recursive, force |-> force, pc |-> "try", left |-> {}]

-----------------------------------------------------------------------------
\* After mkdir (): if the directory may be there, it is looked for; if it is not,
\* the parent is made and mkdir () tried again, once.
MkdirFailed(p, f) == IF f.allowExisting THEN "stat" ELSE "throw"

\* domakedir (): mkdir ().
Mkdir(p) ==
    LET f == Top(p) IN
    /\ Doing(p) = "make" /\ f.pc = "mkdir"
    /\ IF ~There(f.name) /\ IsDir(Front(f.name))
       THEN tree' = With(f.name, "dir") /\ Returned(p) /\ Made(p)
       ELSE /\ UNCHANGED <<tree, disturbed>>
            /\ IF MkdirFailed(p, f) = "throw" THEN Thrown(p)
               ELSE /\ call' = [call EXCEPT ![p] = Replaced(p, [f EXCEPT !.pc = MkdirFailed(p, f)])]
                    /\ UNCHANGED outcome
    /\ UNCHANGED begun

\* A mutant of MayStay: a file is taken for the directory.
MayStayAny(n) == There(n)

MayStay(n) == IsDir(n)

\* domakedir (): stat (), if what is there may stay.
Stat(p) ==
    LET f == Top(p) IN
    /\ Doing(p) = "make" /\ f.pc = "stat"
    /\ CASE MayStay(f.name) -> Returned(p)
         [] ~MayStay(f.name) /\ (f.again \/ ~f.recursive) -> Thrown(p)
         [] OTHER ->
                /\ call' = [call EXCEPT ![p] = Replaced(p, [f EXCEPT !.pc = "up"])]
                /\ UNCHANGED outcome
    /\ UNCHANGED <<tree, disturbed, begun>>

\* A mutant of Retried: as if it were the first time.
RetriedAnew(f) == [f EXCEPT !.pc = "mkdir"]

Retried(f) == [f EXCEPT !.pc = "mkdir", !.again = TRUE]

\* The directory above is made first, if there is one: a name right under the
\* root has none.
Up(p) ==
    LET f == Top(p) IN
    /\ Doing(p) = "make" /\ f.pc = "up"
    /\ IF Len(f.name) = 1 THEN Thrown(p)
       ELSE call' = [call EXCEPT ![p] = Append(Replaced(p, Retried(f)), MakeFrame(Front(f.name), TRUE, TRUE))] /\ UNCHANGED outcome
    /\ UNCHANGED <<tree, disturbed, begun>>

-----------------------------------------------------------------------------
\* doremove (): a file or an empty directory goes.  With force and without
\* recursion it does not matter whether it went.
Removable(n) == There(n) /\ Below(n) = {}

Doremove(p) ==
    LET f == Top(p) IN
    /\ Doing(p) = "remove" /\ f.pc \in {"try", "last"}
    /\ IF Removable(f.name) THEN tree' = Without(f.name) /\ Removed(p) ELSE UNCHANGED <<tree, disturbed>>
    /\ CASE Removable(f.name) \/ (f.pc = "try" /\ f.force /\ ~f.recursive) -> Returned(p)
         [] ~Removable(f.name) /\ (f.pc = "last" \/ (~f.recursive /\ ~f.force)) -> Thrown(p)
         [] OTHER ->
                /\ call' = [call EXCEPT ![p] = Replaced(p, [f EXCEPT !.pc = "open"])]
                /\ UNCHANGED outcome
    /\ UNCHANGED begun

\* The iterator over the entries; what is no directory cannot be opened.
OpenDir(p) ==
    LET f == Top(p) IN
    /\ Doing(p) = "remove" /\ f.pc = "open"
    /\ CASE IsDir(f.name) ->
                /\ call' = [call EXCEPT ![p] = Replaced(p, [f EXCEPT !.pc = "walk", !.left = Below(f.name)])]
                /\ UNCHANGED outcome
         [] ~IsDir(f.name) /\ f.force ->
                /\ call' = [call EXCEPT ![p] = Replaced(p, [f EXCEPT !.pc = "last"])]
                /\ UNCHANGED outcome
         [] OTHER -> Thrown(p)
    /\ UNCHANGED <<tree, disturbed, begun>>

Entered(f, n) == RemoveFrame(n, f.recursive, f.force)

\* The next entry, in any order, or the directory itself.
WalkOn(p) ==
    LET f == Top(p) IN
    /\ Doing(p) = "remove" /\ f.pc = "walk"
    /\ IF f.left = {} THEN call' = [call EXCEPT ![p] = Replaced(p, [f EXCEPT !.pc = "last"])]
       ELSE \E n \in f.left :
                call' = [call EXCEPT ![p] = Append(Replaced(p, [f EXCEPT !.left = @ \ {n}]), Entered(f, n))]
    /\ UNCHANGED <<tree, outcome, disturbed, begun>>

\* A program makes a file.
Touch(p, n) ==
    /\ call[p] = <<>> /\ ~There(n) /\ IsDir(Front(n)) /\ begun < MaxCalls
    /\ tree' = With(n, "file") /\ Made(p) /\ begun' = begun + 1
    /\ UNCHANGED <<call, outcome>>

TreeStep(p) == Mkdir(p) \/ Stat(p) \/ Up(p) \/ Doremove(p) \/ OpenDir(p) \/ WalkOn(p)

TreeNext ==
    \E p \in Programs :
        \/ TreeStep(p)
        \/ \E n \in Paths :
               \/ Touch(p, n)
               \/ \E r, b \in BOOLEAN : Begin(p, MakeFrame(n, r, b)) \/ Begin(p, RemoveFrame(n, r, b))

-----------------------------------------------------------------------------
(* What was asked for is there or gone when a call returns, unless another *)
(* took it away or put something there meanwhile - but remove () with      *)
(* force and without recursion ignores all errors (Filename.cpp makedir,   *)
(* remove).                                                                *)
DoneIsDone ==
    [][\A p \in Programs : LET f == call[p][1] IN
          call[p] # <<>> /\ call'[p] = <<>> /\ outcome'[p] = "done" /\ p \notin disturbed' =>
              /\ f.what = "make" => f.name \in DOMAIN tree' /\ tree'[f.name] = "dir"
              /\ f.what = "remove" /\ (f.recursive \/ ~f.force) => f.name \notin DOMAIN tree']_treeVars

(* Programs that make directories do not get into each other's way: a      *)
(* recursive makedir () throws only if a file is in the way or something   *)
(* was removed (Filename.cpp makedir, UnixFilename.cpp domakedir).         *)
MakersAgree ==
    [][\A p \in Programs : LET f == call[p][1] IN
          call[p] # <<>> /\ f.what = "make" /\ f.recursive /\ call'[p] = <<>> /\ outcome'[p] = "threw" =>
              p \in disturbed \/ \E n \in DOMAIN tree : IsPrefix(n, f.name) /\ tree[n] = "file"]_treeVars

(* Every call returns or throws.                                           *)
TreeCallsEnd == \A p \in Programs : (call[p] # <<>>) ~> (call[p] = <<>>)
=============================================================================
