----------------------------- MODULE MCPrograms -----------------------------
(***************************************************************************)
(* Programs that meet in the file system: over the lock for a name, or in  *)
(* a tree of directories that they make and remove.                        *)
(***************************************************************************)
EXTENDS FileNameLock

CONSTANTS p, q, r, here, there, Paths, MaxCalls

VARIABLES part, tree, call, outcome, disturbed, begun

treeVars == <<tree, call, outcome, disturbed, begun>>
Tree == INSTANCE DirTree WITH Programs <- {p, q}

\* Three processes on one host; two on one host and one elsewhere.
Self == [x \in {p, q, r} |-> x]
OneHost == [x \in {p, q, r} |-> here]
TwoHosts == [x \in {p, q, r} |-> IF x = r THEN there ELSE here]

MCPaths == {<<"a">>, <<"a", "b">>, <<"a", "b", "c">>, <<"a", "d">>}

MCInit ==
    /\ part \in {"lock", "tree"}
    /\ Init /\ Tree!TreeInit
    /\ part = "lock" => DOMAIN tree = {<<>>}
    /\ part = "tree" => link = NoLink /\ pid = [x \in Procs |-> IF x = p THEN 1 ELSE IF x = q THEN 2 ELSE CHOOSE n \in Pids : HostOf[r] = here => n > 2]

Locks == part = "lock" /\ Next /\ UNCHANGED <<part, treeVars>>
Trees == part = "tree" /\ Tree!TreeNext /\ UNCHANGED <<part, vars>>

\* Every process that is inside a call goes on with it.
MCSpec ==
    /\ MCInit /\ [][Locks \/ Trees]_<<part, vars, treeVars>>
    /\ \A o \in Objects : WF_vars(Step(o))
    /\ \A x \in {p, q} : WF_treeVars(Tree!TreeStep(x))

-----------------------------------------------------------------------------
\* The lock is what it is for: at most one object relies on it, the link names
\* that one, and the variables keep their types (FileNameLock.cpp tryLock,
\* locker, unlock).
LockHeld == TypeOK /\ MutualExclusion /\ HolderIsNamed

\* What makedir () and remove () report as done is done, unless another program
\* undid it, and programs that make directories do not get into each other's way
\* (Filename.cpp:1379, 1425).
TreesAgree == Tree!DoneIsDone /\ Tree!MakersAgree

\* Every call on the lock and on the tree returns or throws (FileNameLock.cpp:335,
\* Filename.cpp makedir, remove).
CallsEnd == CallsReturn /\ Tree!TreeCallsEnd
=============================================================================
