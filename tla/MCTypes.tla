------------------------------ MODULE MCTypes ------------------------------
(***************************************************************************)
(* Two methods, of one and of two arguments, over classes that come and go *)
(* with their libraries: z derives from x, w from z, from u and (again)    *)
(* from x, and one more library has its own copy of z.                     *)
(***************************************************************************)
EXTENDS MultiMethod

CONSTANTS Functions, MaxKeys, MaxFunctions

MCTypes == {"x", "u", "z", "w", "copy"}
MCName == [t \in MCTypes |-> IF t = "copy" THEN "z" ELSE t]
MCDeclared == [t \in MCTypes |-> CASE t \in {"z", "copy"} -> <<"x">> [] t = "w" -> <<"z", "u", "x">> [] OTHER -> <<>>]
\* The classes of test/utils/XTypeInfo01.cpp, where w has x in front of z.
MCJoined == [MCDeclared EXCEPT !["w"] = <<"x", "z">>]
MCMethods == {"one", "two"}
MCFormals == [m \in MCMethods |-> IF m = "one" THEN <<"x">> ELSE <<"x", "u">>]
MCFunctions == [m \in MCMethods |-> IF m = "one" THEN {<<"z">>}
                                    ELSE {<<"x", "u">>, <<"x", "w">>, <<"z", "u">>}]

\* The library with z or its copy needs the ones with x and with u.
Needs(t) == CASE t \in {"z", "copy"} -> {"x", "u"} [] t = "w" -> {"z"} [] OTHER -> {}

vars == <<typeVars, methodVars>>

Init == InitTypes /\ InitMethods

Living == {m \in Methods : method[m].key # 0}
Arguments(function) == {function[f] : f \in DOMAIN function}

\* A library is loaded after the ones it needs and unloaded before them; its
\* functions are gone then.  Two copies of a type are used in no method (the
\* second copy would become the type of the first one's definition), and the
\* copy that came first goes last.
Loading(t) ==
    /\ Needs(t) \subseteq Registered
    /\ (\E u \in Registered : Name[u] = Name[t]) => Living = {}
    /\ Load(t)

Unloading(t) ==
    /\ \A u \in Registered : t \notin Needs(u)
    /\ IsOldest(t) => IsLast(t)
    /\ \A m \in Methods : \A i \in DOMAIN method[m].family : t \notin Arguments(method[m].family[i])
    /\ Unload(t)

Creating(m) ==
    /\ keys < MaxKeys /\ "copy" \notin Registered
    /\ initialise(m)

Next ==
    \/ \E t \in Types : Loading(t) \/ Unloading(t)
    \/ \E m \in Methods :
           \/ Creating(m) \/ destroy(m)
           \/ \E actual \in Callable(m) : dispatch(m, actual)
           \/ \E function \in Functions[m] :
                  \/ /\ Arguments(function) \subseteq Registered
                     /\ Len(method["one"].family) + Len(method["two"].family) < MaxFunctions
                     /\ extend(m, function)
                  \/ remove(m, function)

Spec == Init /\ [][Next]_vars

-----------------------------------------------------------------------------
\* Through loading and unloading the register knows all bases of every type and
\* all types of every base, and each type has an entry for each method and
\* position that can take it, and no other (XTypeInfo.cpp:71, 189, MultiMethod.cpp
\* typeClean).  The rules of Loading and Unloading keep away what breaks this: of
\* two copies of a type the older may not go first - it would take the name and
\* the links of the bases with it, and the assertion of the younger one's leaving
\* would fail (XTypeInfo.cpp:214) - and no method may be there with both.
TablesFit == BasesAreComplete /\ DerivedIsTheInverse /\ EntriesFit
=============================================================================
