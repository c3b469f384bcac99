------------------------------ MODULE Callback -------------------------------
(***************************************************************************)
(* Callback, Hook and their variants with one and two arguments: handles   *)
(* on implementations that are shared and counted, some of which have      *)
(* another handle among the arguments they keep; and HookList, a list of   *)
(* hooks that are called in turn and may change the list while it is done. *)
(***************************************************************************)
EXTENDS Integers, Sequences, SequencesExt, FiniteSets, FiniteSetsExt

CONSTANTS
    Handles,        \* the objects, those in the list included
    Objects, FunctionNames, Values, \* what implementations are made of
    Reps            \* the implementations that are alive at a time

VARIABLES
    reps,           \* implementation |-> its count, and the one its handle is on
    rep,            \* handle |-> its m_rep, 0, or NotMade
    list, first,    \* the list and the hook that call () is at
    called          \* history: the hooks call () called and what they returned

callbackVars == <<reps, rep, list, first, called>>

-----------------------------------------------------------------------------
(* The implementations: CallbackImpF00 to CallbackImpC22, HookImpF00 to    *)
(* HookImpC22.  A class is a choice of the arguments the caller gives, of  *)
(* those that are kept, and of whether there is an object.                 *)

NoObject == "function"
ArgLists == UNION {[1..n -> Values] : n \in 0..2}
Implementations(given) ==
    [given : {given}, object : Objects \cup {NoObject}, function : FunctionNames, fills : ArgLists]

\* Whose function is called with what.
call0(r) == <<r.object, r.function, r.fills>>
call1(r, a) == <<r.object, r.function, <<a>> \o r.fills>>
call2(r, a, b) == <<r.object, r.function, <<a, b>> \o r.fills>>

\* dynamic_cast finds the same class; then the members are compared.
equal(r, s) ==
    /\ r.given = s.given /\ (r.object = NoObject) = (s.object = NoObject) /\ Len(r.fills) = Len(s.fills)
    /\ r.object = s.object /\ r.function = s.function /\ r.fills = s.fills

-----------------------------------------------------------------------------
(* The handles.                                                            *)

NotMade == -1

CallbackInit ==
    /\ reps = <<>> /\ rep = [h \in Handles |-> NotMade]
    /\ list = <<>> /\ first = "none" /\ called = <<>>

\* Functions from one state of the memory to the next.
Memory == [reps |-> reps, rep |-> rep]
Becomes(m) == reps' = m.reps /\ rep' = m.rep

ref(m, r) == IF r = 0 THEN m ELSE [m EXCEPT !.reps[r].refs = @ + 1]

\* What is let go of when the handle on r goes: r, then the one inside, and so on.
Behind(m, r, c, i) == IF i = 1 THEN r ELSE m.reps[c[i - 1]].inner

\* Those that go, one after the other: all of them had one user.
Chains(m, r) ==
    LET single == {s \in DOMAIN m.reps : m.reps[s].refs = 1} IN
    {c \in SeqOf(single, Cardinality(single)) :
        /\ \A i \in DOMAIN c : c[i] = Behind(m, r, c, i)
        /\ Behind(m, r, c, Len(c) + 1) \notin single}

\* The first that is used by others stays, with one user less.
Without(m, r, c) ==
    LET last == Behind(m, r, c, Len(c) + 1) kept == [s \in DOMAIN m.reps \ Range(c) |-> m.reps[s]]
    IN  [m EXCEPT !.reps = [s \in DOMAIN kept |-> IF s = last THEN [kept[s] EXCEPT !.refs = @ - 1] ELSE kept[s]]]

\* What becomes of the memory, as the only member of a set.
unref(m, r) == {Without(m, r, c) : c \in Chains(m, r)}

\* CreateCallback () or CreateHook (), with a handle among the arguments or not,
\* and a handle on what it made.
Create(h, inner) ==
    /\ rep[h] = NotMade /\ inner # NotMade
    /\ \E r \in Reps \ DOMAIN reps :
          Becomes([ref(Memory, inner) EXCEPT !.reps = [x \in DOMAIN @ \cup {r} |->
                       IF x = r THEN [refs |-> 1, inner |-> inner] ELSE @[x]], !.rep[h] = r])
    /\ UNCHANGED <<list, first, called>>

Copied(h, r) == Becomes([ref(Memory, r) EXCEPT !.rep[h] = r])

Copy(h, x) ==
    /\ rep[h] = NotMade /\ rep[x] # NotMade
    /\ Copied(h, rep[x])
    /\ UNCHANGED <<list, first, called>>

\* A mutant of Assigned: without a look at what is there.
AssignedBlindly(m, h, r) == {ref([k EXCEPT !.rep[h] = r], r) : k \in unref(m, m.rep[h])}

\* The old one is let go before the new one is taken.
Assigned(m, h, r) ==
    IF m.rep[h] = r THEN {m} ELSE {ref([k EXCEPT !.rep[h] = r], r) : k \in unref(m, m.rep[h])}

Assign(h, x) ==
    /\ rep[h] # NotMade /\ rep[x] # NotMade
    /\ \E m \in Assigned(Memory, h, rep[x]) : Becomes(m)
    /\ UNCHANGED <<list, first, called>>

\* A handle is given the one among the arguments of another, which must stay
\* alive meanwhile: not its own, unless that is shared.
AssignInner(h, x) ==
    /\ rep[h] # NotMade /\ rep[x] > 0
    /\ \E m \in Assigned(Memory, h, reps[rep[x]].inner) : rep[x] \in DOMAIN m.reps /\ Becomes(m)
    /\ UNCHANGED <<list, first, called>>

Destroy(h) ==
    /\ rep[h] # NotMade /\ h \notin Range(list)
    /\ \E m \in unref(Memory, rep[h]) : Becomes([m EXCEPT !.rep[h] = NotMade])
    /\ UNCHANGED <<list, first, called>>

-----------------------------------------------------------------------------
(* The list.                                                               *)

\* push_back () of a copy of a hook that is one.
Append2List(h, x) ==
    /\ rep[h] = NotMade /\ rep[x] > 0
    /\ Copied(h, rep[x]) /\ list' = Append(list, h)
    /\ UNCHANGED <<first, called>>

\* A list without what is at the place given, if one is.
Less(s, places) == IF places = {} THEN s ELSE RemoveAt(s, CHOOSE i \in places : TRUE)

\* erase (); a hook does not erase itself while it is called.
Erase(h) ==
    /\ h \in Range(list) /\ h # first
    /\ \E m \in unref(Memory, rep[h]) : Becomes([m EXCEPT !.rep[h] = NotMade])
    /\ list' = Less(list, {i \in DOMAIN list : list[i] = h})
    /\ called' = Less(called, {i \in DOMAIN called : called[i].hook = h})
    /\ UNCHANGED first

BeginCall ==
    /\ first = "none" /\ list # <<>> /\ \A h \in Range(list) : rep[h] > 0
    /\ first' = Head(list) /\ called' = <<>>
    /\ UNCHANGED <<reps, rep, list>>

Continues(stopped, next) == ~stopped /\ next # <<>>

\* The hook returns; what is behind it now is next.
HookReturns(stopped) ==
    LET k == CHOOSE i \in DOMAIN list : list[i] = first
        next == SubSeq(list, k + 1, Len(list))
    IN  /\ first # "none"
        /\ called' = Append(called, [hook |-> first, stopped |-> stopped])
        /\ first' = IF Continues(stopped, next) THEN Head(next) ELSE "none"
        /\ UNCHANGED <<reps, rep, list>>

CallbackNext ==
    \/ \E h, x \in Handles :
           \/ Copy(h, x) \/ Assign(h, x) \/ AssignInner(h, x) \/ Append2List(h, x)
           \/ Create(h, rep[x])
    \/ \E h \in Handles : Create(h, 0) \/ Destroy(h) \/ Erase(h)
    \/ BeginCall
    \/ \E stopped \in BOOLEAN : HookReturns(stopped)

-----------------------------------------------------------------------------
(* An implementation is counted right and lives as long as there is a      *)
(* handle on it, inside another or not (Callback.h and Hook.h: ref, unref, *)
(* the constructors, the destructors, operator=).                          *)
CountsAreRight ==
    LET users(r) == {h \in Handles : rep[h] = r} inside(r) == {s \in DOMAIN reps : reps[s].inner = r}
    IN  /\ \A r \in DOMAIN reps : reps[r].refs = Cardinality(users(r)) + Cardinality(inside(r)) /\ reps[r].refs > 0
        /\ \A h \in Handles : rep[h] > 0 => rep[h] \in DOMAIN reps
        /\ \A r \in DOMAIN reps : reps[r].inner # 0 => reps[r].inner \in DOMAIN reps

(* call () calls the hooks in the order of the list, none twice, up to the *)
(* first that returns true or the end of the list as it is by then,        *)
(* whatever the hooks add and take away (HookList.h call).                 *)
ListInTurn ==
    [][first # "none" /\ first' = "none" =>
          LET hooks == [i \in DOMAIN called' |-> called'[i].hook]
          IN  /\ IsPrefix(hooks, list) /\ \A i \in DOMAIN called : ~called[i].stopped
              /\ hooks = list \/ Last(called').stopped]_callbackVars

(* Callbacks that compare equal do the same when they are called, and the  *)
(* other way round (Callback.h call, equal).                               *)
EqualCallTheSame ==
    \A given \in 0..2 : \A r, s \in Implementations(given) :
        equal(r, s) <=> CASE given = 0 -> call0(r) = call0(s)
                          [] given = 1 -> \A a \in Values : call1(r, a) = call1(s, a)
                          [] OTHER     -> \A a, b \in Values : call2(r, a, b) = call2(s, a, b)
=============================================================================
