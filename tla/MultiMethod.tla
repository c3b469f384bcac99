---------------------------- MODULE MultiMethod ----------------------------
(***************************************************************************)
(* The register of class types (src/utils/XTypeInfo.cpp): every type that  *)
(* a library brings in is entered with the bases its author declared for   *)
(* it and leaves when the library goes.  A type and its definition (an     *)
(* XTypeInfo and its ClassDef) are one value here; several libraries may   *)
(* bring in a type of the same name.                                       *)
(*                                                                         *)
(* Methods that choose a function by the types of several arguments        *)
(* (src/utils/MultiMethod.cpp).  A method keeps, in every type its         *)
(* arguments can have, an entry per argument position with the functions   *)
(* that take the type there, nearest first.  The entries are made anew     *)
(* when a call finds them older than the method's generation, and come and *)
(* go with the types, for the method is a monitor of the type register.    *)
(*                                                                         *)
(* A function is the sequence of its argument types.  Scores that were     *)
(* given back are "freed": what an entry then points at may be anything.   *)
(***************************************************************************)
EXTENDS Integers, Sequences, SequencesExt, FiniteSetsExt

CONSTANTS
    Types,
    Name,       \* [Types -> names]: std::type_info
    Declared    \* [Types -> Seq(Types)]: the direct bases, in declared order

VARIABLES
    table,      \* [names -> SUBSET Types]: the definition of the name, if it has one
    types,      \* [Types -> Seq(Types)]: m_types of a definition, the newest first
    bases,      \* [Types -> Seq]: m_basesBegin .. m_basesEnd
    derived     \* [Types -> Seq(Types)]: m_derivedBegin .. m_derivedEnd

typeVars == <<table, types, bases, derived>>

Base(distance, to) == [distance |-> distance, to |-> to]

\* The tables that the XTYPEINFO_DEF macros lay down.
Static(t) == [i \in DOMAIN Declared[t] |-> Base(1, Declared[t][i])]

Direct(list) == SelectSeq(list, LAMBDA b : b.distance = 1)

InitTypes ==
    /\ table = [n \in {Name[t] : t \in Types} |-> {}]
    /\ types = [t \in Types |-> <<>>]
    /\ bases = [t \in Types |-> Static(t)]
    /\ derived = [t \in Types |-> <<>>]

IsRegistered(t) == \E def \in Types : Contains(types[def], t)
Registered == {t \in Types : IsRegistered(t)}

\* m_activeDef: the definition that was the name's when the type came.
activeDef(t) == CHOOSE def \in Types : Contains(types[def], t)

\* No other type of the definition is left.
IsLast(t) == IsRegistered(t) /\ types[activeDef(t)] = <<t>>

\* No older one is (m_nextEqual).
IsOldest(t) == IsRegistered(t) /\ Last(types[activeDef(t)]) = t

-----------------------------------------------------------------------------
RECURSIVE collectBases(_, _, _)
\* All bases of "list" after those found so far, each once, a base before its
\* own bases.
collectBases(list, found, distance) ==
    FoldLeft(LAMBDA sofar, b :
                 LET at     == SelectInSeq(sofar, LAMBDA f : f.to = b.to)
                     nearer == at # 0 /\ sofar[at].distance > b.distance + distance
                     now    == IF nearer THEN Append(RemoveAt(sofar, at), Base(distance, b.to))
                               ELSE IF at = 0 THEN Append(sofar, Base(distance, b.to)) ELSE sofar
                 IN  collectBases(bases[b.to], now, distance + 1),
             found, Direct(list))

\* The first type of a name gets all its bases and is entered with the direct
\* ones; others of the name are only put in front of it.
registerType(t) ==
    LET n == Name[t] IN
    /\ ~IsRegistered(t) /\ types[t] = <<>>
    /\ \/ /\ \E def \in table[n] : types' = [types EXCEPT ![def] = <<t>> \o @]
          /\ UNCHANGED <<table, bases, derived>>
       \/ /\ table[n] = {}
          /\ table' = [table EXCEPT ![n] = {t}]
          /\ types' = [types EXCEPT ![t] = <<t>>]
          /\ bases' = [bases EXCEPT ![t] = collectBases(Static(t), <<>>, 1)]
          /\ derived' = [b \in Types |->
                 IF \E i \in DOMAIN bases'[t] : bases'[t][i] = Base(1, b)
                 THEN Append(derived[b], t) ELSE derived[b]]

\* A mutant of deregisterType: the bases keep the type among those derived from them.
deregisterTypeKept(t) ==
    /\ IsRegistered(t)
    /\ types' = [types EXCEPT ![activeDef(t)] = SelectSeq(@, LAMBDA u : u # t)]
    /\ table' = [table EXCEPT ![Name[t]] = IF IsOldest(t) THEN {} ELSE @]
    /\ UNCHANGED <<bases, derived>>

\* The direct bases of the definition in use.
DirectBases(t) == {b \in Types : Contains(bases[activeDef(t)], Base(1, b))}

\* The assertions of a type that goes: its bases have it and so has the table.
CanLeave(t) ==
    IsOldest(t) => table[Name[t]] # {} /\ \A b \in DirectBases(t) : Contains(derived[b], t)

\* With the oldest of a definition go the name and what the direct bases know of
\* it, even if younger ones are left.
deregisterType(t) ==
    /\ IsRegistered(t) /\ CanLeave(t)
    /\ types' = [types EXCEPT ![activeDef(t)] = SelectSeq(@, LAMBDA u : u # t)]
    /\ \/ ~IsOldest(t) /\ UNCHANGED <<table, derived>>
       \/ /\ IsOldest(t)
          /\ table' = [table EXCEPT ![Name[t]] = {}]
          /\ derived' = [b \in Types |-> IF b \in DirectBases(t) THEN RemoveFirst(derived[b], t) ELSE derived[b]]
    /\ UNCHANGED bases

Lists(list, u) == \E i \in DOMAIN list : list[i].to = u

hasBase(t, u) == Lists(bases[t], u)

\* The base iterator's distance.
distanceTo(t, u) == bases[t][SelectInSeq(bases[t], LAMBDA b : b.to = u)].distance

-----------------------------------------------------------------------------
RECURSIVE Ways(_, _)
\* The lengths of the ways up from a type to a base, as declared.
Ways(t, u) ==
    UNION {IF Declared[t][i] = u THEN {1} ELSE {w + 1 : w \in Ways(Declared[t][i], u)} :
              i \in DOMAIN Declared[t]}

\* The types whose definition a name has.
Owners == UNION {table[Name[t]] : t \in Types}

\* A type knows all its bases and each once, and a base that can be reached in
\* different ways is at the distance of the shortest or, where the way found
\* first was longer by one, of that one (XTypeInfo.cpp collectBases).
BasesAreComplete ==
    \A t \in Owners : LET all == {bases[t][i].to : i \in DOMAIN bases[t]} IN
        /\ all = {u \in Types : Ways(t, u) # {}} /\ Cardinality(all) = Len(bases[t])
        /\ \A u \in all : distanceTo(t, u) \in {Min(Ways(t, u)), Min(Ways(t, u)) + 1}

\* Types and bases know each other, every type that came is one of the definition
\* of its name, and what leaves is found where it has to be taken out: the
\* assertions of deregisterType () hold.
DerivedIsTheInverse ==
    /\ \A t \in Owners, b \in Types :
           Contains(derived[b], t) = (\E i \in DOMAIN bases[t] : bases[t][i] = Base(1, b))
    /\ \A t \in Registered : activeDef(t) \in table[Name[t]] /\ CanLeave(t)
    /\ \A b, t \in Types : t \notin Owners => ~Contains(derived[b], t)

-----------------------------------------------------------------------------
(* The methods.                                                            *)

CONSTANTS
    Methods,
    Formals,        \* [Methods -> Seq(Types)]: the declared argument types
    Generations,    \* m_generation is a number modulo this
    Debug           \* a build with neither NDEBUG nor NLOG

VARIABLES
    keys,           \* the last key given out by methodKey ()
    method,         \* [Methods -> record]: the Definition of each
    hooks,          \* the monitors of the register
    entries         \* [Types -> set]: the chain in the type's extension, where each
                    \* entry is found by key and position

methodVars == <<keys, method, hooks, entries>>

\* What m_scores is when there are none, and what when they were given back.
None  == <<>>
Stale == <<[index |-> 0, distance |-> 0]>>

\* A call chooses the number of a function, or the program ends.
NoViableAlt == 0
Ambiguity   == -1
Garbage     == -2

Positions(m) == DOMAIN Formals[m]

InitMethods ==
    /\ keys = 0 /\ hooks = <<>>
    /\ method = [m \in Methods |-> [key |-> 0, hooked |-> FALSE, dirty |-> FALSE, generation |-> 0, family |-> <<>>]]
    /\ entries = [t \in Types |-> {}]

-----------------------------------------------------------------------------
\* The entries of a type come when it is hooked and go when it is unhooked.

\* The argument positions whose type is this one or one of its bases.
Related(m, t, list) == {f \in Positions(m) : t = Formals[m][f] \/ Lists(list, Formals[m][f])}

Is(t, u) == t = u \/ hasBase(t, u)

relatedFormal(m, t) == Min(Related(m, t, bases[t]) \cup {Len(Formals[m]) + 1})

\* The entries of a method among those of a type.
findTypeEntries(all, key) == {e \in all : e.key = key}
Entry(all, key, formal) == {e \in all : e.key = key /\ e.formal = formal}
Scores(all, key, formal) == (CHOOSE e \in Entry(all, key, formal) : TRUE).scores

typePrepare(key, positions) == {[key |-> key, formal |-> f, generation |-> 0, scores |-> None] : f \in positions}

typeHook(m, t, list, all) == all \cup typePrepare(method[m].key, Related(m, t, list))

typeClean(key, all) == all \ findTypeEntries(all, key)

\* addMonitor () tells the method of every type there is.
Hooked(m) == [t \in Types |-> IF IsRegistered(t) THEN typeHook(m, t, bases[t], entries[t]) ELSE entries[t]]

\* removeMonitor () tells the method of every type as if it went.
Unhooked(m, all) == [t \in Types |-> IF IsRegistered(t) THEN typeClean(method[m].key, all[t]) ELSE all[t]]

\* One monitor is told that a type goes.  If that is its argument type - the
\* first to which the type is related - it takes itself out of the vector that
\* is just being walked: the others move down by one, under the walk, and the
\* last one is still there behind the end.
typeUnhook(s, m, t) ==
    LET key == method[m].key
        f   == relatedFormal(m, t)
        argument == f \in Positions(m) /\ t = Formals[m][f] /\ findTypeEntries(s.entries[t], key) # {}
        at  == SelectInSeq(s.hooks, LAMBDA h : h = m)
    IN  IF argument /\ s.hooked[m]
        THEN [entries |-> Unhooked(m, s.entries), hooked |-> [s.hooked EXCEPT ![m] = FALSE], size |-> s.size - 1,
              hooks |-> [i \in DOMAIN s.hooks |-> IF at <= i /\ i < s.size THEN s.hooks[i + 1] ELSE s.hooks[i]]]
        ELSE [s EXCEPT !.entries[t] = typeClean(key, @)]

\* The types of the libraries that come and go.
Load(t) ==
    /\ registerType(t)
    /\ entries' = IF table[Name[t]] # {} THEN entries
                  ELSE [entries EXCEPT ![t] =
                           FoldLeft(LAMBDA chain, m : typeHook(m, t, bases'[t], chain), @, hooks)]
    /\ UNCHANGED <<keys, method, hooks>>

Unload(t) ==
    /\ deregisterType(t)
    /\ LET start == [entries |-> entries, hooks |-> hooks, size |-> Len(hooks),
                     hooked |-> [m \in Methods |-> method[m].hooked]]
           told  == IF ~IsLast(t) THEN start
                    ELSE FoldLeft(LAMBDA s, i : typeUnhook(s, s.hooks[i], t), start, [i \in DOMAIN hooks |-> i])
       IN  /\ entries' = told.entries
           /\ hooks' = SubSeq(told.hooks, 1, told.size)
           /\ method' = [m \in Methods |-> [method[m] EXCEPT !.hooked = told.hooked[m]]]
    /\ UNCHANGED keys

-----------------------------------------------------------------------------
\* The functions of a method.

initialise(m) ==
    /\ method[m].key = 0
    /\ keys' = keys + 1
    /\ method' = [method EXCEPT ![m].key = keys + 1, ![m].dirty = TRUE]
    /\ UNCHANGED <<hooks, entries>> /\ UNCHANGED typeVars

\* ~MultiMethod ()
destroy(m) ==
    /\ method[m].key # 0
    /\ entries' = IF method[m].hooked THEN Unhooked(m, entries) ELSE entries
    /\ hooks' = SelectSeq(hooks, LAMBDA h : h # m)
    /\ method' = [method EXCEPT ![m].key = 0, ![m].hooked = FALSE, ![m].generation = 0]
    /\ UNCHANGED keys /\ UNCHANGED typeVars

extend(m, function) ==
    /\ ~Contains(method[m].family, function)
    /\ method' = [method EXCEPT ![m].family = Append(@, function), ![m].dirty = TRUE]
    /\ UNCHANGED <<keys, hooks, entries>> /\ UNCHANGED typeVars

remove(m, function) ==
    /\ Contains(method[m].family, function)
    /\ method' = [method EXCEPT ![m].family = RemoveAt(@, SelectInSeq(@, LAMBDA f : f = function)), ![m].dirty = TRUE]
    /\ UNCHANGED <<keys, hooks, entries>> /\ UNCHANGED typeVars

-----------------------------------------------------------------------------
\* The scores.

RECURSIVE Below(_)
Below(t) == {t} \cup UNION {Below(derived[t][i]) : i \in DOMAIN derived[t]}

\* The entries of a method as "change" has them, the others as they are.
Changed(key, all, change) == {IF e.key = key THEN change[e] ELSE e : e \in all}

cleanScores(m, all) ==
    LET where == UNION {Below(Formals[m][f]) : f \in Positions(m)}
    IN  [t \in Types |-> IF t \notin where THEN all[t]
                         ELSE Changed(method[m].key, all[t], [e \in all[t] |-> [e EXCEPT !.generation = 0, !.scores = None]])]

\* The method becomes a monitor, if it is none yet, the scores are given back
\* and the number of the generation goes up, past zero.
newGeneration(m) ==
    LET key   == method[m].key
        first == IF method[m].hooked THEN entries ELSE Hooked(m)
        freed == [t \in Types |-> Changed(key, first[t], [e \in first[t] |-> [e EXCEPT !.scores = IF @ = None THEN None ELSE Stale]])]
        next  == (method[m].generation + 1) % Generations
    IN  [generation |-> IF next = 0 THEN 1 ELSE next,
         entries |-> IF next = 0 THEN cleanScores(m, freed) ELSE freed]

\* The functions that take the type in one position, by distance.
Sorted(family, t, formal) ==
    LET scores == SelectSeq([i \in DOMAIN family |->
                      [index |-> i, distance |-> IF family[i][formal] = t THEN 0
                                                 ELSE IF hasBase(t, family[i][formal]) THEN distanceTo(t, family[i][formal])
                                                 ELSE -1]], LAMBDA s : s.distance >= 0)
    IN  SortSeq(scores, LAMBDA s, r : s.distance < r.distance \/ (s.distance = r.distance /\ s.index < r.index))

\* A type for which no function is made and with one base in the method shares
\* the scores of that.
buildScores(m, generation, all, t) ==
    LET key    == method[m].key
        family == method[m].family
        New(formal) ==
            LET in == SelectSeq(bases[t], LAMBDA b : Entry(all[b.to], key, formal) # {})
            IN  IF Sorted(family, t, formal) = <<>> THEN None
                ELSE IF Len(in) = 1 /\ \A i \in DOMAIN family : family[i][formal] # t
                THEN Scores(all[in[1].to], key, formal)
                ELSE Sorted(family, t, formal)
        change == [e \in all[t] |-> IF e.generation = generation THEN e
                                    ELSE [e EXCEPT !.generation = generation, !.scores = New(e.formal)]]
    IN  [all EXCEPT ![t] = Changed(key, @, change)]

\* A mutant of regenerate: the bases from the first to the last.
regenerateForward(m, generation, all, t) ==
    FoldLeft(LAMBDA now, u : buildScores(m, generation, now, u), all, Append([i \in DOMAIN bases[t] |-> bases[t][i].to], t))

\* The bases of a type from the last to the first, then the type.
regenerate(m, generation, all, t) ==
    FoldLeft(LAMBDA now, u : buildScores(m, generation, now, u), all,
             Append(Reverse([i \in DOMAIN bases[t] |-> bases[t][i].to]), t))

-----------------------------------------------------------------------------

\* The first function, in the order of the first position, that all positions
\* have - and then whether one of the others at that distance is better.
Choice(c) ==
    LET In(f, index) == SelectInSeq(c[f], LAMBDA s : s.index = index)
        others   == DOMAIN c \ {1}
        fits     == {p \in DOMAIN c[1] : \A f \in others : In(f, c[1][p].index) # 0}
        start    == Min(fits)
        At(p, f) == c[f][In(f, c[1][p].index)].distance
        Found(s, p, f) == In(f, c[1][p].index) # 0 /\ At(p, f) <= s.best[f]
        \* The positions looked at: up to the first without the function.
        Seen(s, p) == {f \in others : \A g \in 2..f : Found(s, p, g)}
        Compare(s, p) ==
            LET better == {f \in Seen(s, p) : At(p, f) < s.best[f]}
            IN  IF s.ambiguous \/ better = {} THEN s
                ELSE IF better # others THEN [s EXCEPT !.ambiguous = TRUE]
                ELSE [s EXCEPT !.at = p, !.best = IF Debug THEN [f \in DOMAIN c |-> At(p, f)] ELSE @]
        rest == SelectSeq([p \in DOMAIN c[1] |-> p], LAMBDA p : p > start /\ c[1][p].distance = c[1][start].distance)
        end  == FoldLeft(Compare, [at |-> start, best |-> [f \in DOMAIN c |-> At(start, f)], ambiguous |-> FALSE], rest)
    IN  IF fits = {} THEN NoViableAlt ELSE IF end.ambiguous THEN Ambiguity ELSE c[1][end.at].index

\* What a call with arguments of these types does and chooses.
Outcome(m, actual) ==
    LET key == method[m].key
        now == IF method[m].dirty THEN newGeneration(m)
               ELSE [generation |-> method[m].generation, entries |-> entries]
        Old(all, f) == \E e \in Entry(all[actual[f]], key, f) : e.generation < now.generation
        all == FoldLeft(LAMBDA sofar, f : IF Old(sofar, f) THEN regenerate(m, now.generation, sofar, actual[f]) ELSE sofar,
                        now.entries, [f \in Positions(m) |-> f])
        c == [f \in Positions(m) |-> IF Entry(all[actual[f]], key, f) = {} THEN None ELSE Scores(all[actual[f]], key, f)]
    IN  [entries |-> all, generation |-> now.generation,
         chosen |-> IF \E f \in Positions(m) : c[f] = None THEN NoViableAlt
                    ELSE IF \E f \in Positions(m) : c[f] = Stale THEN Garbage ELSE Choice(c)]

\* A call that chooses a function; the other calls end the program.
dispatch(m, actual) ==
    LET o == Outcome(m, actual) IN
    /\ method[m].key # 0
    /\ o.chosen \in DOMAIN method[m].family
    /\ entries' = o.entries
    /\ hooks' = IF method[m].hooked \/ ~method[m].dirty THEN hooks ELSE Append(hooks, m)
    /\ method' = [method EXCEPT ![m].hooked = @ \/ method[m].dirty, ![m].dirty = FALSE, ![m].generation = o.generation]
    /\ UNCHANGED keys /\ UNCHANGED typeVars

-----------------------------------------------------------------------------
\* A method that watches the types has entries in all that can be its arguments,
\* one for each position they can be in, and nobody else has any: the assertions of the hooks hold (MultiMethod.cpp
\* typePrepare, typeClean; XTypeInfo.cpp deregisterType).
EntriesFit ==
    LET watching == {m \in Methods : method[m].hooked} IN
    /\ ToSet(hooks) = watching /\ Len(hooks) = Cardinality(watching)
    /\ \A t \in Types :
           /\ {<<e.key, e.formal>> : e \in entries[t]}
              = UNION {{<<method[m].key, f>> : f \in {g \in Positions(m) : IsRegistered(t) /\ Is(t, Formals[m][g])}} : m \in watching}
           /\ \A e, g \in entries[t] : e.key = g.key /\ e.formal = g.formal => e = g

\* An entry of this generation has the scores that the type and the functions
\* there are give, up to one number that all distances differ by - never those
\* of functions that are gone, never memory given back, whatever was loaded,
\* unloaded, called and added before, and when the generations wrap around.
ScoresAreRight ==
    \A m \in Methods, t \in Types : \A e \in entries[t] :
        LET right == Sorted(method[m].family, t, e.formal)
        IN  method[m].hooked /\ ~method[m].dirty /\ e.key = method[m].key /\ e.generation = method[m].generation
            => /\ Len(e.scores) = Len(right)
               /\ \A j \in DOMAIN right : /\ e.scores[j].index = right[j].index
                                          /\ right[j].distance - e.scores[j].distance = right[1].distance - e.scores[1].distance

\* A call can be made: the method watches the types, or will from now on.
Callable(m) ==
    {actual \in [Positions(m) -> Registered] :
        /\ method[m].key # 0 /\ (method[m].hooked \/ method[m].dirty)
        /\ \A f \in Positions(m) : IsRegistered(Formals[m][f]) /\ Is(actual[f], Formals[m][f])}

=============================================================================
